------------------------------ MODULE TabNaming ------------------------------
(***************************************************************************)
(* The tab namer of one rail (crates/plugin/src/tab_namer.rs, and how      *)
(* radar_state.rs and runtime.rs feed it).  Zellij (the host) reports tabs *)
(* and panes as two updates that the rail joins by position; a rename is a *)
(* host call the rail sees the effect of in a later update.  Meanwhile     *)
(* tabs move, panes are taken elsewhere and the user renames tabs.         *)
(***************************************************************************)
EXTENDS Naturals, SequencesExt

CONSTANTS
  MaxAsk,          \* MAX_CWD_BOOTSTRAP_PER_UPDATE
  MaxChanges,      \* bound: what happens in the session, in all
  MaxQueue         \* bound: updates on their way to the rail

ASSUME NamingAssumption == MaxAsk \in Nat

VARIABLES
  host,      \* the session: order, names, seat, dir, title, focused; of the
             \* rail's tab, which of the user's names it has (history, 0: none)
  owed,      \* what the host has yet to report
  queue,     \* the updates on their way to the rail
  rail,      \* the rail
  renames,   \* rename calls on their way to the host
  changes,   \* what happened so far
  joined,    \* history: where the tabs were in what the rail joined
  shown,     \* history: the user's name in the last update of the tabs
  moved      \* history: a tab or a pane changed its place
namingVars == <<host, owed, queue, rail, renames, changes, joined, shown, moved>>

-----------------------------------------------------------------------------
\* Names.  A name of the host's default form stands for all of them.
None == "none"
Default == "default"
Sanitized(name) == IF name = "overlong" THEN "overlon" ELSE name

\* worktree_repo_dir: a worktree of an agent's is named after its repository,
\* the root after nothing.
DirName(dir) == CASE dir = "root" -> None [] dir = "worktree" -> "x" [] OTHER -> dir
\* title_name: an untitled pane's placeholder says nothing.
TitleName(title) == IF title = "untitled" THEN None ELSE title

\* Those of a sequence that are in S.
Among(s, S) ==
  LET found[n \in 0 .. Len(s)] ==
        IF n = 0 THEN <<>>
        ELSE IF s[n] \in S THEN Append(found[n - 1], s[n])
        ELSE found[n - 1]
  IN  found[Len(s)]

\* The name the first focused pane has, then those of every pane, in order.
FocusedFirst(panes, names) ==
  LET focused == {i \in DOMAIN panes : panes[i].focused}
      heard   == (IF focused = {} THEN <<>> ELSE <<names[Min(focused)]>>) \o names
  IN  Among(heard, ToSet(heard) \ {None})

NameCandidates(panes) ==
  FocusedFirst(panes, [i \in DOMAIN panes |-> panes[i].repo])
  \o FocusedFirst(panes, [i \in DOMAIN panes |-> DirName(panes[i].dir)])
  \o FocusedFirst(panes, [i \in DOMAIN panes |-> TitleName(panes[i].title)])

ComputedName(panes) == IF NameCandidates(panes) = <<>> THEN None ELSE Sanitized(NameCandidates(panes)[1])
NameSupported(panes, name) == Contains(NameCandidates(panes), name)

-----------------------------------------------------------------------------
\* The rail: its tab once it knows it, and what it last heard of the session.
\* `calls' are the renames one event asks for.
Modes == {"off", "managed", "force"}
FreshRail(repo) ==
  [own |-> None, position |-> 0, tabs |-> <<>>, panes |-> <<>>, dir |-> <<>>, asked |-> {},
   repo |-> repo, applied |-> None, mode |-> "managed", calls |-> <<>>]

PlaceOf(r, tab) ==
  LET places == {i \in DOMAIN r.tabs : r.tabs[i].id = tab}
  IN  IF places = {} THEN 0 ELSE Min(places)

\* tab_facts: the panes at the tab's position, with what else is known of them.
TabFacts(r, at) ==
  LET panes == IF at \in DOMAIN r.panes THEN r.panes[at] ELSE <<>>
  IN  [i \in DOMAIN panes |->
        [focused |-> panes[i].focused, title |-> panes[i].title, repo |-> r.repo[panes[i].id],
         dir |-> IF panes[i].id \in DOMAIN r.dir THEN r.dir[panes[i].id] ELSE "root"]]

\* Mutant: any name may be replaced.
MayReplaceAll(r, name) == TRUE

MayReplace(r, name) == r.mode = "force" \/ name = Default \/ name = r.applied

\* TabNamer::rename of the rail's own tab (rename_tabs).
RenameTabs(r) ==
  LET at      == IF r.own = None THEN 0 ELSE PlaceOf(r, r.own)
      name    == r.tabs[at].name
      panes   == TabFacts(r, at)
      desired == ComputedName(panes)
  IN  IF /\ r.mode # "off" /\ at # 0
         /\ ~(name = r.applied /\ NameSupported(panes, name))
         /\ desired \notin {None, name}
         /\ MayReplace(r, name)
      THEN [r EXCEPT !.applied = desired, !.calls = Append(@, [tab |-> r.own, name |-> desired])]
      ELSE r

\* Mutant: whichever tab is at the position.
ResolveByPosition(r) ==
  IF r.position \in DOMAIN r.tabs THEN [r EXCEPT !.own = r.tabs[r.position].id] ELSE r

\* resolve_naming_tab: once resolved, the tab's id is kept for good.
ResolveNamingTab(r) ==
  IF r.own = None /\ r.position \in DOMAIN r.tabs THEN [r EXCEPT !.own = r.tabs[r.position].id] ELSE r

-----------------------------------------------------------------------------
\* The updates the rail handles.

\* Mutant: names wait for the next update of the panes.
TabsChangedOnly(r, tabs) ==
  ResolveNamingTab([r EXCEPT !.tabs = [i \in DOMAIN tabs |-> [tabs[i] EXCEPT !.name = Sanitized(@)]]])

\* tabs_changed: names are computed again only when the tab was just resolved.
TabsChanged(r, tabs) ==
  LET seen == [i \in DOMAIN tabs |-> [tabs[i] EXCEPT !.name = Sanitized(@)]]
      next == ResolveNamingTab([r EXCEPT !.tabs = seen])
      live == {seen[i].id : i \in DOMAIN seen}
      retained == [next EXCEPT !.applied = IF next.own \in live \cup {None} THEN @ ELSE None]
  IN  IF seen = r.tabs THEN r
      ELSE IF r.own = None /\ next.own # None THEN RenameTabs(retained)
      ELSE retained

CwdChanged(r, pane, dir) ==
  RenameTabs([r EXCEPT !.dir = [p \in {pane} \cup DOMAIN @ |-> IF p = pane THEN dir ELSE @[p]]])

\* cwd_bootstrap_targets: focused panes first, so many at a time.
Unasked(r) ==
  LET fresh == {pane \in ToSet(FlattenSeq(r.panes)) : pane.id \notin DOMAIN r.dir \cup r.asked}
      Ids(panes) == SetToSortSeq({pane.id : pane \in panes}, <)
      all == Ids({pane \in fresh : pane.focused}) \o Ids({pane \in fresh : ~pane.focused})
  IN  IF r.mode = "off" THEN <<>> ELSE SubSeq(all, 1, IF Len(all) < MaxAsk THEN Len(all) ELSE MaxAsk)

\* resolve_cwd: the directories of the panes that could be read are told one
\* after the other.
ReadDirs(r, targets, readable, dirs) ==
  LET known[n \in 0 .. MaxAsk] ==
        IF n = 0 THEN r
        ELSE IF n \in DOMAIN targets /\ targets[n] \in readable THEN CwdChanged(known[n - 1], targets[n], dirs[targets[n]])
        ELSE known[n - 1]
  IN  known[MaxAsk]

\* own_plugin_tab_changed, panes_changed and the reads it asks for, of which those
\* of `readable' panes succeed.  (No pane here has the grace of a manifest that
\* observed ones have: what is read is of the panes in the manifest.)
PanesChanged(r, update, dirs, readable) ==
  LET live     == {pane.id : pane \in ToSet(FlattenSeq(update.panes))}
      owned    == IF r.own = None THEN ResolveNamingTab([r EXCEPT !.position = update.position]) ELSE r
      listed   == [owned EXCEPT !.panes = update.panes,
                                !.dir = [p \in DOMAIN @ \cap live |-> @[p]],
                                !.asked = @ \cap live]
      named    == RenameTabs(listed)
      targets  == Unasked(named)
  IN  ReadDirs([named EXCEPT !.asked = @ \cup ToSet(targets)], targets, readable, dirs)

\* status_pipe: a repository names the tab when it is news.
StatusPipe(r, pane, repo) ==
  IF r.repo[pane] = repo THEN r ELSE RenameTabs([r EXCEPT !.repo[pane] = repo])

ConfigPipe(r, mode) == RenameTabs([r EXCEPT !.mode = mode])

-----------------------------------------------------------------------------
\* The session: the rail's tab and a neighbour.  Panes 1 and 2 begin in the
\* rail's tab, pane 3 in the neighbour's.
Panes == 1..3
NextDir == <<"worktree", "overlong">>
Orders == {<<"own", "near">>, <<"near", "own">>, <<"own">>}

HostInit ==
  [order |-> <<"own", "near">>, edition |-> 0, names |-> [tab \in {"own", "near"} |-> Default],
   seat |-> <<"own", "own", "near">>, dir |-> <<"root", "x", "z">>, title |-> <<"untitled", "untitled", "untitled">>,
   focused |-> 1]

All == {"tabs", "panes"}

PaneList(tab) ==
  LET ids == Among(<<1, 2, 3>>, {p \in Panes : host.seat[p] = tab})
  IN  [i \in DOMAIN ids |-> [id |-> ids[i], title |-> host.title[ids[i]], focused |-> ids[i] \in {host.focused, 3}]]

\* (`order' and `edition' are history: the rail reads neither.)
TabUpdate  == [kind |-> "tabs", order |-> host.order, edition |-> host.edition,
               tabs |-> [i \in DOMAIN host.order |-> [id |-> host.order[i], name |-> host.names[host.order[i]]]]]
PaneUpdate == [kind |-> "panes", order |-> host.order, position |-> CHOOSE i \in DOMAIN host.order : host.order[i] = "own",
               panes |-> [i \in DOMAIN host.order |-> PaneList(host.order[i])]]

Unheard == [tabs |-> <<>>, panes |-> <<>>]

NamingInit ==
  /\ host = HostInit /\ owed = All /\ queue = <<>>
  /\ rail = FreshRail([p \in Panes |-> None]) /\ renames = <<>>
  /\ changes = 0 /\ joined = Unheard /\ shown = 0 /\ moved = FALSE

\* The host reports panes and tabs together, or one of them alone.
Report ==
  \E updates \in IF owed = {"panes"} THEN {<<PaneUpdate>>} ELSE {<<PaneUpdate, TabUpdate>>, <<TabUpdate>>} :
    /\ {updates[i].kind : i \in DOMAIN updates} \subseteq owed
    /\ Len(queue) + Len(updates) <= MaxQueue
    /\ queue' = queue \o updates /\ owed' = owed \ {updates[i].kind : i \in DOMAIN updates}
    /\ UNCHANGED <<host, rail, renames, changes, joined, shown, moved>>

\* The rail takes the calls of an event to the host.  Of each, history keeps
\* whether the rail had joined updates that agree, which of the user's names it
\* had been shown and minds, and the name it had given the tab itself.
Sent(r, call) ==
  [tab |-> call.tab, name |-> call.name, agreed |-> joined'.tabs = joined'.panes,
   seen |-> IF r.mode = "force" THEN 0 ELSE shown', mine |-> rail.applied]
Handled(r) ==
  /\ rail' = [r EXCEPT !.calls = <<>>]
  /\ renames' = renames \o [i \in DOMAIN r.calls |-> Sent(r, r.calls[i])]

\* What a rail that does not know its tab yet has to join.
Hear(update) ==
  /\ joined' = IF rail.own = None /\ update.kind \in All THEN [joined EXCEPT ![update.kind] = update.order] ELSE joined
  /\ shown' = IF update.kind = "tabs" THEN update.edition ELSE shown

Deliver ==
  /\ queue # <<>>
  /\ queue' = Tail(queue)
  /\ Hear(Head(queue))
  /\ LET update == Head(queue) IN
       \/ update.kind = "tabs" /\ Handled(TabsChanged(rail, update.tabs))
       \/ update.kind = "panes" /\ \E readable \in {Panes, {}} :
            Handled(PanesChanged(rail, update, host.dir, readable))
       \/ update.kind = "dir" /\ Handled(CwdChanged(rail, update.pane, update.dir))
  /\ UNCHANGED <<host, owed, changes, moved>>

\* A call reaches the host, which reports the tab's new name.
RenameTab ==
  /\ renames # <<>>
  /\ renames' = Tail(renames)
  /\ host' = [host EXCEPT !.names[Head(renames).tab] = Head(renames).name,
                          !.edition = IF Head(renames).tab = "own" THEN 0 ELSE @]
  /\ owed' = All
  /\ UNCHANGED <<queue, rail, changes, joined, shown, moved>>

-----------------------------------------------------------------------------
\* What happens in the session.
Happens == changes < MaxChanges /\ changes' = changes + 1

UserRenames ==
  /\ Happens
  /\ \E name \in {"notes", "x"} :
       /\ host.names["own"] # name
       /\ host' = [host EXCEPT !.names["own"] = name, !.edition = changes']
  /\ owed' = All /\ UNCHANGED <<queue, rail, renames, joined, shown, moved>>

TabsMove ==
  /\ Happens
  /\ host.order # <<"own">>
  /\ \E order \in Orders \ {host.order} : host' = [host EXCEPT !.order = order]
  /\ owed' = All /\ moved' = TRUE /\ UNCHANGED <<queue, rail, renames, joined, shown>>

PaneMoves ==
  /\ Happens
  /\ \E tab \in {"own", "near"} \ {host.seat[2]} :
       host' = [host EXCEPT !.seat[2] = tab, !.focused = 1]
  /\ owed' = All /\ moved' = TRUE /\ UNCHANGED <<queue, rail, renames, joined, shown>>

FocusMoves ==
  /\ Happens
  /\ \E p \in {1, 2} \ {host.focused} : host.seat[p] = "own" /\ host' = [host EXCEPT !.focused = p]
  /\ owed' = All /\ UNCHANGED <<queue, rail, renames, joined, shown, moved>>

TitleChanges ==
  /\ Happens
  /\ host.title[1] # "vim"
  /\ host' = [host EXCEPT !.title[1] = "vim"]
  /\ owed' = All /\ UNCHANGED <<queue, rail, renames, joined, shown, moved>>

ChangesDir ==
  /\ Happens /\ Len(queue) < MaxQueue
  /\ \E p \in {1, 2} :
       /\ host.dir[p] # NextDir[p]
       /\ host' = [host EXCEPT !.dir[p] = NextDir[p]]
       /\ queue' = Append(queue, [kind |-> "dir", pane |-> p, dir |-> NextDir[p]])
  /\ UNCHANGED <<owed, rail, renames, joined, shown, moved>>

AgentReports ==
  /\ Happens
  /\ UNCHANGED <<host, owed, queue, joined, shown, moved>>
  /\ Handled(StatusPipe(rail, 2, "radar"))

Configures ==
  /\ Happens
  /\ UNCHANGED <<host, owed, queue, joined, shown, moved>>
  /\ \E mode \in Modes \ {rail.mode} : Handled(ConfigPipe(rail, mode))

\* The plugin is loaded anew: what it applied is forgotten.
Reloads ==
  /\ Happens
  /\ rail' = FreshRail(rail.repo) /\ queue' = <<>> /\ owed' = All
  /\ joined' = Unheard /\ shown' = 0 /\ UNCHANGED <<host, renames, moved>>

NamingNext ==
  \/ Report \/ Deliver \/ RenameTab
  \/ UserRenames \/ TabsMove \/ PaneMoves \/ FocusMoves \/ TitleChanges
  \/ ChangesDir \/ AgentReports \/ Configures \/ Reloads

NamingSpec == NamingInit /\ [][NamingNext]_namingVars

-----------------------------------------------------------------------------
\* "No instance ever needs write authority over a peer's name": a call under way
\* is for the rail's own tab, however tabs moved before and after the rail found
\* it, unless the place and the tabs it was found by were of two arrangements,
\* which no rail can tell (RadarState::resolve_naming_tab).
OnlyOwnTab == \A i \in DOMAIN renames : renames[i].agreed => renames[i].tab = "own"

\* "Managed never clobbers a manual rename": a call under way takes the tab's
\* present name from the user only if it was made before the rail was shown that
\* name, in `force', or if the name was the one the rail had given it: a rename by
\* the user that overtakes or is overtaken by calls, updates, moves or a reload
\* loses to none that was made in its sight (TabNamer::rename).
SeenNameIsKept ==
  \A i \in DOMAIN renames :
    renames[i].tab = "own" /\ renames[i].seen # 0 /\ renames[i].seen = host.edition
      => host.names["own"] = renames[i].mine

\* Once everything is told and done, a tab that stayed where it was is not left
\* with the host's default name while one of its panes offers a better one,
\* however names, panes and directories became known (tabs_changed,
\* panes_changed, cwd_changed).
Quiet == owed = {} /\ queue = <<>> /\ renames = <<>>
NamedOnceQuiet ==
  Quiet /\ ~moved /\ rail.mode # "off" /\ host.names["own"] = Default =>
    ComputedName(TabFacts(rail, PlaceOf(rail, "own"))) = None
=============================================================================
