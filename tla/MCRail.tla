-------------------------------- MODULE MCRail --------------------------------
(* The rail in four scenes: the timer under any demand ("timer"), a runtime and *)
(* its timer ("live"), the picture of a few tabs in a rail that is resized and  *)
(* configured ("picture"), and the columns of its lines ("widths"). A scene     *)
(* pins what the others move.                                                   *)
EXTENDS RailRuntime, RailPicture, RailWidths

CONSTANTS
  MaxTabs, MaxHeight, MaxText,
  MaxSince         \* bound: what happens between a picture and a click on it
VARIABLES
  scene,
  tabs, ledger, opts, picture,   \* what was drawn, and its picture
  now                            \* what has become of the tabs, panes and sessions since

shot == <<tabs, ledger, opts, picture, now>>
mcVars == <<railVars, scene, shot, laid>>

-----------------------------------------------------------------------------
\* The tabs a picture is made of.
Obs(status, msg, task, list) ==
  [origin |-> "status", status |-> status, kind |-> "agent", msg |-> msg, task |-> task, since |-> 0,
   acknowledged |-> FALSE, everActive |-> TRUE, tasks |-> list]
Pane(id, obs) == [id |-> id, obs |-> obs, quiet |-> FALSE, command |-> NoText]
Task(state, holds, at) == [state |-> state, holds |-> holds, at |-> at]
BuildTasks == <<Task("completed", FALSE, 1), Task("running", TRUE, 2), Task("running", FALSE, 3),
                Task("failed", FALSE, 4), Task("running", TRUE, 5)>>

Shapes == {"idle", "running", "waiting", "crowded"}
Asks == Obs("pending", "allow?", "fix", <<Task("failed", FALSE, 1)>>)
PanesOf(shape) ==
  CASE shape = "idle"    -> <<Pane(1, Unobserved)>>
    [] shape = "running" -> <<Pane(1, Obs("running", "edits", "fix", BuildTasks))>>
    [] shape = "waiting" -> <<Pane(1, Asks)>>
    [] shape = "crowded" -> <<Pane(1, Obs("running", "edits", "fix", BuildTasks)), Pane(2, [Asks EXCEPT !.acknowledged = TRUE]),
                              Pane(3, Asks), Pane(4, [Obs("error", "make", NoText, <<>>) EXCEPT !.origin = "command"])>>
                            \o [n \in 1..4 |-> Pane(4 + n, Obs("done", "built", NoText, <<>>))]
\* (A pane's id is of its own among all tabs'.)
PanesAt(shape, at) == LET panes == PanesOf(shape) IN [n \in DOMAIN panes |-> [panes[n] EXCEPT !.id = @ + 8 * (at - 1)]]
RowOf == [at \in 1..MaxTabs |-> [shape \in Shapes |-> RollUp(PanesAt(shape, at)) @@ ("tab" :> at)]]
TabRow(shape, at) == RowOf[at][shape]

Entry(name, current, list) == [name |-> name, current |-> current, stale |-> FALSE, attention |-> 0, tabs |-> list]
Own == Entry("own", TRUE, <<>>)
Peer(name, list) == Entry(name, FALSE, list)
PeerTabs == <<[position |-> 1, panes |-> 2], [position |-> 2, panes |-> 1]>>

Plain == [density |-> "cards", header |-> TRUE, jumpHint |-> FALSE, taskLines |-> "full", sessionTree |-> FALSE,
          badge |-> <<Own>>, width |-> 40, height |-> 0]
Faces ==
  {Plain,
   [Plain EXCEPT !.density = "compact", !.header = FALSE, !.jumpHint = TRUE, !.width = 19],
   [Plain EXCEPT !.badge = <<Own, Peer("blog", <<>>)>>],
   [Plain EXCEPT !.badge = <<Own, Peer("blog", PeerTabs), [Peer("work", PeerTabs) EXCEPT !.stale = TRUE]>>,
                 !.sessionTree = TRUE]}

-----------------------------------------------------------------------------
Bare == [width |-> 3, a |-> 0, b |-> 0, c |-> 0, hot |-> FALSE]

\* Of each tab, `was' is where it was drawn.
AsDrawn(rows, by) ==
  [tabs |-> [i \in DOMAIN rows |-> [tab |-> i, was |-> i, panes |-> rows[i].panes]], gone |-> {},
   badge |-> by.badge, since |-> 0]

ShotInit ==
  /\ opts \in Faces /\ tabs \in {<<TabRow(shape, 1)>> : shape \in Shapes}
  /\ ledger \in {<<>>, <<1, 1>>} /\ (ledger = <<>> /\ opts.header => opts = Plain)
  /\ picture \in Rails(tabs, ledger, opts) /\ now = AsDrawn(tabs, opts) /\ laid = Bare

MCInit ==
  /\ RailInit /\ ShotInit
  /\ scene \in {"timer", "live", "picture", "widths"}
  /\ scene # "live" => perm = "denied" /\ row = Row("idle", "a")
  /\ scene # "picture" => opts = Plain /\ ledger = <<>> /\ tabs[1].status = "idle"

Opens == \E shape \in Shapes : Len(tabs) < MaxTabs /\ tabs' = Append(tabs, TabRow(shape, Len(tabs) + 1))
         /\ UNCHANGED <<ledger, opts>>
Grows == opts.height < MaxHeight /\ opts' = [opts EXCEPT !.height = @ + 1] /\ UNCHANGED <<tabs, ledger>>

\* What happens under a picture: a pane asks or its question is answered, a tab
\* closes and those after it move up, a pane is taken to another tab, a peer falls
\* silent, is heard again or is reaped.
Asked(rows) == \E i \in DOMAIN rows : \E n \in DOMAIN rows[i].panes :
  /\ rows[i].panes[n].obs # Unobserved /\ rows[i].panes[n].obs.origin = "status"
  /\ now' = [now EXCEPT !.tabs[i].panes[n].obs.status = IF @ = "pending" THEN "done" ELSE "pending", !.since = @ + 1]
Closes(rows) == \E i \in DOMAIN rows :
  now' = [now EXCEPT !.tabs = LET left == RemoveAt(rows, i) IN [n \in DOMAIN left |-> [left[n] EXCEPT !.tab = n]],
                     !.gone = @ \cup Range(rows[i].panes), !.since = @ + 1]
PaneMoves(rows) == \E i, j \in DOMAIN rows :
  /\ i # j /\ rows[i].panes # <<>>
  /\ now' = [now EXCEPT !.tabs[i].panes = Tail(@), !.tabs[j].panes = Append(@, Head(rows[i].panes)), !.since = @ + 1]
PeerChanges(entries) == \E e \in DOMAIN entries :
  /\ ~entries[e].current
  /\ \E left \in {RemoveAt(entries, e), [entries EXCEPT ![e].stale = ~@]} :
       now' = [now EXCEPT !.badge = left, !.since = @ + 1]
Moves ==
  /\ now.since < MaxSince /\ opts.height = MaxHeight     \* bound: in rails of full height
  /\ Asked(now.tabs) \/ Closes(now.tabs) \/ PaneMoves(now.tabs) \/ PeerChanges(now.badge)
  /\ UNCHANGED <<tabs, ledger, opts, picture>>

SmallLayouts == [width : 3..(3 + MaxText), a : 0..MaxText, b : 0..MaxText, c : 0..MaxText, hot : BOOLEAN]

MCNext ==
  \/ scene = "timer" /\ Next /\ UNCHANGED <<domain, drawn, bare, scene, shot, laid>>
  \/ scene = "live" /\ RailNext /\ UNCHANGED <<scene, shot, laid>>
  \/ scene = "picture" /\ now.since = 0 /\ (Opens \/ Grows) /\ picture' \in Rails(tabs', ledger', opts')
     /\ now' = AsDrawn(tabs', opts') /\ UNCHANGED <<laid, scene, railVars>>
  \/ scene = "picture" /\ Moves /\ UNCHANGED <<laid, scene, railVars>>
  \/ scene = "widths" /\ laid = Bare /\ laid' \in SmallLayouts /\ UNCHANGED <<shot, scene, railVars>>
MCSpec == MCInit /\ [][MCNext]_mcVars
LiveSpec == MCInit /\ scene = "live" /\ [][MCNext]_mcVars

-----------------------------------------------------------------------------
InPicture == scene = "picture" /\ now.since = 0

\* render_rail emits no line below the pane, and fills it once the footer is
\* drawn; a card is as many lines as the planner was told it would be, on which
\* the room for peers and the ledger is reckoned.
PictureFits ==
  InPicture =>
    LET rail == picture.lines
        plan == picture.layout.plan
    IN  /\ Len(rail) <= opts.height
        /\ (rail # <<>> /\ Last(rail).kind = (IF opts.jumpHint THEN "hint" ELSE "tally")) => Len(rail) = opts.height
        /\ \A n \in DOMAIN plan : Len(Card(tabs, picture.metas, plan[n], opts)) = plan[n].lines

\* plan_overflow and docs/activity-model.md: idle tabs fold and their strip goes
\* before any card loses a line; then tasks fold, and only then pane rows: the
\* calm cards are one line before one that needs the user gives any, and a card
\* goes only when those that stay are one line each.
SqueezeOrder ==
  InPicture =>
    LET metas == picture.metas
        layout == picture.layout
        Meta(card) == metas[card.row]
        IsShort(card) == card.lines < Meta(card).full
        IsSqueezed(card) == card.lines < Meta(card).compact
        cards == Range(layout.plan)
    IN  /\ (\E card \in cards : IsShort(card)) =>
             layout.strip = 0 /\ \A card \in cards : Meta(card).status # "idle"
        /\ (\E card \in cards : IsSqueezed(card)) => \A card \in cards : card.lines <= Meta(card).compact
        /\ \A card \in cards : IsSqueezed(card) /\ ~IsCalm(Meta(card).status) =>
             \A other \in cards : IsCalm(Meta(other).status) => other.lines = 1
        /\ Cardinality(cards) + layout.strip < Cardinality({i \in DOMAIN tabs : metas[i].status # "idle"}) =>
             \A card \in cards : card.lines = 1

\* docs/design.md: peers' trees get what the cards and the bottom region leave,
\* so a large peer folds no local tab and pushes no ledger line off.
PeersNeverCost ==
  InPicture /\ opts.sessionTree =>
    LET treeless == [opts EXCEPT !.badge = [i \in DOMAIN @ |-> [@[i] EXCEPT !.tabs = <<>>]]]
        Local(lines) == SelectSeq(lines, LAMBDA line : line.kind \notin {"peer", "filler"})
    IN  \A without \in Rails(tabs, ledger, treeless) : Local(picture.lines) = Local(without.lines)

\* docs/activity-model.md: failures sort after running work, but a fold always
\* keeps the first of them on a line, and `+N more' is red when it hides another;
\* without task lines the tag on the pane's own line is red.
FirstFailureHasLine ==
  InPicture =>
    \A r \in Range(tabs), compact \in {TRUE, ActingAs(opts, FALSE)} :
      \A pane \in Range(DrawnPanes(r, opts)) :
        LET lines == Range(PaneLines(r, pane, opts, compact))
            failed == Cardinality(Failed(VisibleTasks(pane, opts)))
            Red(kind) == {line \in lines : line.kind = kind /\ line.red}
        IN  failed > 0 => IF compact THEN Red("pane") # {}
                          ELSE Red("task") # {} /\ (failed = 1 => Red("more tasks") = {})

\* A click on a glyph, or a right click, that meets a rail other than was drawn:
\* it never becomes a jump; it answers no pane that does not wait and dismisses no
\* session heard again since; of a pane's line it answers that pane alone, to
\* whichever tab it was taken; of a tab's, while the tab is where it was drawn,
\* every pane that waits there and no other; and what the glyph was drawn for is
\* acted on unless that itself has changed.
GlyphsAct ==
  scene = "picture" =>
    \A line \in Range(picture.lines), right \in BOOLEAN :
      LET target == line.target
          did   == IF right THEN RightClick(line, now.tabs, now.gone, now.badge)
                   ELSE Click(line, TRUE, now.tabs, now.gone, now.badge)
          acted == {pane.id : pane \in did.on}
          Waits(panes) == {pane.id : pane \in {p \in panes : Tracked(p) /\ p.obs.status = "pending"}}
          waiting == Waits(now.gone \cup UNION {Range(now.tabs[i].panes) : i \in DOMAIN now.tabs})
          stays   == target.tab \in DOMAIN now.tabs /\ now.tabs[target.tab].was = target.tab
          StaleIn(entries) == {entry.name : entry \in {e \in Range(entries) : e.stale}}
      IN  /\ line.hotspot # "none" /\ ~right => did.verb = line.hotspot
          /\ did.verb = "acknowledge" =>
               /\ acted \subseteq waiting
               /\ target.pane # 0 => acted = {target.pane} \cap waiting
               /\ target.pane = 0 /\ stays => acted = Waits(Range(now.tabs[target.tab].panes))
          /\ did.verb = "dismiss" =>
               {entry.name : entry \in did.on} = {target.session} \cap StaleIn(now.badge)
          /\ line.hotspot # "none" /\ now.since = 0 => did.on # {}

\* attention-next and -prev go round the tabs that need attention: from any tab, or
\* none, every one of them is reached, and nothing else is (next_attention_tab).
AttentionIsReached ==
  InPicture =>
    LET statusAt == [i \in DOMAIN tabs |-> tabs[i].status]
        members == {i \in DOMAIN tabs : NeedsAttention(statusAt[i])}
        Press(at, direction) ==
          LET to == CycleAttention(statusAt, at, direction) IN IF to = 0 THEN at ELSE to
    IN  \A active \in 0..Len(tabs), direction \in {"next", "prev"} :
          LET After[n \in 0..Len(tabs)] == IF n = 0 THEN active ELSE Press(After[n - 1], direction)
          IN  {After[n] : n \in DOMAIN After} = members \cup {active}

\* What the user points at or asks for is what it is done to.
ActionsLand == GlyphsAct /\ AttentionIsReached

\* The picture fits its rail, its cards give way in the documented order, keep
\* their failures on a line, and peers' trees take nothing from them.
RailGivesWay == PictureFits /\ SqueezeOrder /\ FirstFailureHasLine /\ PeersNeverCost
===============================================================================
