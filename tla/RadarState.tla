------------------------------ MODULE RadarState ------------------------------
(***************************************************************************)
(* One plugin instance's RadarState (crates/plugin/src/radar_state.rs):    *)
(* both observation stores behind one precedence rule, the tab/pane        *)
(* topology Zellij reports, the one-manifest prune grace, the hand-off of  *)
(* receding completions to the ledger, and what each entry point asks its  *)
(* caller to do (render, write the snapshot) or invalidates (`touched').   *)
(*                                                                         *)
(* `pushed', `wrote', `rendered' and `touched' are the last call's output. *)
(* `lastTab', `missed', `manifest' are history: the last tab that seated a *)
(* pane in, how many manifests in a row have lacked it, and whether the    *)
(* last call was a manifest.                                               *)
(***************************************************************************)
EXTENDS CommandPane, StatusPane

CONSTANTS
  Panes,             \* terminal panes
  TabIds,            \* stable tab identities
  NoTab,             \* a pane in no known tab
  TabLists,          \* the tab lists (ids by position) TabUpdate reports
  InteractiveExtras, \* the values `interactive_commands' takes
  Sent,              \* status payloads producers send
  SentBatches,       \* background-task batches they carry
  FlashTicks         \* FLASH_TICKS

Nowhere == 0                     \* no position: the manifest lacks the pane
Positions == 1..Cardinality(TabIds)
Present == "present"             \* not in absent_once

ASSUME RadarStateAssumption ==
  /\ Panes \subseteq Nat
  /\ IsFiniteSet(Panes)
  /\ IsFiniteSet(TabIds)
  /\ NoTab \notin TabIds
  /\ Present \notin TabIds \cup {NoTab}
  /\ TabLists \subseteq Seq(TabIds)
  /\ InteractiveExtras \subseteq SUBSET Commands
  /\ Sent \subseteq Payloads
  /\ FlashTicks \in Nat \ {0}

VARIABLES cmd, sts, interactive, tabs, at, absent, flash,
          pushed, wrote, rendered, touched, lastTab, missed, manifest

stores   == <<cmd, sts>>
topology == <<tabs, at, absent>>
outputs  == <<pushed, wrote, rendered, touched>>
vars == <<stores, interactive, topology, flash, outputs, lastTab, missed, manifest>>

-----------------------------------------------------------------------------

\* The tabs x tab_panes join by position (tab_of_pane, pane_tab_index).
TabIn(ts, seats, p) == IF seats[p] \in DOMAIN ts THEN ts[seats[p]] ELSE NoTab

\* Mutant: the topology is read after the manifest has replaced it.
TabAfter(p) == TabIn(tabs', at', p)

TabOf(p) == TabIn(tabs, at, p)

\* What a card or a ledger entry says of a pane.
CommandCard(c) ==
  [origin |-> "command", status |-> c.obs.status, msg |-> c.obs.msg,
   code |-> c.obs.code, kind |-> c.obs.kind]
PushedCard(row) ==
  [origin |-> "pipe", status |-> row.status, msg |-> row.msg,
   code |-> "none", kind |-> row.kind]

NoCard == [origin |-> "none", status |-> "absent", msg |-> NoCmd,
           code |-> "none", kind |-> "job"]

\* `resolve': a pushed status wins over an observed command.
Shown(c, s) == IF Tracked(s) THEN PushedCard(s.row)
               ELSE IF c.obs.status # "absent" THEN CommandCard(c)
               ELSE NoCard

Finished(card) == card.status \in {"done", "error"}

\* What rows() reads of a pane: its card, or the muted interactive label
\* where the card is at rest.
Face(p) == [card |-> Shown(cmd[p], sts[p]),
            quiet |-> IF Shown(cmd[p], sts[p]).status \in {"absent", "idle"}
                        THEN QuietIdentity(cmd[p]) ELSE {}]

\* ledger_receded, for the observations one pane gave up: a command card
\* that a pushed status shadowed was never shown.
LedgerCommand(p, receded, tab) ==
  {[pane |-> p, tab |-> tab, card |-> CommandCard([obs |-> o])] :
     o \in {r \in receded : IsCompletion(r) /\ ~Tracked(sts[p]) /\ tab # NoTab}}
LedgerPushed(p, receded, tab) ==
  {[pane |-> p, tab |-> tab, card |-> PushedCard(r)] :
     r \in {x \in receded : Completed(x) /\ tab # NoTab}}

NeedsFastTicks ==
  \E p \in Panes : NeedsTicks(cmd[p]) \/ StatusNeedsTicks(sts[p])

\* History moves with every step.
Remember(seen, isManifest) ==
  /\ manifest' = isManifest
  /\ lastTab' = [p \in Panes |->
                   IF TabIn(tabs', at', p) # NoTab THEN TabIn(tabs', at', p)
                                                   ELSE lastTab[p]]
  /\ missed' = seen

\* Mutant: only a ledger entry invalidates the rows.
EmitWithoutTouch(entries, write, render, touch) ==
  /\ pushed' = entries
  /\ wrote' = write
  /\ rendered' = render
  /\ touched' = (entries # {})

Emit(entries, write, render, touch) ==
  /\ pushed' = entries
  /\ wrote' = write
  /\ rendered' = render
  /\ touched' = (touch \/ entries # {})

NowIf(b) == IF b THEN "now" ELSE "none"

-----------------------------------------------------------------------------
(* the prune grace of panes_changed                                        *)

\* Mutant: a pane the manifest lacks is dropped at once.
NeverFirst(p) == FALSE

\* The manifest is the first to lack the pane.
FirstAbsence(p) == absent[p] = Present

\* Mutant: the tab captured when the pane first went missing is not used.
PruneTabNow(p) == TabOf(p)

\* The tab a pane is filed under when its close is confirmed.
PruneTab(p) == IF absent[p] \in TabIds THEN absent[p] ELSE TabOf(p)

\* Mutant: a pushed status is pruned without a write.
LosesCommand(c, s) == c.obs.status # "absent"

\* Pruning the pane drops an observation of either store.
Loses(c, s) == Tracked(s) \/ c.obs.status # "absent"

(* label_only of status_pipe *)

\* Mutant: a steady row's label waits for a tick too.
LabelOnlyAnyKind(old, new) ==
  old.status = "running" /\ new.status = "running" /\ new.tasks = old.tasks

\* Only the label of an animating row changed.
LabelOnly(old, new) ==
  /\ old.status = "running" /\ new.status = "running"
  /\ new.tasks = old.tasks
  /\ new.kind # "server"

-----------------------------------------------------------------------------

Init ==
  /\ cmd = [p \in Panes |-> FreshPane]
  /\ sts = [p \in Panes |-> FreshStatus]
  /\ interactive = DefaultInteractive
  /\ tabs = <<>>
  /\ at = [p \in Panes |-> Nowhere]
  /\ absent = [p \in Panes |-> Present]
  /\ flash = [t \in TabIds |-> 0]
  /\ pushed = {} /\ wrote = "none" /\ rendered = FALSE /\ touched = FALSE
  /\ lastTab = [p \in Panes |-> NoTab]
  /\ missed = [p \in Panes |-> 0] /\ manifest = FALSE

TabsChanged(ts) ==
  /\ tabs' = ts
  /\ Emit({}, "none", ts # tabs, ts # tabs)
  /\ UNCHANGED <<stores, interactive, at, absent, flash>>
  /\ Remember(missed, FALSE)

\* panes_changed: exits against the old topology, then one manifest of grace
\* for what went missing, then the prune of what was missing before.
PanesChanged(seats, exits) ==
  LET live == {p \in Panes : seats[p] # Nowhere}
      dying == DOMAIN exits
      cmdExited == [p \in Panes |-> IF p \in dying THEN OnExit(cmd[p], exits[p])
                                                   ELSE cmd[p]]
      stsExited == [p \in Panes |-> IF p \in dying THEN ClearOnExit(sts[p])
                                                   ELSE sts[p]]
      displaced(p) == ExitReceded(cmd[p], exits[p])
      cleared(p) == ExitCleared(sts[p])
      graced == {p \in Panes \ live :
                   /\ FirstAbsence(p)
                   /\ Tracked(stsExited[p]) \/ CommandTracked(cmdExited[p])}
      dropped == Panes \ (live \cup graced)
      exited == UNION {LedgerCommand(p, displaced(p), TabOf(p))
                         \cup LedgerPushed(p, cleared(p), TabOf(p)) : p \in dying}
      pruned == UNION {LedgerPushed(p, {stsExited[p].row}, PruneTab(p))
                         \cup LedgerCommand(p, {cmdExited[p].obs}, PruneTab(p)) :
                         p \in dropped}
  IN /\ at' = seats /\ UNCHANGED <<interactive, tabs>>
     /\ cmd' = [p \in Panes |-> IF p \in dropped THEN FreshPane
                                                 ELSE cmdExited[p]]
     /\ sts' = [p \in Panes |-> IF p \in dropped THEN FreshStatus
                                                 ELSE stsExited[p]]
     /\ flash' = [t \in TabIds |->
                    IF \E p \in dying : /\ cmd[p].obs.status = "running"
                                        /\ cmd[p].obs.kind = "remote"
                                        /\ TabOf(p) = t
                      THEN FlashTicks ELSE flash[t]]
     /\ absent' = [p \in Panes |-> IF p \in graced THEN TabOf(p) ELSE Present]
     /\ Emit(exited \cup pruned,
             NowIf(\/ \E p \in dying : displaced(p) # {} \/ cleared(p) # {}
                   \/ \E p \in dropped : Loses(cmdExited[p], stsExited[p])),
             TRUE, TRUE)
     /\ Remember([p \in Panes |-> IF p \in live THEN 0
                                  ELSE IF missed[p] < 2 THEN missed[p] + 1
                                  ELSE 2], TRUE)

Timer ==
  LET changed == \/ \E p \in Panes : TimerChanged(cmd[p])
                 \/ \E p \in Panes : StaleCleared(sts[p])
  IN /\ UNCHANGED <<interactive, topology>>
     /\ cmd' = [p \in Panes |-> OnTimer(cmd[p])]
     /\ sts' = [p \in Panes |-> ExpireStaleRunning(sts[p])]
     /\ flash' = [t \in TabIds |->
                    IF \E p \in Panes : /\ "remote" \in TimerCompleted(cmd[p])
                                        /\ TabOf(p) = t
                      THEN FlashTicks
                    ELSE IF flash[t] > 0 THEN flash[t] - 1 ELSE 0]
     /\ Emit(UNION {LedgerCommand(p, TimerReceded(cmd[p]), TabOf(p)) :
                      p \in Panes},
             NowIf(changed), changed, changed)
     /\ Remember(missed, FALSE)

CommandChanged(p, argv, foreground) ==
  LET prompt == argv \in Shells
      cleared == prompt /\ PromptReceded(sts[p]) # {}
  IN /\ UNCHANGED <<interactive, topology, flash>>
     /\ cmd' = [cmd EXCEPT ![p] =
                  OnCommandChanged(@, argv, foreground, interactive, {})]
     /\ sts' = [sts EXCEPT ![p] = IF prompt THEN ClearOnPromptReturn(@)
                                  ELSE IF argv \in Agents THEN CancelSuspect(@)
                                  ELSE @]
     /\ Emit(IF prompt THEN LedgerPushed(p, PromptReceded(sts[p]), TabOf(p))
                       ELSE {},
             NowIf(cleared), cleared, cleared)
     /\ Remember(missed, FALSE)

\* status_pipe: an identical re-broadcast is a no-op, as is one whose row goes to
\* the cap at once; a new label of an animating row only waits for the next tick.
StatusPipe(p, payload, batch) ==
  LET old == sts[p].row
      same == sts'[p].row = old
      labelOnly == LabelOnly(old, sts'[p].row)
  IN /\ UNCHANGED <<cmd, interactive, topology>>
     /\ sts' \in EvictOverCap([sts EXCEPT ![p] = ApplyPayload(@, payload, batch, 0)])
     /\ flash' = [t \in TabIds |->
                    IF /\ ~same /\ payload.status = "pending"
                       /\ old.status # "pending" /\ TabOf(p) = t
                      THEN FlashTicks ELSE flash[t]]
     /\ Emit(LedgerPushed(p, ApplyReceded(sts[p], payload), TabOf(p)),
             IF same THEN "none" ELSE IF labelOnly THEN "deferred" ELSE "now",
             ~same /\ ~labelOnly, ~same)
     /\ Remember(missed, FALSE)

\* config_pipe's sweep; the other options only redraw.
SetInteractiveCommands(extras) ==
  /\ interactive' = DefaultInteractive \cup extras
  /\ cmd' = [p \in Panes |-> OnInteractiveExtras(cmd[p], interactive')]
  /\ Emit({}, NowIf(cmd' # cmd), TRUE, cmd' # cmd)
  /\ UNCHANGED <<sts, topology, flash>>
  /\ Remember(missed, FALSE)

\* A fresh instance that loads this one's snapshot (load_snapshot, then the
\* interactive sweep of PluginRuntime::load): observations only.
LoadSnapshot ==
  /\ cmd' = [p \in Panes |->
               LET o == cmd[p].obs
               IN OnInteractiveExtras(
                    [FreshPane EXCEPT
                       !.obs = [o EXCEPT !.age = IF o.status = "done" THEN 0
                                                                      ELSE @]],
                    interactive)]
  /\ sts' = [p \in Panes |-> CancelSuspect(sts[p])]
  /\ tabs' = <<>>
  /\ at' = [p \in Panes |-> Nowhere]
  /\ absent' = [p \in Panes |-> Present]
  /\ flash' = [t \in TabIds |-> 0]
  /\ Emit({}, "none", TRUE, TRUE)
  /\ lastTab' = [p \in Panes |-> NoTab]
  /\ missed' = [p \in Panes |-> 0]
  /\ manifest' = FALSE
  /\ UNCHANGED interactive

Seatings == [Panes -> {Nowhere} \cup Positions]

Exits(seats) ==
  UNION {[dying -> ExitStatuses] :
           dying \in SUBSET {p \in Panes : seats[p] # Nowhere}}

Next ==
  \/ Timer
  \/ \E ts \in TabLists : TabsChanged(ts)
  \/ \E seats \in Seatings : \E exits \in Exits(seats) :
       PanesChanged(seats, exits)
  \/ \E p \in Panes, argv \in Argv, foreground \in BOOLEAN :
       CommandChanged(p, argv, foreground)
  \/ \E p \in Panes, payload \in Sent, batch \in SentBatches :
       StatusPipe(p, payload, batch)
  \/ \E extras \in InteractiveExtras : SetInteractiveCommands(extras)
  \/ LoadSnapshot

Spec == Init /\ [][Next]_vars

-----------------------------------------------------------------------------
(* Safety                                                                  *)

TypeOK ==
  /\ cmd \in [Panes -> PaneRecords]
  /\ sts \in [Panes -> StatusRecords]
  /\ interactive \in SUBSET Commands
  /\ tabs \in Seq(TabIds)
  /\ at \in Seatings
  /\ absent \in [Panes -> {Present, NoTab} \cup TabIds]
  /\ flash \in [TabIds -> 0..FlashTicks]
  /\ wrote \in {"none", "deferred", "now"}
  /\ rendered \in BOOLEAN /\ touched \in BOOLEAN
  /\ \A e \in pushed : e.pane \in Panes /\ e.tab \in TabIds
  /\ lastTab \in [Panes -> TabIds \cup {NoTab}]
  /\ missed \in [Panes -> 0..2] /\ manifest \in BOOLEAN

\* A deferred snapshot write is only ever left to a tick that is coming
\* within a second: the row that deferred it keeps the Fast cadence armed
\* (the soundness condition of `label_only' in status_pipe).
DeferredHasATick == wrote = "deferred" => NeedsFastTicks

-----------------------------------------------------------------------------
(* Action properties                                                       *)

Card(p) == Shown(cmd[p], sts[p])
OtherCard(a, b) == a.origin # b.origin \/ a.status # b.status
                   \/ a.msg # b.msg \/ a.code # b.code

\* The ledger files an entry under the tab that last seated the pane before
\* the call, also when the pane moved with it, or was pruned one manifest
\* after it left the topology (the captures at the top of panes_changed).
FiledUnderLastTab == [][\A e \in pushed' : e.tab = lastTab[e.pane]]_vars

\* A pushed status starts or stops hiding the pane's command observation.
Shadowing(p) == Tracked(sts[p]) # Tracked(sts'[p])

Leaves(p) == Finished(Card(p)) /\ OtherCard(Card(p), Card(p)')

\* A pane that closed in a known tab, in the manifest that confirms it.
ConfirmsClose(p) == manifest' /\ absent[p] \in TabIds /\ at'[p] = Nowhere

\* A completion that leaves its card is in the ledger: when the pane's own
\* life cycle removes it, from every entry point, and when its close is
\* confirmed.  Nothing else is: a command that a pushed status shadowed never
\* ghosts in (ledger_receded).
CompletionsReachLedger ==
  [][/\ \A e \in pushed' : Finished(e.card) /\ ~OtherCard(e.card, Card(e.pane))
     /\ \A p \in Panes :
          Leaves(p) /\ (ConfirmsClose(p) \/ (TabOf(p) # NoTab /\ ~Shadowing(p)))
            => LoadSnapshot \/ \E e \in pushed' : e.pane = p]_vars

Remembers(p) == Tracked(sts[p]) \/ CommandTracked(cmd[p])

\* A manifest drops what the stores know of a pane only if the manifest
\* before lacked the pane as well (a break-pane flash loses nothing), and
\* then always (a closed pane leaves no ghost).
TwoAbsencesDrop ==
  [][\A p \in Panes :
       /\ Remembers(p) /\ ~Remembers(p)' /\ manifest'
            => missed[p] >= 1 /\ missed'[p] = 2
       /\ Remembers(p) /\ absent[p] # Present /\ at'[p] = Nowhere /\ manifest'
            => ~Remembers(p)']_vars

\* The shared snapshot keeps what nobody overwrites: a call that drops an
\* observation, or moves a pushed status, asks for a write.
DropsAndEdgesPersist ==
  [][\A p \in Panes :
       (\/ Card(p).origin # "none" /\ Card(p)'.origin = "none"
        \/ sts[p].row.status # sts'[p].row.status
        \/ Finished(Card(p)) /\ Card(p)'.status \notin {Card(p).status, "absent"})
         => wrote' # "none" \/ LoadSnapshot]_vars

Seated(ts, seats) == {p \in Panes : TabIn(ts, seats, p) # NoTab}
Rows == [tabs |-> tabs,
         faces |-> [p \in Seated(tabs, at) |-> <<at[p], Face(p)>>]]
Lit == Cardinality({t \in TabIds : flash[t] > 0})
LitTabs == {t \in TabIds : flash[t] > 0}

\* A report that leaves every card, and at most changes the muted label of an
\* interactive foreground (README, Observed).
Relabels ==
  /\ \E p \in Panes, argv \in Argv, foreground \in BOOLEAN :
       CommandChanged(p, argv, foreground)
  /\ \A p \in Panes : Card(p)' = Card(p)

\* No stale rail: rows() is memoised on the generation and the number of lit
\* flashes, so a call that changes what rows() reads changes one of the two
\* (the contract of RadarState::touch).
RowsMemoIsFresh ==
  [][Rows' # Rows \/ LitTabs' # LitTabs => touched' \/ Lit' # Lit \/ Relabels]_vars

\* What a pane leaves behind when it moves or closes goes where it was: its ledger
\* lines under the tab it had, its memory only with the second manifest without it.
ClosesAreCounted == FiledUnderLastTab /\ TwoAbsencesDrop

\* No change is lost on the way out of a call: the rail redraws what rows() reads
\* anew, the snapshot is written for a drop or an edge, and a write that is put
\* off has a tick to come.
ChangesAreSeen == RowsMemoIsFresh /\ DropsAndEdgesPersist /\ []DeferredHasATick
==============================================================================
