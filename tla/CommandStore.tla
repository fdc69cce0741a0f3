----------------------------- MODULE CommandStore -----------------------------
(***************************************************************************)
(* The command-activity store of one plugin instance (crates/core/src/     *)
(* command.rs) against an environment that runs programs in panes.         *)
(*                                                                         *)
(* `panes' is the store.  `shown' is the environment: the program the last *)
(* classified report put in the pane's foreground (NoCmd at the prompt or  *)
(* after an exit) and for how many ticks.  `lastExit' is the last exit     *)
(* status reported since a command opened in the pane; Zellij repeats it   *)
(* with every pane manifest.  `receded' and `changed' are what the last    *)
(* call returned.                                                          *)
(***************************************************************************)
EXTENDS CommandPane, FiniteSets

CONSTANTS
  Panes,             \* terminal pane ids
  InteractiveExtras, \* the values `interactive_commands' takes
  RemoteExtras       \* the values `remote_commands' takes

ASSUME CommandStoreAssumption ==
  /\ InteractiveExtras \subseteq SUBSET Commands
  /\ RemoteExtras \subseteq SUBSET Commands

VARIABLES panes, interactive, remote, shown, lastExit, receded, changed

vars == <<panes, interactive, remote, shown, lastExit, receded, changed>>
config == <<interactive, remote>>

Foregrounds == [cmd : Commands \cup {NoCmd}, age : 0..DebounceTicks]

NothingShown == [cmd |-> NoCmd, age |-> 0]

TypeOK ==
  /\ panes \in [Panes -> PaneRecords]
  /\ interactive \in SUBSET Commands
  /\ remote \in SUBSET Commands
  /\ shown \in [Panes -> Foregrounds]
  /\ lastExit \in [Panes -> ExitStatuses \cup {"unseen"}]
  /\ receded \in [Panes -> SUBSET Observations]
  /\ changed \in BOOLEAN

Init ==
  /\ panes = [p \in Panes |-> FreshPane]
  /\ interactive = DefaultInteractive
  /\ remote = {}
  /\ shown = [p \in Panes |-> NothingShown]
  /\ lastExit = [p \in Panes |-> "unseen"]
  /\ receded = [p \in Panes |-> {}]
  /\ changed = FALSE

Quiet == /\ receded' = [p \in Panes |-> {}]
         /\ changed' = FALSE

-----------------------------------------------------------------------------

\* What a report says of the foreground; a blank argv says nothing.
Shows(p, argv, foreground) ==
  IF MeansLeft(argv, foreground, interactive) THEN NothingShown
  ELSE IF argv = Blank THEN shown[p]
  ELSE [cmd |-> argv, age |-> IF shown[p].cmd = argv THEN shown[p].age ELSE 0]

CommandChanged(p, argv, foreground) ==
  /\ panes' = [panes EXCEPT ![p] =
                 OnCommandChanged(@, argv, foreground, interactive, remote)]
  /\ shown' = [shown EXCEPT ![p] = Shows(p, argv, foreground)]
  /\ lastExit' = IF MeansLeft(argv, foreground, interactive) \/ argv = Blank
                   THEN lastExit
                   ELSE [lastExit EXCEPT ![p] = "unseen"]
  /\ Quiet
  /\ UNCHANGED config

Timer ==
  /\ panes' = [p \in Panes |-> OnTimer(panes[p])]
  /\ shown' = [p \in Panes |->
                 IF shown[p].cmd = NoCmd THEN shown[p]
                 ELSE [shown[p] EXCEPT !.age = Older(@, DebounceTicks)]]
  /\ receded' = [p \in Panes |-> TimerReceded(panes[p])]
  /\ changed' = \E p \in Panes : TimerChanged(panes[p])
  /\ UNCHANGED <<interactive, remote, lastExit>>

PaneExited(p, status) ==
  /\ panes' = [panes EXCEPT ![p] = OnExit(@, status)]
  /\ shown' = [shown EXCEPT ![p] = NothingShown]
  /\ lastExit' = [lastExit EXCEPT ![p] = status]
  /\ receded' = [q \in Panes |-> IF q = p THEN ExitReceded(panes[p], status)
                                          ELSE {}]
  /\ changed' = FALSE
  /\ UNCHANGED config

\* The dropped observations are all returned; the ledger keeps completions.
Prune(live) ==
  /\ panes' = [p \in Panes |-> IF p \in live THEN panes[p] ELSE FreshPane]
  /\ shown' = [p \in Panes |-> IF p \in live THEN shown[p] ELSE NothingShown]
  /\ lastExit' = [p \in Panes |-> IF p \in live THEN lastExit[p]
                                                ELSE "unseen"]
  /\ receded' = [p \in Panes |->
                   IF p \notin live /\ IsCompletion(panes[p].obs)
                     THEN {panes[p].obs} ELSE {}]
  /\ changed' = \E p \in Panes \ live : panes[p].obs.status # "absent"
  /\ UNCHANGED config

SetInteractiveExtras(extras) ==
  /\ interactive' = DefaultInteractive \cup extras
  /\ panes' = [p \in Panes |-> OnInteractiveExtras(panes[p], interactive')]
  /\ receded' = [p \in Panes |-> {}]
  /\ changed' = (panes' # panes)
  /\ UNCHANGED <<remote, shown, lastExit>>

SetRemoteExtras(extras) ==
  /\ remote' = extras \ DefaultRemote
  /\ panes' = [p \in Panes |-> OnRemoteExtras(panes[p], remote')]
  /\ receded' = [p \in Panes |-> {}]
  /\ changed' = (panes' # panes)
  /\ UNCHANGED <<interactive, shown, lastExit>>

Report ==
  \/ \E p \in Panes, argv \in Argv, foreground \in BOOLEAN :
       CommandChanged(p, argv, foreground)
  \/ \E p \in Panes, status \in ExitStatuses : PaneExited(p, status)
  \/ \E live \in SUBSET Panes : Prune(live)

Configure ==
  \/ \E extras \in InteractiveExtras : SetInteractiveExtras(extras)
  \/ \E extras \in RemoteExtras : SetRemoteExtras(extras)

Next == Timer \/ Report \/ Configure

Spec == Init /\ [][Next]_vars

StoreNeedsTicks == \E p \in Panes : NeedsTicks(panes[p])
StoreAwaitsRecede == \E p \in Panes : AwaitsRecede(panes[p])

-----------------------------------------------------------------------------
(* Safety                                                                  *)

\* A pending entry always names the program in the pane's foreground: no
\* debounce ever promotes a command that already left or exited.
PendingIsForeground ==
  \A p \in Panes :
    panes[p].pending.state # "absent" => panes[p].pending.cmd = shown[p].cmd

\* No stuck spinner: a row still Running in a pane whose foreground command
\* is gone has its Running -> Done confirm armed (pending_done).
LeftRunningIsArmed ==
  \A p \in Panes :
    panes[p].obs.status = "running" /\ shown[p].cmd = NoCmd
      => panes[p].leaving # Unarmed

\* Whatever is armed has something to do: tentative-done entries only exist
\* on Running rows, so one can never fire on a later, unrelated row.
ArmedRowsRun ==
  \A p \in Panes :
    panes[p].leaving # Unarmed => panes[p].obs.status = "running"

\* The inductive invariant of one pane: what its bookkeeping promises about
\* the foreground `s'.  A Running row with nothing else booked is the
\* foreground command itself, a whole debounce window old: that is what lets
\* a demotion turn it back into a pending (set_interactive_extras).
PaneInv(c, s) ==
  /\ c.pending.state # "absent" =>
       /\ c.pending.cmd = s.cmd
       /\ c.pending.cmd \in Commands
       /\ c.pending.age <= s.age
  /\ c.leaving # Unarmed => c.obs.status = "running"
  /\ c.obs.status = "running" /\ c.leaving = Unarmed =>
       /\ s.cmd \in Commands
       /\ c.pending.state = "absent" => /\ c.obs.msg = s.cmd
                                        /\ s.age = DebounceTicks
  /\ c.exited # "unseen" => /\ c.pending.state = "absent"
                            /\ c.obs.status # "running"

\* The code's four maps and the environment's view agree pane by pane.
BooksMatchForeground == \A p \in Panes : PaneInv(panes[p], shown[p])

-----------------------------------------------------------------------------
(* Action properties                                                       *)

TurnsRunning(p) ==
  /\ panes'[p].obs.status = "running"
  /\ \/ panes[p].obs.status # "running"
     \/ panes[p].obs.msg # panes'[p].obs.msg

\* A command is shown Running only after a full debounce window of being the
\* pane's foreground command (short-lived commands never flash a row).
RunningSurvivedDebounce ==
  [][\A p \in Panes : TurnsRunning(p) =>
       /\ panes'[p].obs.msg = shown[p].cmd
       /\ shown'[p].age >= DebounceTicks]_vars

HandsOver(p) ==
  /\ IsCompletion(panes[p].obs) /\ ~SameCard(panes[p].obs, panes'[p].obs)
       => \E r \in receded'[p] : SameCard(panes[p].obs, r)
  /\ \A r \in receded'[p] :
       IsCompletion(panes[p].obs) /\ SameCard(panes[p].obs, r)

\* Every completion that stops being shown is handed to the ledger by the
\* very call that removes it, and a call hands over nothing else.
CompletionsAreHandedOff == [][\A p \in Panes : HandsOver(p)]_vars

\* Zellij repeats a held pane's exit with every manifest: a repeat changes no
\* row and ledgers nothing, whatever happened in between (TTL recede,
\* restart, sweep), until a new command opens in the pane.
ReplayedExitIsSilent ==
  [][\A p \in Panes, status \in ExitStatuses :
       PaneExited(p, status) /\ lastExit[p] = status
         => panes'[p].obs = panes[p].obs /\ receded'[p] = {}]_vars

==============================================================================
