----------------------------- MODULE CommandPane -----------------------------
(***************************************************************************)
(* What crates/core/src/command.rs keeps for ONE terminal pane, and what   *)
(* each method of `CommandStore' does to it.                               *)
(*                                                                         *)
(* The Rust store is four maps keyed by pane id (store, pending,           *)
(* pending_done, exited); every method touches the entries of one pane or  *)
(* treats all panes alike, so a pane is one record here and the methods    *)
(* are functions from a pane record to a pane record.                      *)
(*                                                                         *)
(* Ticks: the code stores absolute ticks and only ever compares            *)
(* `tick.saturating_sub(since)' with a threshold.  The model keeps that    *)
(* difference, an AGE, saturated at the threshold it is compared with.     *)
(***************************************************************************)
EXTENDS Integers

CONSTANTS
  Commands,            \* program names a pane can run (peeled exe basenames)
  Shells,              \* IGNORE_NAMES: programs that mean "back at the prompt"
  Agents,              \* AGENT_NAMES: programs owned by the status pipe
  Blank,               \* an argv that `classify' cannot name
  NoCmd,               \* the empty display string
  ClassKind,           \* the Kind `classify' gives each command
  DefaultInteractive,  \* DEFAULT_INTERACTIVE
  DefaultRemote,       \* DEFAULT_REMOTE
  FailCodes,           \* the non-zero exit codes
  DebounceTicks,       \* DEBOUNCE_TICKS
  DoneTtlTicks         \* DONE_TTL_TICKS

Kinds == {"job", "service", "remote"}

ASSUME CommandPaneAssumption ==
  /\ ClassKind \in [Commands -> Kinds]
  /\ DefaultInteractive \subseteq Commands
  /\ DefaultRemote \subseteq Commands
  /\ Commands \cap (Shells \cup Agents \cup {Blank}) = {}
  /\ Blank \notin Shells \cup Agents
  /\ NoCmd \notin Commands
  /\ FailCodes \cap {"none", "zero", "unseen"} = {}
  /\ DebounceTicks \in Nat \ {0}
  /\ DoneTtlTicks \in Nat \ {0}

Argv == Commands \cup Shells \cup Agents \cup {Blank}

\* exit_status: Option<i32>
ExitStatuses == {"none", "zero"} \cup FailCodes

Steady(kind) == kind \in {"service", "remote"}

Completions == {"done", "error"}

\* "absent" is a pane the map has no entry for.
Observations ==
  [status : {"absent", "idle", "running", "done", "error"},
   msg    : Commands \cup {NoCmd},
   kind   : Kinds,
   age    : 0..DoneTtlTicks,
   code   : ExitStatuses]

NoObs == [status |-> "absent", msg |-> NoCmd, kind |-> "job", age |-> 0,
          code |-> "none"]

\* A quiet pending is one whose `promotable' is false.
Pendings ==
  [state : {"absent", "quiet", "promotable"},
   cmd   : Commands \cup {NoCmd},
   kind  : Kinds,
   age   : 0..DebounceTicks]

NoPending == [state |-> "absent", cmd |-> NoCmd, kind |-> "job", age |-> 0]

Unarmed == -1

PaneRecords ==
  [obs : Observations, pending : Pendings,
   leaving : {Unarmed} \cup (0..DebounceTicks),    \* pending_done
   exited : ExitStatuses \cup {"unseen"}]

FreshPane == [obs |-> NoObs, pending |-> NoPending, leaving |-> Unarmed,
              exited |-> "unseen"]

Older(age, cap) == IF age < cap THEN age + 1 ELSE cap

IsCompletion(obs) == obs.status \in Completions

\* Two observations make the same card.
SameCard(o, n) == n.status = o.status /\ n.msg = o.msg /\ n.code = o.code

Animating(obs) == obs.status = "running" /\ ~Steady(obs.kind)

-----------------------------------------------------------------------------
(* on_command_changed                                                      *)

ArmTentativeDone(c) ==
  IF c.obs.status = "running" /\ c.leaving = Unarmed
    THEN [c EXCEPT !.leaving = 0]
    ELSE c

\* The report says the pane's foreground command, if any, has ended.
MeansLeft(argv, foreground, interactive) ==
  \/ ~foreground /\ argv \notin interactive
  \/ argv \in Shells \cup Agents

KindAtIntake(argv, remoteExtras) ==
  IF argv \in remoteExtras THEN "remote" ELSE ClassKind[argv]

\* Mutant: a new command does not cancel the armed confirm of the last one.
IntakeKeepsLeaving(c, argv, foreground, interactive, remoteExtras) ==
  IF MeansLeft(argv, foreground, interactive)
    THEN ArmTentativeDone([c EXCEPT !.pending = NoPending])
  ELSE IF argv = Blank THEN c
  ELSE [c EXCEPT !.exited = "unseen",
          !.pending = [state |-> IF argv \in interactive THEN "quiet"
                                                         ELSE "promotable",
                       cmd |-> argv, age |-> 0,
                       kind |-> KindAtIntake(argv, remoteExtras)]]

OnCommandChanged(c, argv, foreground, interactive, remoteExtras) ==
  IF MeansLeft(argv, foreground, interactive)
    THEN ArmTentativeDone([c EXCEPT !.pending = NoPending])
  ELSE IF argv = Blank
    THEN c
  ELSE LET d == IF argv \in interactive
                  THEN ArmTentativeDone(c)
                  ELSE [c EXCEPT !.leaving = Unarmed]
       IN [d EXCEPT
             !.exited = "unseen",
             !.pending = [state |-> IF argv \in interactive THEN "quiet"
                                                            ELSE "promotable",
                          cmd |-> argv, age |-> 0,
                          kind |-> KindAtIntake(argv, remoteExtras)]]

-----------------------------------------------------------------------------
(* on_timer: one tick passes, then three edges in the code's order         *)

\* Only the ages some comparison reads advance.
Aged(c) ==
  [c EXCEPT !.obs.age = IF c.obs.status \in {"running", "done"}
                          THEN Older(@, DoneTtlTicks) ELSE @,
            !.pending.age = IF c.pending.state = "absent"
                              THEN @ ELSE Older(@, DebounceTicks),
            !.leaving = IF @ = Unarmed THEN Unarmed
                                       ELSE Older(@, DebounceTicks)]

\* Mutant: the debounce window is not waited for.
PromotesAtOnce(c) == c.pending.state = "promotable"

Promotes(c) ==
  c.pending.state = "promotable" /\ c.pending.age >= DebounceTicks

\* A re-promotion of the same running command keeps its start tick.
Promote(c) ==
  [c EXCEPT
     !.pending = NoPending,
     !.obs = [status |-> "running", msg |-> c.pending.cmd,
              kind |-> c.pending.kind, code |-> "none",
              age |-> IF c.obs.status = "running" /\ c.obs.msg = c.pending.cmd
                        THEN c.obs.age ELSE 0]]

ConfirmDue(c) == c.leaving >= DebounceTicks

\* The armed entry is consumed whether or not the row is still Running.
ConfirmDone(c) ==
  LET d == [c EXCEPT !.leaving = Unarmed]
  IN IF c.obs.status = "running"
       THEN [d EXCEPT !.obs.status = "done", !.obs.age = 0]
       ELSE d

Expires(c) == c.obs.status = "done" /\ c.obs.age >= DoneTtlTicks

Recede(c) == [c EXCEPT !.obs.status = "idle", !.obs.age = 0]

OnTimer(c) ==
  LET aged      == Aged(c)
      promoted  == IF Promotes(aged) THEN Promote(aged) ELSE aged
      confirmed == IF ConfirmDue(promoted) THEN ConfirmDone(promoted)
                                           ELSE promoted
  IN IF Expires(confirmed) THEN Recede(confirmed) ELSE confirmed

\* Mutant: a promotion or an expiry drops the completion it replaces.
TimerRecedesNothing(c) == {}

\* TimerReport::receded for this pane: the completions that left the card.
TimerReceded(c) ==
  LET aged      == Aged(c)
      promoted  == IF Promotes(aged) THEN Promote(aged) ELSE aged
      confirmed == IF ConfirmDue(promoted) THEN ConfirmDone(promoted)
                                           ELSE promoted
  IN (IF Promotes(aged) /\ IsCompletion(c.obs) THEN {aged.obs} ELSE {})
       \cup (IF Expires(confirmed) THEN {confirmed.obs} ELSE {})

\* Mutant: the expiry of a Done row is not reported.
TimerHidesExpiry(c) ==
  LET aged     == Aged(c)
      promoted == IF Promotes(aged) THEN Promote(aged) ELSE aged
  IN \/ Promotes(aged) /\ promoted.obs # aged.obs
     \/ ConfirmDue(promoted) /\ promoted.obs.status = "running"

\* TimerReport::changed for this pane.
TimerChanged(c) ==
  LET aged      == Aged(c)
      promoted  == IF Promotes(aged) THEN Promote(aged) ELSE aged
      confirmed == IF ConfirmDue(promoted) THEN ConfirmDone(promoted)
                                           ELSE promoted
  IN \/ Promotes(aged) /\ promoted.obs # aged.obs
     \/ ConfirmDue(promoted) /\ promoted.obs.status = "running"
     \/ Expires(confirmed)

\* TimerReport::completed: the kind of the run this tick confirmed Done.
TimerCompleted(c) ==
  LET aged     == Aged(c)
      promoted == IF Promotes(aged) THEN Promote(aged) ELSE aged
  IN IF ConfirmDue(promoted) /\ promoted.obs.status = "running"
       THEN {promoted.obs.kind} ELSE {}

-----------------------------------------------------------------------------
(* on_exit                                                                 *)

ExitOutcome(status) == IF status \in FailCodes THEN "error" ELSE "done"

\* Mutant: no guard against a replay over a receded row.
NeverOverIdle(c) == FALSE

\* Mutant: every exit of a pane without a pending run is taken for a replay.
OverAnyRow(c) == c.pending.state = "absent"

\* The two replay guards that apply only when no run is in flight.
ReplayOverIdle(c) == c.pending.state = "absent" /\ c.obs.status = "idle"

ReplayOverSame(c, status) ==
  /\ c.pending.state = "absent"
  /\ c.obs.status = ExitOutcome(status)
  /\ c.obs.code = status

ExitApplies(c, status) ==
  /\ c.exited # status
  /\ ~ReplayOverIdle(c)
  /\ ~ReplayOverSame(c, status)

\* Mutant: an exit leaves the armed confirm behind.
ExitKeepsLeaving(c, status) ==
  IF ExitApplies(c, status)
    THEN [c EXCEPT !.obs.status = ExitOutcome(status), !.obs.age = 0,
            !.obs.code = status, !.pending = NoPending, !.exited = status]
    ELSE c

\* A surviving pending is a run whose exit beat its promotion: its identity
\* labels the completion.
OnExit(c, status) ==
  IF ExitApplies(c, status)
    THEN [obs |-> [status |-> ExitOutcome(status), age |-> 0, code |-> status,
                   msg  |-> IF c.pending.state = "absent" THEN c.obs.msg
                                                          ELSE c.pending.cmd,
                   kind |-> IF c.pending.state = "absent" THEN c.obs.kind
                                                          ELSE c.pending.kind],
          pending |-> NoPending, leaving |-> Unarmed, exited |-> status]
  ELSE IF c.exited # status /\ ~ReplayOverIdle(c)
    THEN [c EXCEPT !.exited = status]
  ELSE c

\* The completion the exit displaced, for the ledger.
ExitReceded(c, status) ==
  IF ExitApplies(c, status) /\ IsCompletion(c.obs) THEN {c.obs} ELSE {}

-----------------------------------------------------------------------------
(* set_interactive_extras and set_remote_extras                            *)

Rejudged(c, interactive) ==
  IF c.pending.state = "absent" THEN c
  ELSE [c EXCEPT !.pending.state = IF c.pending.cmd \in interactive
                                     THEN "quiet" ELSE "promotable"]

\* A row with an armed tentative-done is exempt: its command already left.
DemotedBy(c, interactive) ==
  /\ c.obs.status = "running"
  /\ c.leaving = Unarmed
  /\ c.obs.msg \in interactive

Demote(c) ==
  [c EXCEPT
     !.obs.status = "idle",
     !.pending = IF c.pending.state # "absent" THEN c.pending
                 ELSE [state |-> "quiet", cmd |-> c.obs.msg,
                       kind |-> c.obs.kind,
                       age |-> IF c.obs.age < DebounceTicks THEN c.obs.age
                                                            ELSE DebounceTicks]]

OnInteractiveExtras(c, interactive) ==
  LET d == Rejudged(c, interactive)
  IN IF DemotedBy(d, interactive) THEN Demote(d) ELSE d

\* The strict Remote <-> non-Remote flip; every other row is untouched.
Rekind(cmd, kind, extras) ==
  IF cmd \in extras THEN "remote"
  ELSE IF kind = "remote" /\ cmd \notin DefaultRemote THEN "job"
  ELSE kind

OnRemoteExtras(c, extras) ==
  [c EXCEPT
     !.pending.kind = IF c.pending.state = "absent" THEN @
                      ELSE Rekind(c.pending.cmd, @, extras),
     !.obs.kind = IF c.obs.msg = NoCmd THEN @
                  ELSE Rekind(c.obs.msg, @, extras)]

-----------------------------------------------------------------------------
(* needs_ticks and has_done_awaiting_recede, for one pane                  *)

\* Mutant: an armed confirm alone does not keep the timer going.
NeedsTicksForMotion(c) ==
  c.pending.state = "promotable" \/ Animating(c.obs)

NeedsTicks(c) ==
  \/ c.pending.state = "promotable"
  \/ c.leaving # Unarmed
  \/ Animating(c.obs)

AwaitsRecede(c) == c.obs.status = "done"

\* tracked_pane_ids: the pane has an observation or any bookkeeping.
CommandTracked(c) == c # FreshPane

\* quiet_identity: the muted label of an interactive foreground command.
QuietIdentity(c) ==
  IF c.pending.state = "quiet" THEN {c.pending.cmd} ELSE {}
==============================================================================
