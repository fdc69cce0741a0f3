------------------------------ MODULE StatusPane ------------------------------
(***************************************************************************)
(* What crates/plugin/src/status_store.rs keeps for one pane of the pushed *)
(* agent statuses, and what each method does to it.  Texts that are only   *)
(* displayed (repo, branch, sticky task label) are left out; of a new task *)
(* label only its presence counts, as the human-prompt cue.                *)
(***************************************************************************)
EXTENDS BgTasks

CONSTANTS
  Messages,    \* status messages a payload carries
  NoMsg,       \* the empty message
  GraceTicks,  \* RUNNING_SUSPECT_GRACE_TICKS
  MaxTracked   \* MAX_TRACKED_PANES

ASSUME StatusPaneAssumption ==
  /\ NoMsg \in Messages
  /\ MaxTracked \in Nat \ {0}
  /\ GraceTicks \in Nat \ {0}

PushedStatuses == {"idle", "running", "pending", "done", "error"}
AgentKinds == {"agent", "server"}     \* Kind::from_source: animated or steady
StampCap == 1                         \* stamps are "this tick" or "earlier"

Tasks == [items : Seq([id : TaskIds, state : TaskStates, holds : BOOLEAN,
                       start : Nat, end : Nat]),
          waiting : BOOLEAN]

\* `age': ticks since last_change_tick.  `stamp': ticks since the completion
\* or the question was stamped (completed_epoch_s, pending_epoch_s).
PushedRows ==
  [status : PushedStatuses \cup {"absent"}, msg : Messages, kind : AgentKinds,
   age : 0..GraceTicks, stamp : 0..StampCap, ack : BOOLEAN, tasks : Tasks]

NoRow == [status |-> "absent", msg |-> NoMsg, kind |-> "agent", age |-> 0,
          stamp |-> 0, ack |-> FALSE, tasks |-> NoTasks]

Unsuspected == -1

StatusRecords == [row : PushedRows,
                  suspect : {Unsuspected} \cup (0..GraceTicks)]

FreshStatus == [row |-> NoRow, suspect |-> Unsuspected]

Payloads == [status : PushedStatuses, msg : Messages, kind : AgentKinds,
             ack : BOOLEAN, prompted : BOOLEAN]

Completed(row) == row.status \in {"done", "error"}
Stamped(status) == status \in {"done", "error", "pending"}

Tracked(s) == s.row.status # "absent"

-----------------------------------------------------------------------------
(* apply, without the cap                                                  *)

\* Mutant: any question of a waiting agent is the same wait.
SameStatus(s, p) == s.row.status = p.status

Identical(s, p) == s.row.status = p.status /\ s.row.msg = p.msg

ApplyPayload(s, p, batch, now) ==
  [row |-> [status |-> p.status, msg |-> p.msg, kind |-> p.kind,
            age   |-> IF s.row.status = p.status THEN s.row.age ELSE 0,
            stamp |-> IF Stamped(p.status) /\ Identical(s, p)
                        THEN s.row.stamp ELSE 0,
            ack   |-> p.ack,
            tasks |-> ApplyTasks(s.row.tasks, batch, s.row.status, p.status,
                                 p.prompted, now)],
   suspect |-> Unsuspected]

\* Replaced::receded: the completion a real edge overwrote.
ApplyReceded(s, p) ==
  IF Completed(s.row) /\ ~Identical(s, p) THEN {s.row} ELSE {}

-----------------------------------------------------------------------------
(* evict_over_cap: the oldest row goes, silently, with its grace clock     *)

TrackedPanes(st) == {p \in DOMAIN st : Tracked(st[p])}

\* Ages saturate, so among saturated rows any may be the oldest.
Oldest(st) ==
  {p \in TrackedPanes(st) :
     \A q \in TrackedPanes(st) :
       \/ st[p].row.age > st[q].row.age
       \/ st[p].row.age = st[q].row.age /\ (p <= q \/ st[p].row.age = GraceTicks)}

\* One payload adds at most one row, so one eviction is enough.
EvictOverCap(st) ==
  IF Cardinality(TrackedPanes(st)) <= MaxTracked
    THEN {st}
    ELSE {[st EXCEPT ![p] = FreshStatus] : p \in Oldest(st)}

-----------------------------------------------------------------------------
(* the clears                                                              *)

ForceIdle(s) ==
  [s EXCEPT !.row = [NoRow EXCEPT !.status = "idle", !.kind = s.row.kind]]

Rests(s) == s.row.status \in {"absent", "idle"}

\* clear_on_prompt_return: Running only starts the grace clock.
ClearOnPromptReturn(s) ==
  IF s.row.status = "running"
    THEN [s EXCEPT !.suspect = IF @ = Unsuspected THEN 0 ELSE @]
  ELSE IF Rests(s) THEN s
  ELSE ForceIdle(s)

PromptReceded(s) ==
  IF s.row.status = "running" \/ Rests(s) THEN {} ELSE {s.row}

\* Mutant: the agent's own foreground report does not vouch for it.
KeepSuspect(s) == s

CancelSuspect(s) == [s EXCEPT !.suspect = Unsuspected]

ClearOnExit(s) ==
  IF Rests(s) THEN CancelSuspect(s) ELSE ForceIdle(CancelSuspect(s))

ExitCleared(s) == IF Rests(s) THEN {} ELSE {s.row}

\* One tick passes; expire_stale_running consumes a clock that ran out.
RowOlder(s) ==
  [s EXCEPT
     !.row.age = IF ~Tracked(s) \/ @ = GraceTicks THEN @ ELSE @ + 1,
     !.row.stamp = IF Stamped(s.row.status) /\ @ < StampCap THEN @ + 1 ELSE @,
     !.suspect = IF @ = Unsuspected \/ @ = GraceTicks THEN @ ELSE @ + 1]

ExpireStaleRunning(s) ==
  LET aged == RowOlder(s)
  IN IF aged.suspect < GraceTicks THEN aged
     ELSE IF aged.row.status = "running" THEN ForceIdle(CancelSuspect(aged))
     ELSE CancelSuspect(aged)

StaleCleared(s) ==
  RowOlder(s).suspect >= GraceTicks /\ s.row.status = "running"

\* Mutant: only animated rows ask for ticks, not the grace clock.
NeedsTicksForSpinner(s) == s.row.status = "running" /\ s.row.kind # "server"

\* needs_ticks, for one pane
StatusNeedsTicks(s) ==
  \/ s.suspect # Unsuspected
  \/ s.row.status = "running" /\ s.row.kind # "server"
==============================================================================
