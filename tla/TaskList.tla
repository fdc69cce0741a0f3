------------------------------- MODULE TaskList -------------------------------
(***************************************************************************)
(* One agent pane's background tasks under every sequence of status        *)
(* payloads: the state machine around BgTasks!ApplyTasks.  `last' is what  *)
(* the last payload's batch mentioned.                                     *)
(***************************************************************************)
EXTENDS BgTasks

CONSTANTS
  PayloadStatuses, \* statuses the agent's payloads carry
  WireStates,      \* task states its batches carry
  MaxBatch,        \* longest batch a payload carries
  MaxNow           \* bound on the wall clock

VARIABLES tasks, status, now, last

vars == <<tasks, status, now, last>>

TaskListParams ==
  /\ PayloadStatuses \subseteq {"idle", "running", "pending", "done", "error"}
  /\ WireStates \subseteq TaskStates
  /\ MaxBatch \in Nat /\ MaxNow \in Nat

StoredTask == [id : TaskIds, state : TaskStates, holds : BOOLEAN,
               start : 0..MaxNow, end : 0..MaxNow]

\* Payload batches: a snapshot lists the running set.
Batches ==
  LET seqs == UNION {[1..n -> {u \in Updates : u.state \in WireStates}] : n \in 0..MaxBatch}
  IN {NoBatch} \cup {Batch(s, FALSE) : s \in seqs}
       \cup {Batch(s, TRUE) : s \in seqs}

Mention(batch) ==
  [ids |-> {batch.items[i].id : i \in DOMAIN batch.items},
   running |-> RunningIds(batch.items), snapshot |-> batch.snapshot]

TypeOK ==
  /\ tasks.waiting \in BOOLEAN
  /\ Len(tasks.items) <= MaxTasks
  /\ \A i \in DOMAIN tasks.items : tasks.items[i] \in StoredTask
  /\ status \in PayloadStatuses \cup {"absent"}
  /\ now \in 0..MaxNow

Init ==
  /\ tasks = NoTasks
  /\ status = "absent"
  /\ now = 0
  /\ last = Mention(NoBatch)

Apply(next, batch, prompted) ==
  /\ tasks' = ApplyTasks(tasks, batch, status, next, prompted, now)
  /\ status' = next
  /\ last' = Mention(batch)
  /\ UNCHANGED now

Clock == /\ now < MaxNow
         /\ now' = now + 1
         /\ UNCHANGED <<tasks, status, last>>

Next ==
  \/ Clock
  \/ \E next \in PayloadStatuses, batch \in Batches, prompted \in BOOLEAN :
       (prompted => next = "running") /\ Apply(next, batch, prompted)

Spec == Init /\ [][Next]_vars

-----------------------------------------------------------------------------

Ids(items) == {items[i].id : i \in DOMAIN items}

\* The agent is shown waiting only on a stored, running, holding task, also
\* after the cap evicted some (`waiting' in BgTasks::apply).
WaitsOnHolding ==
  tasks.waiting => status = "running" /\ RunningHolds(tasks.items)

\* Reports are repeated and overtake each other: no later one revives a stored
\* task that is over, changes its outcome or moves its end (BgTasks::upsert).
OutcomesAreFinal ==
  [][\A i \in DOMAIN tasks.items, j \in DOMAIN tasks'.items :
       LET old == tasks.items[i]
           new == tasks'.items[j]
       IN  old.id = new.id /\ old.state \in Over =>
             /\ new.state \in Over /\ new.end = old.end
             /\ old.state \in Outcomes => new.state = old.state]_vars

\* Work in flight is forgotten only by an idle payload, by a batch that
\* reports it over (or a snapshot that omits it), or by the cap when every
\* task left is in flight too.
RunningIsForgottenLast ==
  [][status' # "idle" /\ ~last'.snapshot =>
       \A id \in RunningIds(tasks.items) \ (Ids(tasks'.items) \cup last'.ids) :
          Ids(tasks'.items) = RunningIds(tasks'.items)]_vars
==============================================================================
