------------------------------- MODULE BgTasks -------------------------------
(***************************************************************************)
(* Background tasks of one agent pane (crates/core/src/task.rs): the fold  *)
(* `BgTasks::apply' of a status payload into the stored list.  Labels are  *)
(* left out: they are only displayed.                                      *)
(***************************************************************************)
EXTENDS Integers, Sequences, FiniteSets

CONSTANTS TaskIds, MaxTasks

ASSUME BgTasksAssumption == MaxTasks \in Nat \ {0}

Outcomes == {"completed", "failed", "killed"}      \* TaskState::is_final
Over == Outcomes \cup {"ended"}                    \* TaskState::is_ended
TaskStates == {"running"} \cup Over

Updates == [id : TaskIds, state : TaskStates, holds : BOOLEAN]

\* No batch, or a batch of upserts that may be a snapshot.
NoBatch == [present |-> FALSE, items |-> <<>>, snapshot |-> FALSE]
Batch(items, snapshot) ==
  [present |-> TRUE, items |-> items, snapshot |-> snapshot]

NoTasks == [items |-> <<>>, waiting |-> FALSE]

RunningHolds(seq) ==
  \E i \in DOMAIN seq : seq[i].state = "running" /\ seq[i].holds

RunningIds(seq) ==
  {seq[i].id : i \in {j \in DOMAIN seq : seq[j].state = "running"}}

IndexOf(items, id) == {i \in DOMAIN items : items[i].id = id}

\* Mutant: the last report wins, whatever was reported before.
ReviseAlways(task, u, now) ==
  [task EXCEPT !.holds = @ /\ u.holds, !.end = now, !.state = u.state]

\* What an update does to a stored task of the same id.
Revise(task, u, now) ==
  IF \/ task.state \in Outcomes
     \/ task.state \in Over /\ u.state \notin Outcomes
    THEN task
    ELSE [task EXCEPT
            !.holds = IF u.state = "running" THEN @ /\ u.holds ELSE @,
            !.end   = IF task.state \in Over THEN @ ELSE now,
            !.state = u.state]

Upsert(items, u, now) ==
  IF IndexOf(items, u.id) # {}
    THEN [i \in DOMAIN items |->
            IF items[i].id = u.id THEN Revise(items[i], u, now) ELSE items[i]]
    ELSE Append(items, [id |-> u.id, state |-> u.state, holds |-> u.holds,
                        start |-> now, end |-> now])

\* A batch upserts one item after the other.
Upserted(items, updates, now) ==
  LET after[n \in 0 .. Len(updates)] ==
        IF n = 0 THEN items ELSE Upsert(after[n - 1], updates[n], now)
  IN  after[Len(updates)]

EndOmitted(items, batch, now) ==
  [i \in DOMAIN items |->
     IF /\ items[i].state = "running"
        /\ items[i].id \notin RunningIds(batch.items)
       THEN [items[i] EXCEPT !.state = "ended", !.end = now]
       ELSE items[i]]

\* Mutant: the running tasks are evicted first.
EvictRunningFirst(t, u) == t.state \notin Over /\ u.state \in Over

\* `end' is meaningful once the task is over; the eviction key is the end of
\* an ended task, the start of a running one, ended ones first.
EvictBefore(t, u) ==
  LET key(x) == IF x.state \in Over THEN x.end ELSE x.start
  IN \/ t.state \in Over /\ u.state \notin Over
     \/ (t.state \in Over <=> u.state \in Over) /\ key(t) < key(u)

Victim(items) ==
  CHOOSE i \in DOMAIN items :
    \A j \in DOMAIN items \ {i} :
      \/ EvictBefore(items[i], items[j])
      \/ ~EvictBefore(items[j], items[i]) /\ i < j

Evict(items) ==
  IF Len(items) > MaxTasks
    THEN SubSeq(items, 1, Victim(items) - 1) \o SubSeq(items, Victim(items) + 1, Len(items))
    ELSE items

\* `cap': one upsert batch exceeds the limit by at most its own length.
Cap(items, longest) ==
  LET capped[n \in 0 .. longest] == IF n = 0 THEN items ELSE Evict(capped[n - 1])
  IN  capped[longest]

\* Finished tasks are cleared.
Unfinished(items) ==
  LET left[n \in 0 .. Len(items)] ==
        IF n = 0 THEN <<>>
        ELSE IF items[n].state \in Over THEN left[n - 1]
        ELSE Append(left[n - 1], items[n])
  IN  left[Len(items)]

StartsNewWork(prev, next, prompted) ==
  next = "running" /\ (prompted \/ prev \in {"done", "error"})

\* Mutant: a wait the batch announces is taken at its word.
WaitsAsReported(next, batch, items) ==
  next = "running" /\ batch.snapshot /\ RunningHolds(batch.items)

\* The agent waits on background work: a snapshot says so and the task is
\* still stored.
Waits(next, batch, items) ==
  /\ next = "running"
  /\ batch.snapshot
  /\ RunningHolds(batch.items)
  /\ RunningHolds(items)

ApplyTasks(tasks, batch, prev, next, prompted, now) ==
  IF next = "idle" THEN NoTasks
  ELSE
    LET upserted == Upserted(tasks.items, batch.items, now)
        merged ==
          IF ~batch.present
            THEN IF StartsNewWork(prev, next, prompted) THEN Unfinished(tasks.items)
                 ELSE tasks.items
          ELSE IF batch.snapshot THEN EndOmitted(upserted, batch, now)
          ELSE upserted
        items == Cap(merged, Len(batch.items))
    IN [items |-> items, waiting |-> Waits(next, batch, items)]
==============================================================================
