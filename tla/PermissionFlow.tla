---------------------------- MODULE PermissionFlow ----------------------------
(***************************************************************************)
(* The first-run permission prompt of a session: every tab has a rail and  *)
(* one pane at most should show Zellij's prompt (permission.rs, and the    *)
(* lock and marker files of session_files.rs).                             *)
(*                                                                         *)
(* The instances share two files and nothing else: the marker with the     *)
(* answer, and a lock that is taken by creating it, kept fresh by whoever  *)
(* shows the prompt, and reclaimed by removing it once it is stale.        *)
(* `lock' is its age in seconds.  An instance ticks once a second; a tick  *)
(* is over within the second it started in.  `shown' counts, up to two,    *)
(* the seconds at whose end an instance was showing the prompt.            *)
(***************************************************************************)
EXTENDS Integers, FiniteSets

CONSTANTS
  Instances,   \* plugin instances: rails, and perhaps the onboarding pane
  RoleMixes,   \* the assignments of roles to them
  LockTtl,     \* PERMISSION_LOCK_TTL
  Patience     \* DEFER_PATIENCE_TICKS

Roles == {"onboarding", "deferring", "coordinated"}     \* PermissionPolicy

ASSUME PermissionFlowAssumption ==
  /\ RoleMixes \subseteq [Instances -> Roles]
  /\ LockTtl \in Nat \ {0}
  /\ Patience \in Nat \ {0}

NoLock == -1
Answers == {"granted", "denied"}
States == {"absent", "waiting", "requesting", "gone"} \cup Answers

VARIABLES role, state, ticks, marker, lock, reclaim, ticked, shown

flowVars == <<role, state, ticks, marker, lock, reclaim, ticked, shown>>

Waiting(i) == state[i] = "waiting"
Requesting(i) == state[i] = "requesting"

-----------------------------------------------------------------------------
(* decide                                                                  *)

\* Mutant: a rail that defers follows nobody's answer.
FollowsOnlyLock(i, answer, acquired, patient) ==
  IF role[i] = "onboarding" THEN "requesting"
  ELSE IF acquired /\ ~patient THEN "requesting" ELSE "waiting"

\* What a probe of the files dictates: a marker decides, then the lock, which
\* elects no rail that still defers to the onboarding pane.
Decide(i, answer, acquired, patient) ==
  IF role[i] = "onboarding" THEN "requesting"
  ELSE IF answer = "granted" THEN "requesting"
  ELSE IF answer = "denied" THEN "denied"
  ELSE IF acquired /\ ~patient THEN "requesting"
  ELSE "waiting"

\* Ticks waited, as far as the patience tells them apart.
WaitedOn(age) == IF age < Patience THEN age + 1 ELSE Patience

\* Mutant: the lock of a rail that is gone is never given up.
NeverStale == FALSE

LockIsStale == lock > LockTtl

\* Mutant: the instance that shows the prompt lets its lock age.
NoBeat(now, age) == age

\* HeartbeatPermissionLock, at the end of a tick.
Beat(now, age) == IF now = "requesting" THEN 0 ELSE age

-----------------------------------------------------------------------------

FlowInit ==
  /\ role \in RoleMixes
  /\ state = [i \in Instances |-> "absent"]
  /\ ticks = [i \in Instances |-> 0]
  /\ marker = "none"
  /\ lock = NoLock
  /\ reclaim = [i \in Instances |-> "idle"]
  /\ ticked = {}
  /\ shown = [i \in Instances |-> 0]

\* on_load or on_timer with the probe's outcome; only a tick spends patience
\* and beats.
Settle(i, answer, acquired, age) ==
  LET load == state[i] = "absent"
      spent == IF load THEN 0 ELSE WaitedOn(ticks[i])
      patient == role[i] = "deferring" /\ (load \/ spent < Patience)
      next == Decide(i, answer, acquired, patient)
  IN /\ state' = [state EXCEPT ![i] = next]
     /\ ticks' = [ticks EXCEPT ![i] = IF next = "waiting" THEN spent ELSE 0]
     /\ lock' = IF load THEN age ELSE Beat(next, age)
     /\ ticked' = ticked \cup {i}
     /\ UNCHANGED <<role, marker, shown>>

Probes(i) == /\ state[i] \in {"absent", "waiting"}
             /\ i \notin ticked /\ reclaim[i] = "idle"

\* permission_probe by an instance that opens or waits: with a marker the
\* lock is left alone.
Probe(i) ==
  /\ Probes(i)
  /\ marker # "none" \/ ~LockIsStale
  /\ UNCHANGED reclaim
  /\ IF marker = "none" /\ lock = NoLock THEN Settle(i, marker, TRUE, 0)
                                         ELSE Settle(i, marker, FALSE, lock)

\* reclaim_if_stale: stat, remove and create_new are three calls, and other
\* instances run between them.
FindStale(i) ==
  /\ Probes(i) /\ marker = "none" /\ LockIsStale
  /\ reclaim' = [reclaim EXCEPT ![i] = "stale"]
  /\ UNCHANGED <<role, state, ticks, marker, lock, ticked, shown>>

RemoveStale(i) ==
  /\ reclaim[i] = "stale"
  /\ reclaim' = [reclaim EXCEPT ![i] = "removed"]
  /\ lock' = NoLock
  /\ UNCHANGED <<role, state, ticks, marker, ticked, shown>>

Recreate(i) ==
  /\ reclaim[i] = "removed"
  /\ reclaim' = [reclaim EXCEPT ![i] = "idle"]
  /\ IF lock = NoLock THEN Settle(i, "none", TRUE, 0)
                      ELSE Settle(i, "none", FALSE, lock)

\* The tick of the instance that shows the prompt.
PromptTick(i) ==
  /\ Requesting(i) /\ i \notin ticked
  /\ lock' = Beat(state[i], lock)
  /\ ticked' = ticked \cup {i}
  /\ UNCHANGED <<role, state, ticks, marker, reclaim, shown>>

\* permission_result: the user answers, or Zellij does once the grant is
\* cached; the marker may fail to reach the disk.  The onboarding pane closes
\* itself when granted.
Answer(i, answer, written) ==
  /\ Requesting(i)
  /\ marker = "granted" => answer = "granted"
  /\ state' = [state EXCEPT ![i] =
                 IF answer = "granted" /\ role[i] = "onboarding" THEN "gone"
                                                                 ELSE answer]
  /\ marker' = IF written THEN answer ELSE marker
  /\ UNCHANGED <<role, ticks, lock, reclaim, ticked, shown>>

\* The user closes the pane or the tab, between two handlers.
Close(i) ==
  /\ state[i] \notin {"absent", "gone"} /\ reclaim[i] = "idle"
  /\ state' = [state EXCEPT ![i] = "gone"]
  /\ ticks' = [ticks EXCEPT ![i] = 0]
  /\ UNCHANGED <<role, marker, lock, reclaim, ticked, shown>>

\* A second passes once whoever ticks has ticked.
Elapse ==
  /\ \A i \in Instances : /\ reclaim[i] = "idle"
                          /\ Waiting(i) \/ Requesting(i) => i \in ticked
  /\ lock' = IF lock = NoLock THEN NoLock
             ELSE IF lock <= LockTtl THEN lock + 1 ELSE lock
  /\ ticked' = {}
  /\ shown' = [i \in Instances |->
                IF ~Requesting(i) THEN 0
                ELSE IF shown[i] < 2 THEN shown[i] + 1 ELSE 2]
  /\ UNCHANGED <<role, state, ticks, marker, reclaim>>

Tick(i) ==
  /\ state[i] # "absent" \/ reclaim[i] # "idle"
  /\ \/ Probe(i) \/ FindStale(i) \/ RemoveStale(i) \/ Recreate(i)
     \/ PromptTick(i)

Open(i) == state[i] = "absent" /\ (Probe(i) \/ FindStale(i))

FlowNext ==
  \/ Elapse
  \/ \E i \in Instances :
       \/ Open(i) \/ Tick(i) \/ Close(i)
       \/ \E answer \in Answers, written \in BOOLEAN :
            Answer(i, answer, written)

FlowSpec == FlowInit /\ [][FlowNext]_flowVars

\* A rail that waits or prompts keeps its Fast timer armed (desired_cadence).
Fairness == WF_flowVars(Elapse) /\ \A i \in Instances : WF_flowVars(Tick(i))

FlowFairSpec == FlowSpec /\ Fairness

-----------------------------------------------------------------------------

FlowTypeOK ==
  /\ role \in RoleMixes
  /\ state \in [Instances -> States]
  /\ ticks \in [Instances -> 0..Patience]
  /\ marker \in Answers \cup {"none"}
  /\ lock \in {NoLock} \cup (0..(LockTtl + 1))
  /\ reclaim \in [Instances -> {"idle", "stale", "removed"}]
  /\ ticked \subseteq Instances
  /\ shown \in [Instances -> 0..2]

\* No rail takes the prompt from an instance that showed it through a whole
\* second, and so has beaten the lock since: neither patience nor the reclaim race "steals a prompt a user is
\* still looking at" (DEFER_PATIENCE_TICKS).
LivePromptIsKept ==
  [][\A i \in Instances :
       state'[i] = "requesting" /\ ~Requesting(i) /\ marker = "none"
           /\ role[i] # "onboarding"
         => \A j \in Instances : ~(Requesting(j) /\ shown[j] = 2)]_flowVars

\* When nobody shows a prompt and there is no answer, a waiting instance does
\* not wait for ever, whoever died holding the lock, and however often rails
\* that cannot use it take it.
OrphansPrompt ==
  \A i \in Instances :
    Waiting(i) ~> (~Waiting(i) \/ \E j \in Instances : Requesting(j))

\* An answer reaches every instance that waits for one.
AnswerReachesRails ==
  \A i \in Instances : (Waiting(i) /\ marker # "none") ~> ~Waiting(i)
==============================================================================
