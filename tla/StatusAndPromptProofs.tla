------------------------ MODULE StatusAndPromptProofs ------------------------
(***************************************************************************)
(* Proofs about two parts of a plugin instance that live by a clock: the   *)
(* permission prompt, which no rail takes from another that shows it, for  *)
(* every set of instances, mix of roles, lock age and patience; and the    *)
(* pushed statuses, for every set of panes, every payload, grace period    *)
(* and cap.                                                                *)
(***************************************************************************)
EXTENDS PermissionFlow, StatusStore, PaneProofs

-----------------------------------------------------------------------------
(* The permission prompt                                                   *)

\* An instance reclaims the lock as part of a probe, which none makes once it
\* prompts; nor does one that prompted through the end of a second probe again.
OnlyWaitersProbe ==
  \A i \in Instances :
    /\ reclaim[i] # "idle" => state[i] \in {"absent", "waiting"}
    /\ shown[i] # 0 => state[i] \notin {"absent", "waiting"}

\* A prompt that ticked in this second, not its first, has just beaten the
\* lock: it is fresh, unless an instance that found it stale before the beat
\* has removed it, which then still has to take it back.
BeatenLockIsFresh ==
  \A i \in Instances :
    Requesting(i) /\ shown[i] # 0 /\ i \in ticked =>
      \/ lock = 0
      \/ lock = NoLock /\ \E k \in Instances : reclaim[k] = "removed"

\* Once it showed through a whole second, nobody is left who found the lock
\* stale, and it cannot be: that takes LockTtl seconds without a beat.
ShownLockIsHeld ==
  \A i \in Instances :
    Requesting(i) /\ shown[i] = 2 =>
      lock \in {0, 1} /\ \A k \in Instances : reclaim[k] = "idle"

PromptInv ==
  FlowTypeOK /\ OnlyWaitersProbe /\ BeatenLockIsFresh /\ ShownLockIsHeld

\* The first prompt of a session: nothing is held and nobody probes.
LEMMA PromptInit == FlowInit => PromptInv
<1> SUFFICES ASSUME FlowInit PROVE PromptInv
  OBVIOUS
<1>1. 0 \in 0..Patience
  BY PermissionFlowAssumption
<1>2. FlowTypeOK
  BY <1>1 DEF FlowInit, FlowTypeOK, States, Answers, NoLock
<1> QED
  BY <1>2 DEF PromptInv, FlowInit, OnlyWaitersProbe, BeatenLockIsFresh,
              ShownLockIsHeld, Requesting

\* What a probe leaves: a decision on its instance, and a lock that is as old
\* as the probe found it, or beaten.
LEMMA SettleFacts ==
  ASSUME FlowTypeOK, NEW i \in Instances, NEW answer \in Answers \cup {"none"},
         NEW acquired \in BOOLEAN, NEW age \in {NoLock} \cup (0..(LockTtl + 1)),
         Settle(i, answer, acquired, age)
  PROVE  /\ state' \in [Instances -> States] /\ ticks' \in [Instances -> 0..Patience]
         /\ state'[i] # "absent"
         /\ \A k \in Instances : k # i => state'[k] = state[k]
         /\ lock' \in {age, 0} /\ ticked' = ticked \cup {i}
         /\ UNCHANGED <<role, marker, shown>>
         /\ state'[i] = "requesting" /\ role[i] # "onboarding" =>
              answer = "granted" \/ acquired
<1> DEFINE load == state[i] = "absent"
           spent == IF load THEN 0 ELSE WaitedOn(ticks[i])
           patient == role[i] = "deferring" /\ (load \/ spent < Patience)
           next == Decide(i, answer, acquired, patient)
<1>1. /\ state' = [state EXCEPT ![i] = next]
      /\ ticks' = [ticks EXCEPT ![i] = IF next = "waiting" THEN spent ELSE 0]
      /\ lock' = IF load THEN age ELSE Beat(next, age)
      /\ ticked' = ticked \cup {i}
      /\ UNCHANGED <<role, marker, shown>>
  BY DEF Settle
<1>2. spent \in 0..Patience /\ 0 \in 0..Patience
  BY PermissionFlowAssumption DEF FlowTypeOK, WaitedOn
<1>3. /\ next \in {"requesting", "denied", "waiting"}
      /\ next = "requesting" /\ role[i] # "onboarding" =>
           answer = "granted" \/ acquired
  BY DEF Decide
<1> HIDE DEF spent, next
<1>4. lock' \in {age, 0}
  BY <1>1 DEF Beat
<1>5. /\ state' \in [Instances -> States] /\ state'[i] = next
      /\ \A k \in Instances : k # i => state'[k] = state[k]
  BY <1>1, <1>3 DEF FlowTypeOK, States, Answers
<1>6. ticks' \in [Instances -> 0..Patience]
  BY <1>1, <1>2 DEF FlowTypeOK
<1> QED
  BY <1>1, <1>3, <1>4, <1>5, <1>6

\* An instance that takes the lock, or does not, without having removed it.
LEMMA ProbeKeeps ==
  ASSUME PromptInv, NEW i \in Instances, Probe(i) PROVE PromptInv'
<1>1. PICK acquired \in BOOLEAN, age \in {lock, 0} :
        /\ Settle(i, marker, acquired, age)
        /\ age # lock => lock = NoLock
        /\ acquired => lock = NoLock
  <2>1. CASE marker = "none" /\ lock = NoLock
    BY <2>1 DEF Probe
  <2>2. CASE ~(marker = "none" /\ lock = NoLock)
    BY <2>2 DEF Probe
  <2> QED
    BY <2>1, <2>2
<1>2. /\ marker \in Answers \cup {"none"} /\ FlowTypeOK
      /\ age \in {NoLock} \cup (0..(LockTtl + 1))
  BY <1>1, PermissionFlowAssumption DEF PromptInv, FlowTypeOK
<1>3. /\ state[i] \in {"absent", "waiting"} /\ shown[i] = 0
      /\ reclaim[i] = "idle" /\ reclaim' = reclaim
  BY DEF Probe, Probes, PromptInv, OnlyWaitersProbe
<1>4. /\ state' \in [Instances -> States] /\ ticks' \in [Instances -> 0..Patience]
      /\ \A k \in Instances : k # i => state'[k] = state[k]
      /\ lock' \in {age, 0} /\ ticked' = ticked \cup {i}
      /\ UNCHANGED <<role, marker, shown>>
  BY <1>1, <1>2, SettleFacts
<1>5. lock' \in {lock, 0}
  BY <1>1, <1>4
<1>6. FlowTypeOK'
  BY <1>2, <1>3, <1>4, <1>5, PermissionFlowAssumption DEF FlowTypeOK
<1>7. OnlyWaitersProbe'
  BY <1>3, <1>4 DEF PromptInv, OnlyWaitersProbe
<1>8. BeatenLockIsFresh' /\ ShownLockIsHeld'
  BY <1>3, <1>4, <1>5
  DEF PromptInv, BeatenLockIsFresh, ShownLockIsHeld, Requesting
<1> QED
  BY <1>6, <1>7, <1>8 DEF PromptInv

\* An instance that takes back the lock it has removed, unless another did.
LEMMA RecreateKeeps ==
  ASSUME PromptInv, NEW i \in Instances, Recreate(i) PROVE PromptInv'
<1>1. PICK acquired \in BOOLEAN, age \in {lock, 0} :
        /\ Settle(i, "none", acquired, age)
        /\ age # NoLock /\ (lock # NoLock => age = lock)
  <2>1. CASE lock = NoLock
    <3>1. Settle(i, "none", TRUE, 0)
      BY <2>1 DEF Recreate
    <3>2. 0 # NoLock
      BY DEF NoLock
    <3> QED
      BY <2>1, <3>1, <3>2
  <2>2. CASE lock # NoLock
    BY <2>2 DEF Recreate
  <2> QED
    BY <2>1, <2>2
<1>2. /\ FlowTypeOK
      /\ age \in {NoLock} \cup (0..(LockTtl + 1))
  BY <1>1, PermissionFlowAssumption DEF PromptInv, FlowTypeOK
<1>3. /\ reclaim[i] = "removed" /\ shown[i] = 0
      /\ reclaim' = [reclaim EXCEPT ![i] = "idle"]
  BY DEF Recreate, PromptInv, OnlyWaitersProbe
<1>4. /\ state' \in [Instances -> States] /\ ticks' \in [Instances -> 0..Patience]
      /\ \A k \in Instances : k # i => state'[k] = state[k]
      /\ lock' \in {age, 0} /\ ticked' = ticked \cup {i}
      /\ UNCHANGED <<role, marker, shown>>
  BY <1>1, <1>2, SettleFacts
<1>5. lock' # NoLock /\ (lock' = lock \/ lock' = 0)
  BY <1>1, <1>4 DEF NoLock
<1>6. FlowTypeOK'
  <2>1. reclaim' \in [Instances -> {"idle", "stale", "removed"}]
    BY <1>2, <1>3 DEF FlowTypeOK
  <2>2. lock' \in {NoLock} \cup (0..(LockTtl + 1))
    BY <1>2, <1>4, PermissionFlowAssumption
  <2> QED
    BY <1>2, <1>4, <2>1, <2>2 DEF FlowTypeOK
<1>7. OnlyWaitersProbe'
  BY <1>2, <1>3, <1>4 DEF PromptInv, OnlyWaitersProbe, FlowTypeOK
<1>8. BeatenLockIsFresh'
  <2> SUFFICES ASSUME NEW j \in Instances,
                      Requesting(j)', shown'[j] # 0, j \in ticked'
               PROVE  lock' = 0
    BY DEF BeatenLockIsFresh
  <2>1. j # i /\ Requesting(j) /\ shown[j] # 0 /\ j \in ticked
    BY <1>3, <1>4 DEF Requesting
  <2> QED
    BY <1>5, <2>1 DEF PromptInv, BeatenLockIsFresh
<1>9. ShownLockIsHeld'
  <2>1. \A j \in Instances : ~(Requesting(j)' /\ shown'[j] = 2)
    BY <1>3, <1>4 DEF PromptInv, ShownLockIsHeld, Requesting
  <2> QED
    BY <2>1 DEF ShownLockIsHeld
<1> QED
  BY <1>6, <1>7, <1>8, <1>9 DEF PromptInv

\* Every step keeps the invariant of the prompt.
LEMMA PromptStep == PromptInv /\ [FlowNext]_flowVars => PromptInv'
<1> SUFFICES ASSUME PromptInv, [FlowNext]_flowVars PROVE PromptInv'
  OBVIOUS
<1> USE DEF PromptInv
<1>1. ASSUME NEW i \in Instances, FindStale(i) PROVE PromptInv'
  <2>1. FlowTypeOK'
    BY <1>1 DEF FindStale, FlowTypeOK
  <2>2. \A j \in Instances : ~(Requesting(j) /\ shown[j] = 2)
    BY <1>1, PermissionFlowAssumption
    DEF FindStale, LockIsStale, ShownLockIsHeld
  <2>3. \A j \in Instances : ~(Requesting(j) /\ shown[j] # 0 /\ j \in ticked)
    BY <1>1, PermissionFlowAssumption
    DEF FindStale, LockIsStale, BeatenLockIsFresh, NoLock
  <2>4. OnlyWaitersProbe'
    BY <1>1 DEF FindStale, Probes, OnlyWaitersProbe, FlowTypeOK
  <2> QED
    BY <1>1, <2>1, <2>2, <2>3, <2>4
    DEF FindStale, BeatenLockIsFresh, ShownLockIsHeld, Requesting
<1>2. ASSUME NEW i \in Instances, RemoveStale(i) PROVE PromptInv'
  <2>1. FlowTypeOK'
    BY <1>2 DEF RemoveStale, FlowTypeOK
  <2>2. \A j \in Instances : ~(Requesting(j) /\ shown[j] = 2)
    BY <1>2 DEF RemoveStale, ShownLockIsHeld
  <2>3. lock' = NoLock /\ reclaim'[i] = "removed"
    BY <1>2 DEF RemoveStale, FlowTypeOK
  <2>4. OnlyWaitersProbe'
    BY <1>2 DEF RemoveStale, OnlyWaitersProbe, FlowTypeOK
  <2> QED
    BY <1>2, <2>1, <2>2, <2>3, <2>4
    DEF RemoveStale, BeatenLockIsFresh, ShownLockIsHeld, Requesting
<1>3. ASSUME NEW i \in Instances, PromptTick(i) PROVE PromptInv'
  <2>1. lock' = 0
    BY <1>3 DEF PromptTick, Requesting, Beat
  <2>2. FlowTypeOK'
    BY <1>3, <2>1, PermissionFlowAssumption DEF PromptTick, FlowTypeOK
  <2> QED
    BY <1>3, <2>1, <2>2
    DEF PromptTick, OnlyWaitersProbe, BeatenLockIsFresh, ShownLockIsHeld, Requesting
<1>4. ASSUME NEW i \in Instances, NEW answer \in Answers,
             NEW written \in BOOLEAN, Answer(i, answer, written)
      PROVE  PromptInv'
  <2>1. /\ state'[i] \notin {"absent", "waiting", "requesting"}
        /\ state' \in [Instances -> States]
        /\ \A k \in Instances : k # i => state'[k] = state[k]
    BY <1>4 DEF Answer, FlowTypeOK, States, Answers
  <2>2. FlowTypeOK'
    BY <1>4, <2>1 DEF Answer, FlowTypeOK, Answers
  <2>3. reclaim[i] = "idle"
    BY <1>4 DEF Answer, Requesting, OnlyWaitersProbe, FlowTypeOK
  <2> QED
    BY <1>4, <2>1, <2>2, <2>3
    DEF Answer, OnlyWaitersProbe, BeatenLockIsFresh, ShownLockIsHeld, Requesting
<1>5. ASSUME NEW i \in Instances, Close(i) PROVE PromptInv'
  <2>1. /\ state'[i] = "gone" /\ reclaim[i] = "idle"
        /\ \A k \in Instances : k # i => state'[k] = state[k]
    BY <1>5 DEF Close, FlowTypeOK
  <2>2. FlowTypeOK'
    BY <1>5, PermissionFlowAssumption DEF Close, FlowTypeOK, States
  <2> QED
    BY <1>5, <2>1, <2>2
    DEF Close, OnlyWaitersProbe, BeatenLockIsFresh, ShownLockIsHeld, Requesting
<1>6. CASE Elapse
  <2>1. /\ \A j \in Instances : reclaim[j] = "idle" /\ (Requesting(j) => j \in ticked)
        /\ UNCHANGED <<role, state, ticks, marker, reclaim>>
        /\ ticked' = {}
    BY <1>6 DEF Elapse
  <2>2. /\ shown' \in [Instances -> 0..2]
        /\ \A j \in Instances : shown'[j] # 0 => Requesting(j)
        /\ \A j \in Instances : shown'[j] = 2 => shown[j] # 0
    BY <1>6 DEF Elapse, FlowTypeOK
  <2>3. lock' \in {NoLock} \cup (0..(LockTtl + 1))
        /\ (lock = 0 => lock' = 1)
    BY <1>6, PermissionFlowAssumption DEF Elapse, FlowTypeOK, NoLock
  <2>4. FlowTypeOK'
    BY <2>1, <2>2, <2>3 DEF FlowTypeOK
  <2>5. OnlyWaitersProbe' /\ BeatenLockIsFresh'
    BY <2>1, <2>2 DEF OnlyWaitersProbe, BeatenLockIsFresh, Requesting
  <2>6. ShownLockIsHeld'
    <3> SUFFICES ASSUME NEW j \in Instances, Requesting(j)', shown'[j] = 2
                 PROVE  lock' = 1
      BY <2>1 DEF ShownLockIsHeld
    <3>1. lock = 0
      BY <2>1, <2>2 DEF BeatenLockIsFresh, Requesting
    <3> QED
      BY <2>3, <3>1
  <2> QED
    BY <2>4, <2>5, <2>6
<1>7. CASE UNCHANGED flowVars
  BY <1>7 DEF flowVars, FlowTypeOK, OnlyWaitersProbe, BeatenLockIsFresh,
              ShownLockIsHeld, Requesting
<1> USE DEF FlowNext
<1> HIDE DEF PromptInv
<1> QED
  BY <1>1, <1>2, <1>3, <1>4, <1>5, <1>6, <1>7, ProbeKeeps, RecreateKeeps
  DEF Open, Tick

\* The invariant of the prompt, whatever the instances do between the three
\* calls of a reclaim.
THEOREM PromptCorrect == FlowSpec => []PromptInv
BY PromptInit, PromptStep, PTL DEF FlowSpec

\* No rail comes to prompt while another shows a prompt that a user may be
\* looking at, having shown it through a whole second: neither after its
\* patience with the onboarding pane nor through the reclaim race, for any
\* number of rails and any age at which a lock is stale.
THEOREM LivePromptIsKeptCorrect == FlowSpec => LivePromptIsKept
<1>1. PromptInv /\ [FlowNext]_flowVars =>
        [\A i \in Instances :
           state'[i] = "requesting" /\ ~Requesting(i) /\ marker = "none"
               /\ role[i] # "onboarding"
             => \A j \in Instances : ~(Requesting(j) /\ shown[j] = 2)]_flowVars
  <2> SUFFICES ASSUME PromptInv, FlowNext, NEW i \in Instances,
                      state'[i] = "requesting", ~Requesting(i),
                      marker = "none", role[i] # "onboarding",
                      NEW j \in Instances, Requesting(j), shown[j] = 2
               PROVE  FALSE
    OBVIOUS
  <2>1. /\ lock \in {0, 1} /\ lock # NoLock /\ FlowTypeOK
        /\ \A k \in Instances : reclaim[k] = "idle"
    BY DEF PromptInv, ShownLockIsHeld, NoLock
  <2>2. ASSUME NEW k \in Instances, Probe(k) PROVE FALSE
    <3>1. Settle(k, "none", FALSE, lock)
      BY <2>1, <2>2 DEF Probe
    <3>2. /\ state'[k] = "requesting" /\ role[k] # "onboarding" => FALSE
          /\ \A n \in Instances : n # k => state'[n] = state[n]
      BY <2>1, <3>1, SettleFacts DEF FlowTypeOK
    <3> QED
      BY <3>2 DEF Requesting
  <2>3. ASSUME NEW k \in Instances,
               FindStale(k) \/ PromptTick(k) \/ RemoveStale(k) \/ Recreate(k)
        PROVE  FALSE
    <3>1. state' = state
      BY <2>1, <2>3 DEF FindStale, PromptTick, RemoveStale, Recreate
    <3> QED
      BY <3>1 DEF Requesting
  <2>4. ASSUME NEW k \in Instances, NEW answer \in Answers,
               NEW written \in BOOLEAN, Answer(k, answer, written)
        PROVE  FALSE
    BY <2>1, <2>4 DEF Answer, Requesting, FlowTypeOK, Answers
  <2>5. ASSUME NEW k \in Instances, Close(k) PROVE FALSE
    BY <2>1, <2>5 DEF Close, Requesting, FlowTypeOK
  <2>6. CASE Elapse
    BY <2>6 DEF Elapse, Requesting
  <2> QED
    BY <2>2, <2>3, <2>4, <2>5, <2>6 DEF FlowNext, Open, Tick
<1> QED
  BY <1>1, PromptCorrect, PTL DEF FlowSpec, LivePromptIsKept


-----------------------------------------------------------------------------
(* The pushed statuses                                                     *)

\* Only a question or an outcome is stamped.
StampIsMeant(s) == Stamped(s.row.status) \/ s.row.stamp = 0

\* The wait that `new' shows is that of its own question (WaitIsTheQuestionsOwn,
\* for one row).
WaitIsOwn(old, new) ==
  IF SameQuestion(old, new) THEN new.stamp >= old.stamp ELSE new.stamp = 0

\* The grace clock of a pane has run no longer than the pane was silent.
SuspectIsSilent(s, since) == s.suspect <= since

StatusInv ==
  /\ store = [p \in Panes |-> store[p]]
  /\ silent \in [Panes -> 0..GraceTicks]
  /\ \A p \in Panes : /\ Shaped(store[p])
                      /\ StampIsMeant(store[p])
                      /\ SuspectIsSilent(store[p], silent[p])

\* What the two properties ask of one pane in one step.
PaneKeeps(s, t, since) ==
  /\ Shaped(t) /\ StampIsMeant(t) /\ SuspectIsSilent(t, since)
  /\ WaitIsOwn(s.row, t.row)

\* A row that nothing happens to, and one that is dropped or idled.
LEMMA RestKeeps ==
  ASSUME NEW s, Shaped(s), StampIsMeant(s), NEW since, SuspectIsSilent(s, since)
  PROVE  PaneKeeps(s, s, since)
<1>1. s.row.stamp \in 0..StampCap
  BY DEF Shaped
<1> QED
  BY <1>1 DEF PaneKeeps, WaitIsOwn, SameQuestion, StampIsMeant, StampCap

LEMMA FreshKeeps ==
  ASSUME NEW s, NEW since \in Nat PROVE PaneKeeps(s, FreshStatus, since)
<1>1. /\ FreshStatus.row.status = "absent" /\ FreshStatus.row.stamp = 0
      /\ FreshStatus.suspect = Unsuspected
  BY DEF FreshStatus, NoRow
<1> QED
  BY <1>1, FreshShaped
  DEF PaneKeeps, WaitIsOwn, SameQuestion, StampIsMeant, SuspectIsSilent, Stamped,
      Unsuspected

LEMMA IdleKeeps ==
  ASSUME NEW s, NEW t, Shaped(t), NEW since, SuspectIsSilent(t, since)
  PROVE  PaneKeeps(s, ForceIdle(t), since)
BY IdleFacts
DEF PaneKeeps, WaitIsOwn, SameQuestion, StampIsMeant, SuspectIsSilent, Stamped

\* A payload vouches for the agent; its question is the row's own, or new.
LEMMA ApplyKeeps ==
  ASSUME NEW s, Shaped(s), StampIsMeant(s), NEW p \in Payloads, NEW batch, NEW now
  PROVE  PaneKeeps(s, ApplyPayload(s, p, batch, now), 0)
<1> DEFINE t == ApplyPayload(s, p, batch, now)
<1>1. /\ Shaped(t) /\ t.row.status = p.status /\ t.row.msg = p.msg
      /\ t.row.stamp = IF Stamped(p.status) /\ Identical(s, p) THEN s.row.stamp ELSE 0
      /\ t.suspect = Unsuspected
  BY ApplyFacts
<1>2. s.row.stamp \in 0..StampCap
  BY DEF Shaped
<1> HIDE DEF t
<1>3. WaitIsOwn(s.row, t.row) /\ StampIsMeant(t)
  BY <1>1, <1>2 DEF WaitIsOwn, SameQuestion, Identical, StampIsMeant, StampCap
<1>4. SuspectIsSilent(t, 0)
  BY <1>1 DEF SuspectIsSilent, Unsuspected
<1> QED
  BY <1>1, <1>3, <1>4 DEF PaneKeeps, t

\* The prompt only starts the grace clock of a running row.
LEMMA PromptReturnKeeps ==
  ASSUME NEW s, Shaped(s), StampIsMeant(s),
         NEW since \in Nat, SuspectIsSilent(s, since)
  PROVE  PaneKeeps(s, ClearOnPromptReturn(s), since)
<1>1. CASE s.row.status = "running"
  <2> DEFINE t == [s EXCEPT !.suspect = IF s.suspect = Unsuspected THEN 0 ELSE s.suspect]
  <2>1. t = ClearOnPromptReturn(s)
    BY <1>1 DEF ClearOnPromptReturn
  <2>2. /\ t.row = s.row /\ t.suspect \in {0, s.suspect}
    BY DEF Shaped
  <2>3. Shaped(t)
    BY <2>1, PromptClears
  <2> HIDE DEF t
  <2>4. s.row.stamp \in 0..StampCap
    BY DEF Shaped
  <2> QED
    BY <2>1, <2>2, <2>3, <2>4
    DEF PaneKeeps, WaitIsOwn, SameQuestion, StampIsMeant, SuspectIsSilent, StampCap
<1>2. CASE s.row.status # "running"
  BY <1>2, IdleKeeps, RestKeeps DEF ClearOnPromptReturn
<1> QED
  BY <1>1, <1>2

\* The agent's own foreground report, and its exit, stop the clock.
LEMMA CancelKeeps ==
  ASSUME NEW s, Shaped(s), StampIsMeant(s), NEW since \in Nat
  PROVE  /\ PaneKeeps(s, CancelSuspect(s), since)
         /\ PaneKeeps(s, ClearOnExit(s), since)
<1> DEFINE t == CancelSuspect(s)
<1>1. Shaped(t) /\ t.row = s.row /\ t.suspect = Unsuspected
  BY CancelFacts
<1> HIDE DEF t
<1>2. s.row.stamp \in 0..StampCap
  BY DEF Shaped
<1>3. SuspectIsSilent(t, since)
  BY <1>1 DEF SuspectIsSilent, Unsuspected
<1>4. PaneKeeps(s, t, since)
  BY <1>1, <1>2, <1>3
  DEF PaneKeeps, WaitIsOwn, SameQuestion, StampIsMeant, StampCap
<1>5. PaneKeeps(s, ForceIdle(t), since)
  BY <1>1, <1>3, IdleKeeps
<1> QED
  BY <1>4, <1>5 DEF ClearOnExit, t

\* A tick lets the clock and the silence run on together, and clears a row
\* only once both have run for the grace period.
LEMMA TimerKeeps ==
  ASSUME NEW s, Shaped(s), StampIsMeant(s),
         NEW since \in 0..GraceTicks, SuspectIsSilent(s, since)
  PROVE  LET now == IF since < GraceTicks THEN since + 1 ELSE since
         IN /\ PaneKeeps(s, ExpireStaleRunning(s), now)
            /\ s.row.status = "running" /\ ExpireStaleRunning(s).row.status # "running"
                 => now >= GraceTicks
<1> DEFINE now == IF since < GraceTicks THEN since + 1 ELSE since
           t == RowOlder(s)
<1>1. /\ Shaped(t) /\ t.row.status = s.row.status /\ t.row.msg = s.row.msg
      /\ t.row.stamp = (IF Stamped(s.row.status) /\ s.row.stamp < StampCap
                          THEN s.row.stamp + 1 ELSE s.row.stamp)
      /\ t.suspect = (IF s.suspect = Unsuspected \/ s.suspect = GraceTicks
                        THEN s.suspect ELSE s.suspect + 1)
  BY OlderFacts
<1>2. ExpireStaleRunning(s) =
        IF t.suspect < GraceTicks THEN t
        ELSE IF t.row.status = "running" THEN ForceIdle(CancelSuspect(t))
        ELSE CancelSuspect(t)
  BY DEF ExpireStaleRunning
<1> HIDE DEF t
<1>3. /\ now \in 0..GraceTicks /\ s.row.stamp \in 0..StampCap
      /\ s.suspect \in {Unsuspected} \cup (0..GraceTicks)
      /\ t.suspect \in {Unsuspected} \cup (0..GraceTicks)
      /\ GraceTicks \in Nat
  BY <1>1, StatusPaneAssumption DEF Shaped
<1>4. SuspectIsSilent(t, now)
  BY <1>1, <1>3 DEF SuspectIsSilent, Unsuspected
<1>5. StampIsMeant(t) /\ WaitIsOwn(s.row, t.row)
  BY <1>1, <1>3 DEF StampIsMeant, WaitIsOwn, SameQuestion, StampCap
<1>6. PaneKeeps(s, t, now)
  BY <1>1, <1>4, <1>5 DEF PaneKeeps
<1>7. /\ Shaped(CancelSuspect(t)) /\ CancelSuspect(t).row = t.row
      /\ CancelSuspect(t).suspect = Unsuspected
  BY <1>1, CancelFacts
<1>8. SuspectIsSilent(CancelSuspect(t), now)
  BY <1>3, <1>7 DEF SuspectIsSilent, Unsuspected
<1>9. PaneKeeps(s, CancelSuspect(t), now)
  BY <1>5, <1>7, <1>8 DEF PaneKeeps, StampIsMeant
<1>10. PaneKeeps(s, ForceIdle(CancelSuspect(t)), now)
  BY <1>7, <1>8, IdleKeeps
<1>11. PaneKeeps(s, ExpireStaleRunning(s), now)
  BY <1>2, <1>6, <1>9, <1>10
<1>12. s.row.status = "running" /\ ExpireStaleRunning(s).row.status # "running"
         => now >= GraceTicks
  <2>1. t.suspect < GraceTicks => ExpireStaleRunning(s).row.status = s.row.status
    BY <1>1, <1>2
  <2>2. ~(t.suspect < GraceTicks) => now >= GraceTicks
    BY <1>3, <1>4 DEF SuspectIsSilent, Unsuspected
  <2> QED
    BY <2>1, <2>2
<1> QED
  BY <1>11, <1>12

\* The cap drops a row, or none.
LEMMA EvictKeeps ==
  ASSUME NEW st, st = [p \in Panes |-> st[p]], NEW out \in EvictOverCap(st)
  PROVE  /\ out = [p \in Panes |-> out[p]]
         /\ \A p \in Panes : out[p] = st[p] \/ out[p] = FreshStatus
<1>1. CASE out = st
  BY <1>1
<1>2. CASE \E p \in Oldest(st) : out = [st EXCEPT ![p] = FreshStatus]
  <2>1. PICK p \in Oldest(st) : out = [st EXCEPT ![p] = FreshStatus]
    BY <1>2
  <2>2. out = [q \in Panes |-> IF q = p THEN FreshStatus ELSE st[q]]
    BY <2>1
  <2> QED
    BY <2>2
<1> QED
  BY <1>1, <1>2 DEF EvictOverCap

\* Every step keeps every pane's row, stamp and clock in order.
LEMMA StatusStep ==
  ASSUME StatusInv, Next
  PROVE  /\ StatusInv'
         /\ \A p \in Panes : WaitIsOwn(store[p].row, store'[p].row)
<1> SUFFICES
      /\ store' = [p \in Panes |-> store'[p]]
      /\ silent' \in [Panes -> 0..GraceTicks]
      /\ \A p \in Panes : PaneKeeps(store[p], store'[p], silent'[p])
  BY DEF StatusInv, PaneKeeps
<1>1. /\ GraceTicks \in Nat \ {0} /\ 0 \in 0..GraceTicks
  BY StatusPaneAssumption
<1>2. ASSUME NEW p \in Panes
      PROVE  /\ Shaped(store[p]) /\ StampIsMeant(store[p])
             /\ SuspectIsSilent(store[p], silent[p])
             /\ silent[p] \in 0..GraceTicks /\ silent[p] \in Nat
             /\ PaneKeeps(store[p], store[p], silent[p])
  BY <1>1, <1>2, RestKeeps DEF StatusInv
<1>3. DOMAIN store = Panes
  BY DEF StatusInv
<1>4. ASSUME NEW p \in Panes, NEW payload \in Sent, NEW batch,
             Apply(p, payload, batch)
      PROVE  /\ store' = [q \in Panes |-> store'[q]]
             /\ silent' \in [Panes -> 0..GraceTicks]
             /\ \A q \in Panes : PaneKeeps(store[q], store'[q], silent'[q])
  <2> DEFINE t == ApplyPayload(store[p], payload, batch, 0)
             st == [store EXCEPT ![p] = t]
  <2>1. /\ store' \in EvictOverCap(st)
        /\ silent' = [silent EXCEPT ![p] = 0]
    BY <1>4 DEF Apply
  <2>2. PaneKeeps(store[p], t, 0)
    BY <1>2, ApplyKeeps, StatusStoreAssumption
  <2> HIDE DEF t
  <2>3. /\ st = [q \in Panes |-> st[q]] /\ st[p] = t
        /\ \A q \in Panes : q # p => st[q] = store[q]
    BY <1>3
  <2> HIDE DEF st
  <2>4. /\ store' = [q \in Panes |-> store'[q]]
        /\ \A q \in Panes : store'[q] = st[q] \/ store'[q] = FreshStatus
    BY <2>1, <2>3, EvictKeeps
  <2>5. /\ silent' \in [Panes -> 0..GraceTicks] /\ silent'[p] = 0
        /\ \A q \in Panes : q # p => silent'[q] = silent[q]
    BY <1>1, <2>1 DEF StatusInv
  <2>6. \A q \in Panes : PaneKeeps(store[q], st[q], silent'[q])
    BY <1>2, <2>2, <2>3, <2>5
  <2>7. \A q \in Panes : PaneKeeps(store[q], FreshStatus, silent'[q])
    BY <1>1, <2>5, FreshKeeps
  <2> QED
    BY <2>4, <2>5, <2>6, <2>7
<1>5. ASSUME NEW p \in Panes, NEW s, store' = [store EXCEPT ![p] = s],
             NEW since \in 0..GraceTicks,
             silent' = [silent EXCEPT ![p] = since],
             PaneKeeps(store[p], s, since)
      PROVE  /\ store' = [q \in Panes |-> store'[q]]
             /\ silent' \in [Panes -> 0..GraceTicks]
             /\ \A q \in Panes : PaneKeeps(store[q], store'[q], silent'[q])
  <2>1. /\ store' = [q \in Panes |-> store'[q]] /\ store'[p] = s
        /\ \A q \in Panes : q # p => store'[q] = store[q]
    BY <1>3, <1>5
  <2>2. /\ silent' \in [Panes -> 0..GraceTicks] /\ silent'[p] = since
        /\ \A q \in Panes : q # p => silent'[q] = silent[q]
    BY <1>5 DEF StatusInv
  <2> QED
    BY <1>2, <1>5, <2>1, <2>2
<1>6. ASSUME NEW p \in Panes PROVE silent = [silent EXCEPT ![p] = silent[p]]
  BY DEF StatusInv
<1>7. CASE Timer
  <2>1. /\ store' = [p \in Panes |-> ExpireStaleRunning(store[p])]
        /\ silent' = [p \in Panes |-> IF silent[p] < GraceTicks THEN silent[p] + 1
                                                               ELSE silent[p]]
    BY <1>7 DEF Timer
  <2>2. \A p \in Panes : PaneKeeps(store[p], store'[p], silent'[p])
    BY <1>2, <2>1, TimerKeeps
  <2> QED
    BY <1>1, <1>2, <2>1, <2>2
<1>8. ASSUME NEW p \in Panes, NEW payload \in Sent,
             StatusPipe(p, payload) \/ DeliverHeartbeat(p, payload)
      PROVE  Apply(p, payload, NoBatch)
  BY <1>8 DEF StatusPipe, DeliverHeartbeat
<1>9. ASSUME NEW p \in Panes, SendHeartbeat(p)
      PROVE  UNCHANGED <<store, silent>>
  BY <1>9 DEF SendHeartbeat
<1>10. ASSUME NEW p \in Panes, NEW killed \in BOOLEAN, PromptReturn(p, killed)
       PROVE  /\ store' = [store EXCEPT ![p] = ClearOnPromptReturn(store[p])]
              /\ silent' = silent
  BY <1>10 DEF PromptReturn
<1>11. ASSUME NEW p \in Panes, AgentForeground(p)
       PROVE  /\ store' = [store EXCEPT ![p] = CancelSuspect(store[p])]
              /\ silent' = [silent EXCEPT ![p] = 0]
  BY <1>11 DEF AgentForeground
<1>12. ASSUME NEW p \in Panes, PaneExited(p)
       PROVE  /\ store' = [store EXCEPT ![p] = ClearOnExit(store[p])]
              /\ silent' = silent
  BY <1>12 DEF PaneExited
<1>13. ASSUME NEW live \in SUBSET Panes, Prune(live)
       PROVE  /\ store' = [q \in Panes |-> store'[q]]
              /\ silent' \in [Panes -> 0..GraceTicks]
              /\ \A q \in Panes : PaneKeeps(store[q], store'[q], silent'[q])
  <2>1. /\ store' = [p \in Panes |-> IF p \in live THEN store[p] ELSE FreshStatus]
        /\ silent' = silent
    BY <1>13 DEF Prune
  <2> QED
    BY <1>2, <2>1, FreshKeeps DEF StatusInv
<1>14. CASE \E p \in Panes, payload \in Sent :
              StatusPipe(p, payload) \/ DeliverHeartbeat(p, payload)
  BY <1>4, <1>8, <1>14
<1>15. CASE \E p \in Panes : SendHeartbeat(p)
  BY <1>2, <1>9, <1>15 DEF StatusInv
<1>16. CASE \E p \in Panes, killed \in BOOLEAN : PromptReturn(p, killed)
  <2>1. PICK p \in Panes, killed \in BOOLEAN : PromptReturn(p, killed)
    BY <1>16
  <2>2. PaneKeeps(store[p], ClearOnPromptReturn(store[p]), silent[p])
    BY <1>2, PromptReturnKeeps
  <2>3. silent' = [silent EXCEPT ![p] = silent[p]]
    BY <1>6, <1>10, <2>1
  <2> QED
    BY <1>2, <1>5, <1>10, <2>1, <2>2, <2>3
<1>17. CASE \E p \in Panes : AgentForeground(p) \/ PaneExited(p)
  <2>1. PICK p \in Panes : AgentForeground(p) \/ PaneExited(p)
    BY <1>17
  <2>2. /\ PaneKeeps(store[p], CancelSuspect(store[p]), 0)
        /\ PaneKeeps(store[p], ClearOnExit(store[p]), silent[p])
    BY <1>2, CancelKeeps
  <2>3. CASE AgentForeground(p)
    BY <1>1, <1>5, <1>11, <2>2, <2>3
  <2>4. CASE PaneExited(p)
    <3>1. silent' = [silent EXCEPT ![p] = silent[p]]
      BY <1>6, <1>12, <2>4
    <3> QED
      BY <1>2, <1>5, <1>12, <2>2, <2>4, <3>1
  <2> QED
    BY <2>1, <2>3, <2>4
<1> QED
  BY <1>7, <1>13, <1>14, <1>15, <1>16, <1>17 DEF Next

\* The rows, stamps and grace clocks of a status store are in order.
THEOREM StatusCorrect == Spec => []StatusInv
<1>1. Init => StatusInv
  <2> SUFFICES ASSUME Init PROVE StatusInv
    OBVIOUS
  <2>1. /\ store = [p \in Panes |-> FreshStatus] /\ silent = [p \in Panes |-> 0]
        /\ 0 \in 0..GraceTicks
    BY StatusPaneAssumption DEF Init
  <2>2. PaneKeeps(FreshStatus, FreshStatus, 0)
    BY FreshKeeps
  <2> QED
    BY <2>1, <2>2 DEF StatusInv, PaneKeeps
<1>2. StatusInv /\ [Next]_vars => StatusInv'
  <2>1. CASE UNCHANGED vars
    BY <2>1 DEF vars, StatusInv
  <2> QED
    BY <2>1, StatusStep
<1> QED
  BY <1>1, <1>2, PTL DEF Spec

\* The timer clears a working row only when the pane was silent for the whole
\* grace period, for every period and any order of payloads, flickers and
\* foreground reports.
THEOREM ExpiryNeedsSilenceCorrect == Spec => ExpiryNeedsSilence
<1>1. StatusInv =>
        [\A p \in Panes :
           Timer /\ store[p].row.status = "running"
                 /\ store'[p].row.status # "running"
             => silent'[p] >= GraceTicks]_vars
  <2> SUFFICES ASSUME StatusInv, NEW p \in Panes, Timer,
                      store[p].row.status = "running",
                      store'[p].row.status # "running"
               PROVE  silent'[p] >= GraceTicks
    OBVIOUS
  <2>1. /\ store'[p] = ExpireStaleRunning(store[p])
        /\ silent'[p] = IF silent[p] < GraceTicks THEN silent[p] + 1 ELSE silent[p]
    BY DEF Timer
  <2>2. /\ Shaped(store[p]) /\ StampIsMeant(store[p])
        /\ SuspectIsSilent(store[p], silent[p]) /\ silent[p] \in 0..GraceTicks
    BY DEF StatusInv
  <2> QED
    BY <2>1, <2>2, TimerKeeps
<1> QED
  BY <1>1, StatusCorrect, PTL DEF ExpiryNeedsSilence

\* The wait a card shows is that of the question it shows, whatever repeats,
\* flickers, heartbeats and evictions come between: a repeat never shortens
\* it, and a new question, even one of the same status, starts it afresh.
THEOREM WaitIsTheQuestionsOwnCorrect == Spec => WaitIsTheQuestionsOwn
<1>1. StatusInv /\ [Next]_vars =>
        [\A p \in Panes :
           LET old == store[p].row
               new == store'[p].row
           IN IF SameQuestion(old, new) THEN new.stamp >= old.stamp
                                        ELSE new.stamp = 0]_vars
  BY StatusStep DEF WaitIsOwn
<1> QED
  BY <1>1, StatusCorrect, PTL DEF Spec, WaitIsTheQuestionsOwn
=============================================================================
