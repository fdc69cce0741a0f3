---------------------- MODULE HookAndPresenceProofs ----------------------
(***************************************************************************)
(* The processes that meet the plugin from outside its own timers: the     *)
(* instances that write a session's presence file, and the hook processes  *)
(* an agent starts.                                                        *)
(*                                                                         *)
(* A live session's presence file is never reaped, and shows the view of   *)
(* the token's holder again in bounded time, whatever the constants and    *)
(* however many instances there are.  Both bounds come from the chance to  *)
(* write that each instance has once its stamp is a heartbeat old.  A      *)
(* timer that fires just before then lets it pass, so that the chance is   *)
(* up to two heartbeats away; what is left of them is kept here beside the *)
(* age of the file.                                                        *)
(*                                                                         *)
(* A hook whose agent is not the pane's own reports nothing, and a row     *)
(* with work alive never runs out of its grace, in whatever order the      *)
(* processes run and deliver.                                              *)
(*                                                                         *)
(* A pane at rest shows its last turn end, and the work that was alive     *)
(* then. What the row may not hold as over is kept here: the work alive,   *)
(* and what a hook in flight will yet say runs.                            *)
(*                                                                         *)
(* A scan of the presence files lists every live session and reaps none,   *)
(* whatever the sessions that had its name before it left there.           *)
(***************************************************************************)
EXTENDS MCCrossSession, MCCommandLine, SequenceTheorems, FiniteSetTheorems, TLAPS

\* Where an instance and its timer can be between two steps.
InPlace(i) ==
  /\ AtRest(i) => op[i].kind = "none"
  /\ op[i].at \in {"persist", "write"} => op[i].kind # "none"
  /\ ~Named(i) => AtRest(i)
  /\ Named(i) => fire[i] >= 0
  /\ Named(i) /\ busy[i] => fire[i] <= 1
  /\ Holds(i) => life[i] \in {"named", "closed"}

\* The instance is on its way to try a write.
Owing(i) == op[i].at \in {"take", "persist", "write"} \/ op[i].kind # "none"

\* An instance's last try left the file younger than a rescue asks for, and the
\* timer's next two fires bring the next try.
Young(i) ==
  /\ file.by # Nobody
  /\ stamp[i] < Heartbeat => file.age < Rescue + stamp[i]
  /\ file.age + fire[i] <= Rescue + 2 * (Heartbeat - 1)

Alive(i) == Named(i) /\ ~Owing(i) => Young(i)

\* A write that lost the token since it was decided finds a foreign view that is
\* new, or that has just replaced an old one.
Raced(i) ==
  op[i].at = "write" /\ ~Holds(i)
    => foreign = 0 \/ file.age >= Rescue \/ file.age = 0

\* How long a foreign view can last.
Limit == 4 * Heartbeat - 1

\* When the timer finds the stamp a heartbeat old.
ToBeat(i) == IF stamp[i] + fire[i] >= Heartbeat THEN fire[i]
             ELSE fire[i] + Heartbeat

\* While the timer runs Fast: any heartbeat may skip a write ...
FastAtFirst(i) ==
  foreign + (IF stamp[i] < Heartbeat THEN Heartbeat - stamp[i] ELSE fire[i])
    + 3 * Heartbeat - 1 <= Limit

\* ... but the one after it, a heartbeat later, does not: the file is old enough
\* by then, and too young for another rescue.
FastAfterSkip(i) ==
  /\ stamp[i] <= file.age /\ file.age < stamp[i] + Skip
  /\ stamp[i] + fire[i] <= Heartbeat
  /\ foreign + 3 * Heartbeat - 1 - stamp[i] <= Limit

\* The same on a Slow timer, which is in step with the stamp after one skip.
SlowAtFirst(i) == foreign + ToBeat(i) + Heartbeat <= Limit

SlowAfterSkip(i) ==
  /\ file.age + ToBeat(i) \in Skip..(Rescue - 1)
  /\ foreign + ToBeat(i) <= Limit

Waiting(i) == IF busy[i] THEN FastAtFirst(i) \/ FastAfterSkip(i)
              ELSE SlowAtFirst(i) \/ SlowAfterSkip(i)

\* About to look at the file: the write cannot be skipped, or if it is the wait
\* starts over.
Trying(i) ==
  /\ foreign <= Limit
  /\ \/ op[i].kind = "edge"
     \/ file.age \in Skip..(Rescue - 1)
     \/ /\ stamp[i] = 0
        /\ IF busy[i] THEN fire[i] <= 1 /\ foreign + 3 * Heartbeat - 1 <= Limit
           ELSE fire[i] = Heartbeat /\ foreign + Heartbeat <= Limit

\* The holder's view is in the file, or on its way there.
Fresh(i) ==
  Holds(i) /\ Named(i) =>
    \/ foreign = 0
    \/ AtRest(i) /\ Waiting(i)
    \/ op[i].at = "persist" /\ Trying(i)
    \/ op[i].at = "write" /\ foreign <= Limit

Kept(i) == InPlace(i) /\ Alive(i) /\ Raced(i) /\ Fresh(i)

PresenceInv ==
  /\ TypeOK
  /\ file.by = Nobody => file.age = 0
  /\ \A i \in Rails : Kept(i)

-----------------------------------------------------------------------------

\* The constants are numbers, and their order.
LEMMA Numbers ==
  ASSUME PresenceWriterAssumption
  PROVE  /\ Heartbeat \in Nat /\ Heartbeat >= 1 /\ StampCap = 2 * Heartbeat
         /\ Skip \in Nat /\ 1 <= Skip /\ Skip <= Heartbeat
         /\ Rescue \in Nat /\ Rescue = Heartbeat + Skip
         /\ DeadAfter \in Nat /\ Rescue + 2 * (Heartbeat - 1) <= DeadAfter
         /\ Limit = 4 * Heartbeat - 1
         /\ Nobody \notin Rails
  BY DEF PresenceWriterAssumption, StampCap, Limit, Nobody

\* What the state holds of one instance.
LEMMA TypesOf ==
  ASSUME TypeOK, NEW i \in Rails, PresenceWriterAssumption
  PROVE  /\ fire[i] \in -1..Heartbeat /\ stamp[i] \in 0..StampCap
         /\ lag[i] \in 0..StampCap /\ busy[i] \in BOOLEAN
         /\ op[i].at \in {"idle", "claim", "preempt", "take", "persist", "write"}
         /\ op[i].kind \in {"none", "edge", "beat"}
         /\ op[i] = [at |-> op[i].at, kind |-> op[i].kind]
         /\ file.age \in 0..(DeadAfter + 1) /\ foreign \in 0..(4 * Heartbeat)
         /\ life[i] \in {"unborn", "nameless", "named", "closed"}
  BY DEF TypeOK, Unarmed

\* Arming never lengthens what is left on a timer in flight.
LEMMA ArmedBounds ==
  ASSUME PresenceWriterAssumption, NEW left \in -1..Heartbeat, NEW works \in BOOLEAN
  PROVE  /\ Armed(left, works) \in 0..Heartbeat
         /\ works => Armed(left, works) <= 1
         /\ left >= 0 => Armed(left, works) <= left
         /\ left = -1 => Armed(left, works) = (IF works THEN 1 ELSE Heartbeat)
<1>1. CASE works
  BY <1>1, Numbers DEF Armed, Unarmed
<1>2. CASE ~works
  BY <1>2, Numbers DEF Armed, Unarmed
<1> QED BY <1>1, <1>2

-----------------------------------------------------------------------------
(* The events of one instance.                                             *)

\* project touches its own instance, and leaves the age of the file alone.
LEMMA ProjectEffect ==
  ASSUME PresenceWriterAssumption, TypeOK, NEW i \in Rails,
         NEW claim \in {"none", "claim", "preempt"}, NEW moved \in BOOLEAN,
         NEW works \in BOOLEAN, NEW ago \in 0..StampCap,
         NEW left \in -1..Heartbeat,
         Project(i, claim, moved, works, ago, left)
  PROVE  /\ busy' \in [Rails -> BOOLEAN] /\ fire' \in [Rails -> Unarmed..Heartbeat]
         /\ stamp' \in [Rails -> 0..StampCap] /\ lag' \in [Rails -> 0..StampCap]
         /\ op' \in [Rails -> [at : {"idle", "claim", "preempt", "take", "persist",
                                     "write"},
                               kind : {"none", "edge", "beat"}]]
         /\ file' \in [by : Rails \cup {Nobody}, fresh : BOOLEAN,
                       age : 0..(DeadAfter + 1)]
         /\ file'.by = file.by /\ file'.age = file.age
         /\ \A j \in Rails \ {i} :
              /\ busy'[j] = busy[j] /\ fire'[j] = fire[j]
              /\ stamp'[j] = stamp[j] /\ op'[j] = op[j]
         /\ busy'[i] = works
         /\ fire'[i] = Armed(left, works)
         /\ op'[i].kind = Publishes(moved, stamp[i] - ago)
         /\ stamp'[i] = IF op'[i].kind = "none" THEN stamp[i] ELSE ago
         /\ op'[i].at = IF claim # "none" THEN claim
                        ELSE IF op'[i].kind # "none" THEN "persist" ELSE "idle"
<1> DEFINE due == Publishes(moved, stamp[i] - ago)
<1>1. due \in {"none", "edge", "beat"}
  BY DEF Publishes
<1>2. Armed(left, works) \in -1..Heartbeat
  BY ArmedBounds, Numbers
<1>3. op' = [op EXCEPT ![i] =
               [at |-> IF claim # "none" THEN claim
                       ELSE IF due # "none" THEN "persist" ELSE "idle",
                kind |-> due]]
  BY DEF Project
<1>4. stamp' = [stamp EXCEPT ![i] = IF due = "none" THEN @ ELSE ago]
  BY DEF Project
<1> HIDE DEF due
<1>5. /\ busy' = [busy EXCEPT ![i] = works] /\ lag' = [lag EXCEPT ![i] = ago]
      /\ fire' = [fire EXCEPT ![i] = Armed(left, works)]
      /\ file' = [file EXCEPT !.fresh = @ /\ ~(moved /\ file.by = i)]
  BY DEF Project
<1>6. op'[i].kind = due
  BY <1>3 DEF TypeOK
<1>7. /\ busy' \in [Rails -> BOOLEAN] /\ lag' \in [Rails -> 0..StampCap]
      /\ fire' \in [Rails -> Unarmed..Heartbeat]
      /\ stamp' \in [Rails -> 0..StampCap]
  BY <1>2, <1>4, <1>5 DEF TypeOK, Unarmed
<1>8. op' \in [Rails -> [at : {"idle", "claim", "preempt", "take", "persist", "write"},
                         kind : {"none", "edge", "beat"}]]
  BY <1>1, <1>3 DEF TypeOK
<1>9. /\ file' \in [by : Rails \cup {Nobody}, fresh : BOOLEAN, age : 0..(DeadAfter + 1)]
      /\ file'.by = file.by /\ file'.age = file.age
  <2>1. (file.fresh /\ ~(moved /\ file.by = i)) \in BOOLEAN
    BY DEF TypeOK
  <2> DEFINE fresh == file.fresh /\ ~(moved /\ file.by = i)
  <2>2. file' = [file EXCEPT !.fresh = fresh]
    BY <1>5
  <2> HIDE DEF fresh
  <2> QED BY <2>1, <2>2 DEF TypeOK, fresh
<1>10. op'[i].at = IF claim # "none" THEN claim
                   ELSE IF due # "none" THEN "persist" ELSE "idle"
  BY <1>3 DEF TypeOK
<1>11. /\ stamp'[i] = IF due = "none" THEN stamp[i] ELSE ago
       /\ busy'[i] = works /\ fire'[i] = Armed(left, works)
  BY <1>4, <1>5 DEF TypeOK
<1>12. \A j \in Rails \ {i} :
         /\ busy'[j] = busy[j] /\ fire'[j] = fire[j]
         /\ stamp'[j] = stamp[j] /\ op'[j] = op[j]
  BY <1>3, <1>4, <1>5 DEF TypeOK
<1> QED BY <1>6, <1>7, <1>8, <1>9, <1>10, <1>11, <1>12 DEF due

\* An instance that a step leaves alone, with the age of the file and the token,
\* keeps its part.
LEMMA Untouched ==
  ASSUME NEW j \in Rails, Kept(j),
         life'[j] = life[j], busy'[j] = busy[j], fire'[j] = fire[j],
         stamp'[j] = stamp[j], op'[j] = op[j],
         token'.by = token.by, file'.by = file.by, file'.age = file.age,
         foreign' = foreign \/ foreign' = 0
  PROVE  Kept(j)'
<1>1. InPlace(j)'
  BY DEF Kept, InPlace, AtRest, Named, Holds
<1>2. Alive(j)'
  BY DEF Kept, Alive, Young, Owing, Named
<1>3. Raced(j)'
  BY DEF Kept, Raced, Holds
<1>4. Fresh(j)'
  <2>1. CASE foreign' = 0
    BY <2>1 DEF Fresh
  <2>2. CASE foreign' = foreign
    BY <2>2 DEF Kept, Fresh, Holds, Named, AtRest, Waiting, FastAtFirst,
                FastAfterSkip, SlowAtFirst, SlowAfterSkip, ToBeat, Trying
  <2> QED BY <2>1, <2>2
<1> QED BY <1>1, <1>2, <1>3, <1>4 DEF Kept

\* Every event but the timer's: the holder begins a new silence.
LEMMA EventKeeps ==
  ASSUME PresenceWriterAssumption, PresenceInv, NEW i \in Rails,
         NEW claim \in {"none", "claim", "preempt"}, NEW moved \in BOOLEAN,
         NEW works \in BOOLEAN, NEW ago \in 0..StampCap,
         NEW left \in -1..Heartbeat,
         AtRest(i), Project(i, claim, moved, works, ago, left),
         \/ Named(i) /\ left = fire[i] /\ life' = life
         \/ life[i] = "nameless" /\ moved /\ life' = [life EXCEPT ![i] = "named"],
         hidden' \in [Rails -> BOOLEAN], token' = token, Disturbed(i)
  PROVE  PresenceInv'
<1>1. TypeOK' /\ file'.by = file.by /\ file'.age = file.age
  <2>1. life' \in [Rails -> {"unborn", "nameless", "named", "closed"}]
    BY DEF PresenceInv, TypeOK
  <2>2. foreign' \in 0..(4 * Heartbeat)
    BY Numbers DEF PresenceInv, TypeOK, Disturbed
  <2>3. TypeOK
    BY DEF PresenceInv
  <2>4. /\ busy' \in [Rails -> BOOLEAN] /\ fire' \in [Rails -> Unarmed..Heartbeat]
        /\ stamp' \in [Rails -> 0..StampCap] /\ lag' \in [Rails -> 0..StampCap]
        /\ op' \in [Rails -> [at : {"idle", "claim", "preempt", "take", "persist",
                                    "write"},
                              kind : {"none", "edge", "beat"}]]
        /\ file' \in [by : Rails \cup {Nobody}, fresh : BOOLEAN,
                      age : 0..(DeadAfter + 1)]
        /\ file'.by = file.by /\ file'.age = file.age
    BY <2>3, ProjectEffect
  <2>5. token' \in [by : Rails \cup {Nobody}, young : BOOLEAN]
    BY <2>3 DEF TypeOK
  <2> QED BY <2>1, <2>2, <2>4, <2>5 DEF TypeOK
<1>2. \A j \in Rails \ {i} : Kept(j)'
  <2> TAKE j \in Rails \ {i}
  <2>1. life'[j] = life[j]
    BY DEF PresenceInv, TypeOK
  <2>2. /\ busy'[j] = busy[j] /\ fire'[j] = fire[j]
        /\ stamp'[j] = stamp[j] /\ op'[j] = op[j]
    BY ProjectEffect DEF PresenceInv
  <2>3. foreign' = foreign \/ foreign' = 0
    BY DEF Disturbed
  <2>4. Kept(j)
    BY DEF PresenceInv
  <2> QED BY <1>1, <2>1, <2>2, <2>3, <2>4, Untouched
<1>3. Kept(i)'
  <2>1. life'[i] = "named"
    BY DEF PresenceInv, TypeOK, Named
  <2>2. /\ busy'[i] = works
        /\ fire'[i] = Armed(left, works)
        /\ op'[i].kind = Publishes(moved, stamp[i] - ago)
        /\ stamp'[i] = IF op'[i].kind = "none" THEN stamp[i] ELSE ago
        /\ op'[i].at = IF claim # "none" THEN claim
                       ELSE IF op'[i].kind # "none" THEN "persist" ELSE "idle"
    BY ProjectEffect DEF PresenceInv
  <2>3. fire'[i] \in 0..Heartbeat /\ (works => fire'[i] <= 1)
    BY <2>2, ArmedBounds
  <2>4. Kept(i)
    BY DEF PresenceInv
  <2>5. InPlace(i)'
    BY <2>1, <2>2, <2>3, Numbers DEF InPlace, AtRest, Named, Holds
  <2>6. Alive(i)'
    <3> SUFFICES ASSUME op'[i].kind = "none"
                 PROVE  Young(i)'
      BY DEF Alive, Owing
    <3>1. Named(i) /\ left = fire[i] /\ ~moved
      BY <2>2 DEF Publishes
    <3>2. Young(i)
      BY <2>4, <3>1 DEF Kept, Alive, InPlace, AtRest, Owing
    <3>3. fire[i] >= 0 /\ fire'[i] <= fire[i]
      BY <2>2, <2>4, <3>1, ArmedBounds DEF Kept, InPlace
    <3>4. fire[i] \in -1..Heartbeat /\ file.age \in 0..(DeadAfter + 1)
      BY TypesOf DEF PresenceInv
    <3> QED BY <1>1, <2>2, <2>3, <3>2, <3>3, <3>4, Numbers DEF Young
  <2>7. Raced(i)'
    BY <2>2 DEF Raced
  <2>8. Fresh(i)'
    <3> SUFFICES ASSUME Holds(i)' PROVE foreign' = 0
      BY DEF Fresh
    <3> QED BY DEF Holds, Disturbed
  <2> QED BY <2>5, <2>6, <2>7, <2>8 DEF Kept
<1>4. (file.by = Nobody => file.age = 0)'
  BY <1>1 DEF PresenceInv
<1> QED BY <1>1, <1>2, <1>3, <1>4 DEF PresenceInv

\* The timer's event: what the holder still waits for grows no longer.
LEMMA TimerKeeps ==
  ASSUME PresenceWriterAssumption, PresenceInv, NEW i \in Rails,
         NEW moved \in BOOLEAN, Timer(i, moved)
  PROVE  PresenceInv'
<1>1. PICK works \in {busy[i], FALSE} : Project(i, "none", moved, works, 0, Unarmed)
  BY DEF Timer
<1>2. TypeOK /\ works \in BOOLEAN /\ 0 \in 0..StampCap /\ Unarmed \in -1..Heartbeat
  <2>1. TypeOK /\ busy[i] \in BOOLEAN
    BY DEF PresenceInv, TypeOK
  <2>2. 0 \in 0..StampCap /\ Unarmed \in -1..Heartbeat
    BY Numbers DEF Unarmed
  <2> QED BY <1>1, <2>1, <2>2
<1>3. /\ busy' \in [Rails -> BOOLEAN] /\ fire' \in [Rails -> Unarmed..Heartbeat]
      /\ stamp' \in [Rails -> 0..StampCap] /\ lag' \in [Rails -> 0..StampCap]
      /\ op' \in [Rails -> [at : {"idle", "claim", "preempt", "take", "persist",
                                  "write"},
                            kind : {"none", "edge", "beat"}]]
      /\ file' \in [by : Rails \cup {Nobody}, fresh : BOOLEAN,
                    age : 0..(DeadAfter + 1)]
      /\ file'.by = file.by /\ file'.age = file.age
  BY <1>1, <1>2, ProjectEffect
<1>4. TypeOK'
  BY <1>2, <1>3 DEF TypeOK, Timer
<1>5. \A j \in Rails \ {i} : Kept(j)'
  <2> TAKE j \in Rails \ {i}
  <2>1. /\ busy'[j] = busy[j] /\ fire'[j] = fire[j]
        /\ stamp'[j] = stamp[j] /\ op'[j] = op[j]
    BY <1>1, <1>2, ProjectEffect
  <2>2. Kept(j)
    BY DEF PresenceInv
  <2> QED BY <1>3, <2>1, <2>2, Untouched DEF Timer
<1>6. Kept(i)'
  <2>1. Kept(i) /\ Named(i) /\ AtRest(i) /\ fire[i] = 0 /\ op[i].kind = "none"
    BY DEF PresenceInv, Timer, Kept, InPlace
  <2>2. life' = life /\ token' = token /\ foreign' = foreign
    BY DEF Timer
  <2>3. /\ busy'[i] = works
        /\ fire'[i] = Armed(Unarmed, works)
        /\ op'[i].kind = Publishes(moved, stamp[i])
        /\ stamp'[i] = IF op'[i].kind = "none" THEN stamp[i] ELSE 0
        /\ op'[i].at = IF op'[i].kind # "none" THEN "persist" ELSE "idle"
    <3>1. stamp[i] - 0 = stamp[i]
      BY <1>2, Numbers DEF TypeOK
    <3> QED BY <1>1, <1>2, <3>1, ProjectEffect
  <2>4. fire'[i] = IF works THEN 1 ELSE Heartbeat
    BY <1>2, <2>3, ArmedBounds, Numbers DEF Unarmed
  <2>5. /\ stamp[i] \in 0..(2 * Heartbeat) /\ file.age \in 0..(DeadAfter + 1)
        /\ foreign \in 0..(4 * Heartbeat)
    BY <1>2, TypesOf, Numbers
  <2>6. works => busy[i]
    BY <1>1
  <2>7. CASE op'[i].kind = "none"
    <3>1. op'[i].at = "idle" /\ stamp'[i] = stamp[i] /\ stamp[i] < Heartbeat
      BY <2>3, <2>5, <2>7, Numbers DEF Publishes
    <3>2. InPlace(i)'
      BY <2>1, <2>2, <2>3, <2>4, <2>7, <3>1, Numbers DEF InPlace, AtRest, Named, Holds, Kept
    <3>3. Young(i)
      BY <2>1 DEF Kept, Alive, Owing, AtRest
    <3>4. Alive(i)'
      BY <1>3, <2>4, <2>5, <3>1, <3>3, Numbers DEF Young, Alive
    <3>5. Raced(i)'
      BY <3>1 DEF Raced
    <3>6. Fresh(i)'
      <4> SUFFICES ASSUME Holds(i), foreign # 0
                   PROVE  Waiting(i)'
        BY <2>2, <3>1 DEF Fresh, Holds, AtRest
      <4>1. Waiting(i)
        BY <2>1 DEF Kept, Fresh, AtRest
      <4>2. CASE works
        <5>1. busy[i] /\ busy'[i]
          BY <2>3, <2>6, <4>2
        <5>2. FastAtFirst(i) => FastAtFirst(i)'
          BY <2>2, <2>5, <3>1 DEF FastAtFirst, Limit
        <5>3. FastAfterSkip(i) => FastAfterSkip(i)'
          BY <1>3, <2>2, <2>4, <2>5, <3>1, <4>2, Numbers DEF FastAfterSkip, Limit
        <5> QED BY <4>1, <5>1, <5>2, <5>3 DEF Waiting
      <4>3. CASE busy[i] /\ ~works
        <5>1. SlowAtFirst(i)'
          BY <2>1, <2>2, <2>3, <2>4, <2>5, <3>1, <4>1, <4>3, Numbers
             DEF Waiting, FastAtFirst, FastAfterSkip, SlowAtFirst, ToBeat
        <5> QED BY <2>3, <4>3, <5>1 DEF Waiting
      <4>4. CASE ~busy[i]
        <5>1. ~works
          BY <2>6, <4>4
        <5>2. ToBeat(i)' = ToBeat(i)
          BY <2>1, <2>4, <2>5, <3>1, <5>1, Numbers DEF ToBeat
        <5> QED BY <1>3, <2>2, <2>3, <4>1, <4>4, <5>1, <5>2
                DEF Waiting, SlowAtFirst, SlowAfterSkip
      <4> QED BY <1>2, <4>2, <4>3, <4>4
    <3> QED BY <3>2, <3>4, <3>5, <3>6 DEF Kept
  <2>8. CASE op'[i].kind # "none"
    <3>1. op'[i].at = "persist" /\ stamp'[i] = 0
      BY <2>3, <2>8
    <3>2. InPlace(i)'
      BY <2>1, <2>2, <2>3, <2>4, <2>8, <3>1, Numbers DEF InPlace, AtRest, Named, Holds, Kept
    <3>3. Alive(i)' /\ Raced(i)'
      BY <3>1 DEF Alive, Owing, Raced
    <3>4. Fresh(i)'
      <4> SUFFICES ASSUME Holds(i), foreign # 0
                   PROVE  Trying(i)'
        BY <2>2, <3>1 DEF Fresh, Holds
      <4>1. Waiting(i)
        BY <2>1 DEF Kept, Fresh, AtRest
      <4>2. foreign <= Limit
        BY <2>1, <2>5, <4>1, Numbers
           DEF Waiting, FastAtFirst, FastAfterSkip, SlowAtFirst, SlowAfterSkip, ToBeat
      <4>3. CASE op'[i].kind = "edge"
        BY <2>2, <4>2, <4>3 DEF Trying, Limit
      <4>4. CASE op'[i].kind # "edge"
        <5>1. stamp[i] >= Heartbeat
          BY <2>3, <2>8, <4>4 DEF Publishes
        <5>2. CASE busy[i] /\ FastAtFirst(i)
          <6>1. foreign + 3 * Heartbeat - 1 <= Limit
            BY <2>1, <2>5, <5>1, <5>2, Numbers DEF FastAtFirst
          <6>2. foreign + Heartbeat <= Limit
            BY <2>5, <6>1, Numbers
          <6> QED BY <2>2, <2>3, <2>4, <3>1, <4>2, <6>1, <6>2 DEF Trying, Limit
        <5>3. CASE busy[i] /\ FastAfterSkip(i)
          <6>1. file.age \in Skip..(Rescue - 1)
            BY <2>1, <2>5, <5>1, <5>3, Numbers DEF FastAfterSkip
          <6> QED BY <1>3, <2>2, <4>2, <6>1 DEF Trying, Limit
        <5>4. CASE ~busy[i] /\ SlowAtFirst(i)
          <6>1. foreign + Heartbeat <= Limit
            BY <2>1, <2>5, <5>1, <5>4, Numbers DEF SlowAtFirst, ToBeat
          <6> QED BY <2>2, <2>3, <2>4, <2>6, <3>1, <4>2, <5>4, <6>1 DEF Trying, Limit
        <5>5. CASE ~busy[i] /\ SlowAfterSkip(i)
          <6>1. file.age \in Skip..(Rescue - 1)
            BY <2>1, <2>5, <5>1, <5>5, Numbers DEF SlowAfterSkip, ToBeat
          <6> QED BY <1>3, <2>2, <4>2, <6>1 DEF Trying, Limit
        <5> QED BY <4>1, <5>2, <5>3, <5>4, <5>5 DEF Waiting
      <4> QED BY <4>3, <4>4
    <3> QED BY <3>2, <3>3, <3>4 DEF Kept
  <2> QED BY <2>7, <2>8
<1>7. (file.by = Nobody => file.age = 0)'
  BY <1>3 DEF PresenceInv
<1> QED BY <1>4, <1>5, <1>6, <1>7 DEF PresenceInv

\* The other events change neither the token nor the files, and leave an
\* instance that is at rest and has nothing to keep alive.
LEMMA RestKeeps ==
  ASSUME PresenceWriterAssumption, PresenceInv, NEW i \in Rails, AtRest(i),
         NEW l \in {"unborn", "nameless", "named", "closed"},
         life' = [life EXCEPT ![i] = l],
         (l = life[i] /\ UNCHANGED <<busy, fire, stamp>>) \/ l # "named",
         Holds(i) => l \in {"named", "closed"},
         TypeOK',
         \A j \in Rails \ {i} : /\ busy'[j] = busy[j] /\ fire'[j] = fire[j]
                                /\ stamp'[j] = stamp[j],
         op' = op, token' = token, file' = file, foreign' = foreign \/ foreign' = 0
  PROVE  PresenceInv'
<1>1. \A j \in Rails \ {i} : Kept(j)'
  <2> TAKE j \in Rails \ {i}
  <2>1. life'[j] = life[j]
    BY DEF PresenceInv, TypeOK
  <2>2. Kept(j)
    BY DEF PresenceInv
  <2> QED BY <2>1, <2>2, Untouched
<1>2. Kept(i)'
  <2>1. Kept(i) /\ life'[i] = l
    BY DEF PresenceInv, TypeOK
  <2>2. CASE l = life[i] /\ UNCHANGED <<busy, fire, stamp>>
    BY <2>1, <2>2, Untouched
  <2>3. CASE l # "named"
    BY <2>1, <2>3 DEF Kept, InPlace, Alive, Raced, Fresh, AtRest, Named, Holds
  <2> QED BY <2>2, <2>3
<1> QED BY <1>1, <1>2 DEF PresenceInv

\* Each event of an instance.
LEMMA EventStep ==
  ASSUME PresenceWriterAssumption, PresenceInv, NEW i \in Rails, Event(i)
  PROVE  PresenceInv'
<1>1. /\ TypeOK /\ Kept(i) /\ fire[i] \in -1..Heartbeat
      /\ lag[i] \in 0..StampCap /\ busy[i] \in BOOLEAN /\ 0 \in 0..StampCap
  <2>1. TypeOK /\ Kept(i)
    BY DEF PresenceInv
  <2>2. 0 \in 0..StampCap
    BY Numbers
  <2> QED BY <2>1, <2>2, TypesOf
<1>2. ASSUME Load(i) PROVE PresenceInv'
  <2>1. TypeOK'
    BY <1>1, <1>2 DEF Load, TypeOK
  <2>2. AtRest(i) /\ ~Holds(i)
    BY <1>1, <1>2 DEF Load, Kept, InPlace, Named
  <2> QED BY <1>2, <2>1, <2>2, RestKeeps DEF Load
<1>3. ASSUME LearnName(i) PROVE PresenceInv'
  <2>1. PICK works \in BOOLEAN, left \in Unarmed..Heartbeat :
          Project(i, IF hidden[i] THEN "none" ELSE "preempt", TRUE, works, lag[i], left)
    BY <1>3 DEF LearnName
  <2>2. Disturbed(i) /\ hidden' \in [Rails -> BOOLEAN] /\ left \in -1..Heartbeat
    BY <1>1, <1>3, <2>1 DEF LearnName, Disturbed, Kept, InPlace, TypeOK, Unarmed
  <2>3. (IF hidden[i] THEN "none" ELSE "preempt") \in {"none", "claim", "preempt"}
    OBVIOUS
  <2> QED BY <1>1, <1>3, <2>1, <2>2, <2>3, EventKeeps DEF LearnName
<1>4. ASSUME Hide(i) PROVE PresenceInv'
  <2>1. TypeOK'
    BY <1>1, <1>4 DEF Hide, TypeOK
  <2>2. life' = [life EXCEPT ![i] = life[i]] /\ life[i] \in {"unborn", "nameless", "named", "closed"}
    BY <1>1, <1>4 DEF Hide, TypeOK
  <2>3. Holds(i) => life[i] \in {"named", "closed"}
    BY <1>1 DEF Kept, InPlace
  <2> QED BY <1>4, <2>1, <2>2, <2>3, RestKeeps DEF Hide
<1>5. ASSUME Reveal(i) PROVE PresenceInv'
  <2>1. hidden' \in [Rails -> BOOLEAN] /\ AtRest(i) /\ token' = token /\ life' = life
        /\ Disturbed(i)
    BY <1>1, <1>5 DEF Reveal, TypeOK
  <2>2. CASE Named(i)
    <3>1. Project(i, "preempt", FALSE, busy[i], lag[i], fire[i])
      BY <1>5, <2>2 DEF Reveal
    <3> QED BY <1>1, <2>1, <2>2, <3>1, EventKeeps
  <2>3. CASE ~Named(i)
    <3>1. UNCHANGED <<busy, fire, stamp, lag, op, file>>
      BY <1>5, <2>3 DEF Reveal
    <3>2. foreign' \in 0..(4 * Heartbeat) /\ (foreign' = foreign \/ foreign' = 0)
      BY <1>1, <2>1, Numbers DEF Disturbed, TypeOK
    <3>3. TypeOK'
      BY <1>1, <2>1, <3>1, <3>2 DEF TypeOK
    <3>4. life' = [life EXCEPT ![i] = life[i]] /\ life[i] \in {"unborn", "nameless", "named", "closed"}
      BY <1>1, <2>1 DEF TypeOK
    <3>5. Holds(i) => life[i] \in {"named", "closed"}
      BY <1>1 DEF Kept, InPlace
    <3> QED BY <2>1, <3>1, <3>2, <3>3, <3>4, <3>5, RestKeeps
  <2> QED BY <2>2, <2>3
<1>6. ASSUME Unload(i) PROVE PresenceInv'
  <2>1. TypeOK'
    <3>1. Unarmed \in Unarmed..Heartbeat /\ StampCap \in 0..StampCap
      BY Numbers DEF Unarmed
    <3> QED BY <1>1, <1>6, <3>1 DEF Unload, TypeOK
  <2>2. \A j \in Rails \ {i} : /\ busy'[j] = busy[j] /\ fire'[j] = fire[j]
                               /\ stamp'[j] = stamp[j]
    BY <1>1, <1>6 DEF Unload, TypeOK
  <2> QED BY <1>6, <2>1, <2>2, RestKeeps DEF Unload
<1>7. ASSUME NEW moved \in BOOLEAN, Timer(i, moved) PROVE PresenceInv'
  BY <1>7, TimerKeeps
<1>8. ASSUME NEW moved \in BOOLEAN, Relearns(i, moved) PROVE PresenceInv'
  <2>1. hidden' \in [Rails -> BOOLEAN]
    BY <1>1, <1>8 DEF TypeOK, Relearns
  <2> QED BY <1>1, <1>8, <2>1, EventKeeps DEF Relearns
<1>9. ASSUME NEW moved \in BOOLEAN, NEW works \in BOOLEAN, Hears(i, moved, works)
      PROVE  PresenceInv'
  <2>1. hidden' \in [Rails -> BOOLEAN]
    BY <1>1, <1>9 DEF TypeOK, Hears
  <2> QED BY <1>1, <1>9, <2>1, EventKeeps DEF Hears
<1>10. ASSUME NEW moved \in BOOLEAN, NEW works \in BOOLEAN, Manifest(i, moved, works)
       PROVE  PresenceInv'
  <2>1. hidden' \in [Rails -> BOOLEAN] /\ AtRest(i) /\ token' = token /\ life' = life
        /\ Disturbed(i)
    BY <1>1, <1>10 DEF Manifest, TypeOK
  <2>2. CASE Named(i)
    <3>1. Project(i, "claim", moved, works, 0, fire[i])
      BY <1>10, <2>2 DEF Manifest
    <3> QED BY <1>1, <2>1, <2>2, <3>1, EventKeeps
  <2>3. CASE ~Named(i)
    <3>1. UNCHANGED <<busy, fire, stamp, op, file>> /\ lag' = [lag EXCEPT ![i] = 0]
      BY <1>10, <2>3 DEF Manifest
    <3>2. foreign' \in 0..(4 * Heartbeat) /\ (foreign' = foreign \/ foreign' = 0)
      BY <1>1, <2>1, Numbers DEF Disturbed, TypeOK
    <3>3. TypeOK'
      BY <1>1, <2>1, <3>1, <3>2 DEF TypeOK
    <3>4. life' = [life EXCEPT ![i] = life[i]] /\ life[i] \in {"unborn", "nameless", "named", "closed"}
      BY <1>1, <2>1 DEF TypeOK
    <3>5. Holds(i) => life[i] \in {"named", "closed"}
      BY <1>1 DEF Kept, InPlace
    <3> QED BY <2>1, <3>1, <3>2, <3>3, <3>4, <3>5, RestKeeps
  <2> QED BY <2>2, <2>3
<1> QED BY <1>2, <1>3, <1>4, <1>5, <1>6, <1>7, <1>8, <1>9, <1>10 DEF Event

-----------------------------------------------------------------------------
(* The effects of a handler, and time.                                     *)

\* The claim decides between the token and the write; it changes no file.
LEMMA ClaimStep ==
  ASSUME PresenceWriterAssumption, PresenceInv, NEW i \in Rails, Claim(i)
  PROVE  PresenceInv'
<1> DEFINE new == IF TakesToken(i, op[i].at = "preempt")
                  THEN [op[i] EXCEPT !.at = "take"] ELSE ToPersist(op[i].kind)
<1>1. /\ TypeOK /\ Kept(i) /\ op[i].at \in {"claim", "preempt"}
      /\ op[i].kind \in {"none", "edge", "beat"}
      /\ op[i] = [at |-> op[i].at, kind |-> op[i].kind]
  BY TypesOf DEF PresenceInv, Claim
<1>2. /\ new.at \in {"idle", "take", "persist"} /\ new.kind = op[i].kind
      /\ new = [at |-> new.at, kind |-> new.kind]
      /\ new.at = "idle" => op[i].kind = "none"
      /\ new.at = "persist" => op[i].kind # "none"
      /\ new.at = "take" => ~Holds(i)
  BY <1>1 DEF ToPersist, TakesToken
<1>3. op' = [op EXCEPT ![i] = new]
  BY DEF Claim
<1> HIDE DEF new
<1>4. TypeOK'
  BY <1>1, <1>2, <1>3 DEF TypeOK, Claim
<1>5. op'[i] = new /\ \A j \in Rails \ {i} : op'[j] = op[j]
  BY <1>1, <1>3 DEF TypeOK
<1>6. \A j \in Rails \ {i} : Kept(j)'
  BY <1>5, Untouched DEF PresenceInv, Claim
<1>7. Kept(i)'
  <2>1. Named(i)
    BY <1>1 DEF Kept, InPlace, AtRest
  <2>2. InPlace(i)'
    BY <1>1, <1>2, <1>5, <2>1 DEF Kept, InPlace, AtRest, Named, Holds, Claim
  <2>3. Alive(i)'
    BY <1>1, <1>2, <1>5 DEF Kept, Alive, Owing, Young, Claim, Named
  <2>4. Raced(i)'
    BY <1>2, <1>5 DEF Raced
  <2>5. Fresh(i)'
    BY <1>1 DEF Kept, Fresh, AtRest, Holds, Named, Claim
  <2> QED BY <2>2, <2>3, <2>4, <2>5 DEF Kept
<1> QED BY <1>4, <1>6, <1>7 DEF PresenceInv, Claim

\* Whoever takes the token begins with a clean slate.
LEMMA TakeStep ==
  ASSUME PresenceWriterAssumption, PresenceInv, NEW i \in Rails, Take(i)
  PROVE  PresenceInv'
<1>1. TypeOK /\ Kept(i) /\ op[i].at = "take" /\ lag[i] \in 0..StampCap
  BY TypesOf DEF PresenceInv, Take
<1>2. op' = [op EXCEPT ![i] = [at |-> "persist", kind |-> "edge"]]
  BY DEF Take, ToPersist
<1>3. /\ op'[i] = [at |-> "persist", kind |-> "edge"]
      /\ token'.by = i /\ foreign' = 0
      /\ \A j \in Rails \ {i} : op'[j] = op[j] /\ stamp'[j] = stamp[j]
  BY <1>1, <1>2 DEF TypeOK, Take
<1>4. TypeOK'
  BY <1>1, <1>2, Numbers DEF TypeOK, Take
<1>5. \A j \in Rails : Raced(j)' /\ Fresh(j)'
  BY <1>3 DEF Raced, Fresh
<1>6. InPlace(i)' /\ Alive(i)'
  BY <1>1, <1>3 DEF Kept, InPlace, Alive, Owing, AtRest, Named, Holds, Take
<1>7. ASSUME NEW j \in Rails \ {i} PROVE InPlace(j)' /\ Alive(j)'
  <2>1. Kept(j)
    BY DEF PresenceInv
  <2> QED BY <1>3, <2>1
          DEF Kept, InPlace, Alive, Owing, Young, AtRest, Named, Holds, Take
<1> QED BY <1>4, <1>5, <1>6, <1>7 DEF PresenceInv, Kept, Take

\* A write passed over leaves a young file; the holder passes one over only if
\* another instance has just written.
LEMMA PersistStep ==
  ASSUME PresenceWriterAssumption, PresenceInv, NEW i \in Rails, Persist(i)
  PROVE  PresenceInv'
<1>1. /\ TypeOK /\ Kept(i) /\ op[i].at = "persist" /\ op[i].kind \in {"edge", "beat"}
      /\ op[i] = [at |-> op[i].at, kind |-> op[i].kind]
      /\ stamp[i] \in 0..(2 * Heartbeat) /\ fire[i] \in -1..Heartbeat
      /\ file.age \in 0..(DeadAfter + 1) /\ foreign \in 0..(4 * Heartbeat)
  <2>1. TypeOK /\ Kept(i) /\ op[i].at = "persist"
    BY DEF PresenceInv, Persist
  <2>2. op[i].kind # "none"
    BY <2>1 DEF Kept, InPlace
  <2> QED BY <2>1, <2>2, TypesOf, Numbers
<1>2. Named(i) /\ fire[i] >= 0 /\ (busy[i] => fire[i] <= 1)
  BY <1>1 DEF Kept, InPlace, AtRest
<1> DEFINE skipped == file.by # Nobody /\ file.age < MinAge(i, op[i].kind)
<1> DEFINE new == IF skipped THEN Quiet ELSE [op[i] EXCEPT !.at = "write"]
<1>3. op' = [op EXCEPT ![i] = new]
  BY DEF Persist
<1>4. /\ skipped => new = [at |-> "idle", kind |-> "none"]
      /\ ~skipped => new = [at |-> "write", kind |-> op[i].kind]
  BY <1>1 DEF Quiet
<1> HIDE DEF new
<1>5. TypeOK'
  BY <1>1, <1>3, <1>4 DEF TypeOK, Persist
<1>6. op'[i] = new /\ \A j \in Rails \ {i} : op'[j] = op[j]
  BY <1>1, <1>3 DEF TypeOK
<1>7. \A j \in Rails \ {i} : Kept(j)'
  BY <1>6, Untouched DEF PresenceInv, Persist
<1>8. InPlace(i)'
  BY <1>1, <1>2, <1>4, <1>6 DEF Kept, InPlace, AtRest, Named, Holds, Persist
<1>9. CASE skipped
  <2>1. file.by # Nobody /\ file.age < Rescue
    BY <1>1, <1>9, Numbers DEF MinAge
  <2>2. Young(i)
    BY <1>1, <2>1, Numbers DEF Young
  <2>3. Alive(i)' /\ Raced(i)'
    BY <1>4, <1>6, <1>9, <2>2 DEF Alive, Owing, Raced, Young, Persist
  <2>4. ASSUME Holds(i), foreign # 0
        PROVE  Waiting(i)
    <3>1. Trying(i)
      BY <1>1, <1>2, <2>4 DEF Kept, Fresh, AtRest
    <3>2. op[i].kind # "edge" /\ file.age < Skip
      BY <1>1, <1>9, <2>4 DEF MinAge
    <3>3. /\ stamp[i] = 0
          /\ IF busy[i] THEN fire[i] <= 1 /\ foreign + 3 * Heartbeat - 1 <= Limit
             ELSE fire[i] = Heartbeat /\ foreign + Heartbeat <= Limit
      BY <1>1, <3>1, <3>2, Numbers DEF Trying
    <3>4. CASE busy[i]
      <4>1. FastAfterSkip(i)
        BY <1>1, <1>2, <3>2, <3>3, <3>4, Numbers DEF FastAfterSkip
      <4> QED BY <3>4, <4>1 DEF Waiting
    <3>5. CASE ~busy[i]
      <4>1. ToBeat(i) = Heartbeat
        BY <3>3, <3>5, Numbers DEF ToBeat
      <4>2. SlowAfterSkip(i)
        BY <1>1, <3>2, <3>3, <3>5, <4>1, Numbers DEF SlowAfterSkip
      <4> QED BY <3>5, <4>2 DEF Waiting
    <3> QED BY <3>4, <3>5
  <2>5. Fresh(i)'
    <3> SUFFICES ASSUME Holds(i), foreign # 0
                 PROVE  Waiting(i)'
      BY <1>4, <1>6, <1>9 DEF Fresh, Holds, AtRest, Persist
    <3>1. Waiting(i)
      BY <2>4
    <3> QED BY <3>1 DEF Waiting, FastAtFirst, FastAfterSkip, SlowAtFirst,
                        SlowAfterSkip, ToBeat, Limit, Persist
  <2> QED BY <1>5, <1>7, <1>8, <2>3, <2>5 DEF PresenceInv, Kept, Persist
<1>10. CASE ~skipped
  <2>1. op'[i] = [at |-> "write", kind |-> op[i].kind]
    BY <1>4, <1>6, <1>10
  <2>2. Alive(i)'
    BY <2>1 DEF Alive, Owing
  <2>3. Raced(i)'
    <3>1. file.by = Nobody \/ file.age >= MinAge(i, op[i].kind)
      <4>1. MinAge(i, op[i].kind) \in Nat
        BY <1>1, Numbers DEF MinAge
      <4> QED BY <1>1, <1>10, <4>1
    <3>2. ~Holds(i) => file.age >= Rescue \/ file.age = 0
      BY <3>1 DEF PresenceInv, MinAge
    <3> QED BY <3>2 DEF Raced, Holds, Persist
  <2>4. Fresh(i)'
    <3>1. Holds(i) => foreign = 0 \/ foreign <= Limit
      BY <1>1, <1>2 DEF Kept, Fresh, AtRest, Trying
    <3> QED BY <2>1, <3>1 DEF Fresh, Holds, Persist, Limit
  <2> QED BY <1>5, <1>7, <1>8, <2>2, <2>3, <2>4 DEF PresenceInv, Kept, Persist
<1> QED BY <1>9, <1>10

\* A write leaves the youngest file there is; one that raced the takeover puts a
\* foreign view there at the start of a silence, or in the place of another.
LEMMA WriteStep ==
  ASSUME PresenceWriterAssumption, PresenceInv, NEW i \in Rails, Write(i)
  PROVE  PresenceInv'
<1>1. TypeOK /\ Kept(i) /\ op[i].at = "write"
  BY DEF PresenceInv, Write
<1>2. op' = [op EXCEPT ![i] = [at |-> "idle", kind |-> "none"]]
  BY DEF Write, Quiet
<1>3. /\ op'[i] = [at |-> "idle", kind |-> "none"]
      /\ \A j \in Rails \ {i} : op'[j] = op[j]
      /\ file'.by = i /\ file'.by # Nobody /\ file'.age = 0
      /\ foreign' = IF Holds(i) THEN 0 ELSE foreign
      /\ UNCHANGED <<life, busy, fire, stamp, token>>
  BY <1>1, <1>2, Numbers DEF TypeOK, Write
<1>4. TypeOK'
  <2>1. file' \in [by : Rails \cup {Nobody}, fresh : BOOLEAN, age : 0..(DeadAfter + 1)]
    BY Numbers DEF Write
  <2>2. foreign' \in 0..(4 * Heartbeat)
    BY <1>1, <1>3, Numbers DEF TypeOK
  <2>3. op' \in [Rails -> [at : {"idle", "claim", "preempt", "take", "persist", "write"},
                           kind : {"none", "edge", "beat"}]]
    BY <1>1, <1>2 DEF TypeOK
  <2> QED BY <1>1, <2>1, <2>2, <2>3 DEF TypeOK, Write
<1>5. ASSUME NEW j \in Rails PROVE Kept(j)'
  <2>1. Kept(j) /\ fire[j] \in -1..Heartbeat /\ stamp[j] \in 0..(2 * Heartbeat)
        /\ foreign \in 0..(4 * Heartbeat) /\ file.age \in 0..(DeadAfter + 1)
    BY TypesOf, Numbers DEF PresenceInv
  <2>2. InPlace(j)'
    BY <1>1, <1>3, <2>1 DEF Kept, InPlace, AtRest, Named, Holds
  <2>3. Young(j)'
    BY <1>3, <2>1, Numbers DEF Young
  <2>4. Alive(j)' /\ Raced(j)'
    BY <1>3, <2>3 DEF Alive, Raced
  <2>5. Fresh(j)'
    <3> SUFFICES ASSUME Holds(j), Named(j), foreign # 0, ~Holds(i), j # i
                 PROVE  Fresh(j)'
      BY <1>3 DEF Fresh, Holds, Named
    <3>1. file.age >= Rescue \/ file.age = 0
      BY <1>1 DEF Kept, Raced
    <3>2. CASE AtRest(j) /\ Waiting(j)
      <4>1. /\ FastAtFirst(j) => FastAtFirst(j)'
            /\ SlowAtFirst(j) => SlowAtFirst(j)'
        BY <1>3 DEF FastAtFirst, SlowAtFirst, ToBeat, Limit
      <4>2. FastAfterSkip(j) => FastAfterSkip(j)'
        <5> SUFFICES ASSUME FastAfterSkip(j) PROVE FastAfterSkip(j)'
          OBVIOUS
        <5>1. fire[j] >= 0
          BY <2>1 DEF Kept, InPlace
        <5>2. file.age = 0
          BY <2>1, <3>1, <5>1, Numbers DEF FastAfterSkip
        <5> QED BY <1>3, <5>2 DEF FastAfterSkip, Limit
      <4>3. SlowAfterSkip(j) => SlowAfterSkip(j)'
        <5> SUFFICES ASSUME SlowAfterSkip(j) PROVE SlowAfterSkip(j)'
          OBVIOUS
        <5>1. ToBeat(j) \in Nat /\ ToBeat(j)' = ToBeat(j)
          BY <1>3, <2>1, Numbers DEF Kept, InPlace, ToBeat
        <5>2. file.age = 0
          BY <2>1, <3>1, <5>1, Numbers DEF SlowAfterSkip
        <5> QED BY <1>3, <5>1, <5>2 DEF SlowAfterSkip, Limit
      <4>4. Waiting(j)'
        BY <1>3, <3>2, <4>1, <4>2, <4>3 DEF Waiting
      <4> QED BY <1>3, <3>2, <4>4 DEF Fresh, AtRest
    <3>3. CASE op[j].at = "persist" /\ Trying(j)
      <4>1. ~(file.age \in Skip..(Rescue - 1))
        BY <3>1, Numbers
      <4>2. Trying(j)'
        BY <1>3, <3>3, <4>1 DEF Trying, Limit
      <4> QED BY <1>3, <3>3, <4>2 DEF Fresh
    <3>4. CASE op[j].at = "write" /\ foreign <= Limit
      BY <1>3, <3>4 DEF Fresh, Limit
    <3> QED BY <2>1, <3>2, <3>3, <3>4 DEF Kept, Fresh
  <2> QED BY <2>2, <2>4, <2>5 DEF Kept
<1> QED BY <1>3, <1>4, <1>5 DEF PresenceInv

\* A silence begins with time enough.
LEMMA Begins ==
  ASSUME PresenceWriterAssumption, TypeOK, NEW i \in Rails, Kept(i), Named(i),
         foreign = 0
  PROVE  Waiting(i)
<1>1. /\ stamp[i] \in 0..(2 * Heartbeat) /\ fire[i] \in 0..Heartbeat
      /\ busy[i] => fire[i] <= 1
      /\ busy[i] \in BOOLEAN
  <2>1. fire[i] \in -1..Heartbeat /\ stamp[i] \in 0..(2 * Heartbeat) /\ busy[i] \in BOOLEAN
    BY TypesOf, Numbers
  <2> QED BY <2>1, Numbers DEF Kept, InPlace
<1>2. CASE busy[i]
  <2>1. FastAtFirst(i)
    BY <1>1, <1>2, Numbers DEF FastAtFirst
  <2> QED BY <1>2, <2>1 DEF Waiting
<1>3. CASE ~busy[i]
  <2>1. SlowAtFirst(i)
    BY <1>1, Numbers DEF SlowAtFirst, ToBeat
  <2> QED BY <1>3, <2>1 DEF Waiting
<1> QED BY <1>2, <1>3

\* What a unit of time adds to an age, it takes from the wait.
LEMMA ElapseStep ==
  ASSUME PresenceWriterAssumption, PresenceInv, Elapse
  PROVE  PresenceInv'
<1>1. TypeOK /\ \A i \in Rails : Kept(i) /\ AtRest(i) /\ fire[i] # 0
  BY DEF PresenceInv, Elapse
<1>2. /\ life' = life /\ busy' = busy /\ op' = op /\ token'.by = token.by
      /\ file'.by = file.by
      /\ file'.age = IF file.by = Nobody THEN file.age ELSE Older(file.age, DeadAfter + 1)
      /\ foreign' = IF (\E i \in Rails : Holds(i) /\ Named(i)) /\ ~ShowsHolder
                    THEN Older(foreign, 4 * Heartbeat) ELSE 0
  BY <1>1 DEF Elapse, TypeOK
<1>3. \A i \in Rails :
        /\ fire'[i] = IF fire[i] = -1 THEN -1 ELSE fire[i] - 1
        /\ stamp'[i] = Older(stamp[i], 2 * Heartbeat)
  BY Numbers DEF Elapse, Unarmed
<1>4. TypeOK'
  <2>1. fire' \in [Rails -> Unarmed..Heartbeat]
    <3>1. \A i \in Rails : (IF fire[i] = Unarmed THEN Unarmed ELSE fire[i] - 1)
                             \in Unarmed..Heartbeat
      <4> TAKE i \in Rails
      <4>1. fire[i] \in -1..Heartbeat /\ fire[i] # 0
        BY <1>1, TypesOf
      <4> QED BY <4>1, Numbers DEF Unarmed
    <3> QED BY <3>1 DEF Elapse
  <2>2. /\ stamp' \in [Rails -> 0..StampCap]
        /\ lag' \in [Rails -> 0..StampCap]
    <3>1. \A n \in 0..StampCap : Older(n, StampCap) \in 0..StampCap
      BY Numbers DEF Older
    <3> QED BY <1>1, <3>1 DEF Elapse, TypeOK
  <2>3. /\ token' \in [by : Rails \cup {Nobody}, young : BOOLEAN]
        /\ file' \in [by : Rails \cup {Nobody}, fresh : BOOLEAN, age : 0..(DeadAfter + 1)]
    <3> DEFINE age == IF file.by = Nobody THEN file.age ELSE Older(file.age, DeadAfter + 1)
    <3>1. age \in 0..(DeadAfter + 1)
      BY <1>1, Numbers DEF Older, TypeOK
    <3>2. file' = [file EXCEPT !.age = age]
      BY DEF Elapse
    <3> HIDE DEF age
    <3> QED BY <1>1, <3>1, <3>2 DEF Elapse, TypeOK
  <2>4. foreign' \in 0..(4 * Heartbeat)
    BY <1>1, <1>2, Numbers DEF Older, TypeOK
  <2> QED BY <1>1, <2>1, <2>2, <2>3, <2>4 DEF Elapse, TypeOK
<1>5. ASSUME NEW i \in Rails PROVE Kept(i)'
  <2>1. /\ Kept(i) /\ AtRest(i) /\ fire[i] # 0
        /\ fire[i] \in -1..Heartbeat /\ stamp[i] \in 0..(2 * Heartbeat)
        /\ busy[i] \in BOOLEAN
        /\ file.age \in 0..(DeadAfter + 1) /\ foreign \in 0..(4 * Heartbeat)
    BY <1>1, TypesOf, Numbers
  <2>2. InPlace(i)'
    BY <1>2, <1>3, <2>1, Numbers DEF Kept, InPlace, AtRest, Named, Holds
  <2>3. Raced(i)'
    BY <1>2, <2>1 DEF Raced, AtRest
  <2>4. CASE ~Named(i)
    BY <1>2, <2>2, <2>3, <2>4 DEF Kept, Alive, Fresh, Named
  <2>5. CASE Named(i)
    <3>1. fire[i] \in 1..Heartbeat /\ (busy[i] => fire[i] = 1)
      BY <2>1, <2>5, Numbers DEF Kept, InPlace
    <3>2. /\ fire'[i] = fire[i] - 1
          /\ stamp'[i] = IF stamp[i] < 2 * Heartbeat THEN stamp[i] + 1 ELSE 2 * Heartbeat
      BY <1>3, <3>1, Numbers DEF Older
    <3>3. Young(i)
      BY <2>1, <2>5 DEF Kept, Alive, InPlace, AtRest, Owing
    <3>4. file'.age = IF file.age < DeadAfter + 1 THEN file.age + 1 ELSE DeadAfter + 1
      BY <1>2, <3>3 DEF Young, Older
    <3>5. Young(i)'
      BY <1>2, <2>1, <3>1, <3>2, <3>3, <3>4, Numbers DEF Young
    <3>6. Fresh(i)'
      <4> SUFFICES ASSUME Holds(i), foreign' # 0
                   PROVE  Waiting(i)'
        BY <1>2, <2>1 DEF Fresh, Holds, AtRest
      <4>1. Waiting(i)
        BY <1>1, <2>1, <2>5, Begins DEF Kept, Fresh, AtRest
      <4>2. foreign' = foreign + 1
        <5>1. foreign <= Limit
          BY <2>1, <3>1, <4>1, Numbers
             DEF Waiting, FastAtFirst, FastAfterSkip, SlowAtFirst, SlowAfterSkip, ToBeat
        <5> QED BY <1>2, <2>1, <5>1, Numbers DEF Older
      <4>3. CASE busy[i] /\ FastAtFirst(i)
        <5>1. FastAtFirst(i)'
          BY <2>1, <3>1, <3>2, <4>2, <4>3, Numbers DEF FastAtFirst, Limit
        <5> QED BY <1>2, <4>3, <5>1 DEF Waiting
      <4>4. CASE busy[i] /\ FastAfterSkip(i)
        <5>1. stamp[i] < Heartbeat /\ file.age < DeadAfter
          BY <2>1, <3>1, <4>4, Numbers DEF FastAfterSkip
        <5>2. FastAfterSkip(i)'
          BY <2>1, <3>1, <3>2, <3>4, <4>2, <4>4, <5>1, Numbers DEF FastAfterSkip, Limit
        <5> QED BY <1>2, <4>4, <5>2 DEF Waiting
      <4>5. CASE ~busy[i]
        <5>1. ToBeat(i) \in Nat /\ ToBeat(i)' = ToBeat(i) - 1 /\ ToBeat(i) >= 1
          BY <2>1, <3>1, <3>2, Numbers DEF ToBeat
        <5>2. SlowAtFirst(i) => SlowAtFirst(i)'
          BY <2>1, <4>2, <5>1, Numbers DEF SlowAtFirst, Limit
        <5>3. SlowAfterSkip(i) => SlowAfterSkip(i)'
          BY <2>1, <3>4, <4>2, <5>1, Numbers DEF SlowAfterSkip, Limit
        <5> QED BY <1>2, <4>1, <4>5, <5>2, <5>3 DEF Waiting
      <4> QED BY <4>1, <4>3, <4>4, <4>5 DEF Waiting
    <3> QED BY <2>2, <2>3, <3>5, <3>6 DEF Kept, Alive
  <2> QED BY <2>4, <2>5
<1>6. (file.by = Nobody => file.age = 0)'
  BY <1>2 DEF PresenceInv
<1> QED BY <1>4, <1>5, <1>6 DEF PresenceInv

-----------------------------------------------------------------------------
(* The invariant, and what it says.                                        *)

\* No instance is open, and nothing is written.
LEMMA PresenceInit ==
  ASSUME PresenceWriterAssumption, Init
  PROVE  PresenceInv
<1>1. TypeOK
  BY Numbers DEF Init, TypeOK, Quiet, Unarmed
<1>2. \A i \in Rails : Kept(i)
  BY Numbers DEF Init, Kept, InPlace, Alive, Raced, Fresh, AtRest, Named, Holds, Quiet
<1> QED BY <1>1, <1>2 DEF PresenceInv, Init

\* Every step keeps the invariant.
LEMMA PresenceStep ==
  ASSUME PresenceWriterAssumption, PresenceInv, [Next]_vars
  PROVE  PresenceInv'
<1>1. CASE Elapse
  BY <1>1, ElapseStep
<1>2. ASSUME NEW i \in Rails, Event(i) PROVE PresenceInv'
  BY <1>2, EventStep
<1>3. ASSUME NEW i \in Rails, Effect(i) PROVE PresenceInv'
  BY <1>3, ClaimStep, TakeStep, PersistStep, WriteStep DEF Effect
<1>4. CASE UNCHANGED vars
  <2>1. PresenceInv
    OBVIOUS
  <2> QED BY <1>4, <2>1
          DEF PresenceInv, TypeOK, Kept, InPlace, Alive, Raced, Fresh, Owing, Young,
              Waiting, Trying, FastAtFirst, FastAfterSkip, SlowAtFirst, SlowAfterSkip,
              ToBeat, Limit, AtRest, Named, Holds, vars
<1> QED BY <1>1, <1>2, <1>3, <1>4 DEF Next

\* The invariant holds throughout, for any number of instances.
THEOREM PresenceCorrect ==
  ASSUME PresenceWriterAssumption
  PROVE  Spec => []PresenceInv
<1>1. Init => PresenceInv
  BY PresenceInit
<1>2. PresenceInv /\ [Next]_vars => PresenceInv'
  BY PresenceStep
<1> QED BY <1>1, <1>2, PTL DEF Spec

\* A session some rail of which is open and knows its name is never reaped: its
\* file gets no older than a rescue's age and two windows (persist_presence).
THEOREM NeverReapedCorrect ==
  ASSUME PresenceWriterAssumption
  PROVE  Spec => []NeverReaped
<1>1. PresenceInv => NeverReaped
  <2> SUFFICES ASSUME PresenceInv, NEW i \in Rails, Named(i), AtRest(i)
               PROVE  file.by # Nobody /\ file.age <= DeadAfter
    BY DEF NeverReaped
  <2>1. Kept(i) /\ fire[i] \in -1..Heartbeat /\ file.age \in 0..(DeadAfter + 1)
    BY TypesOf DEF PresenceInv
  <2>2. Young(i) /\ fire[i] >= 0
    BY <2>1 DEF Kept, Alive, InPlace, AtRest, Owing
  <2> QED BY <2>1, <2>2, Numbers DEF Young
<1> QED BY <1>1, PresenceCorrect, PTL

\* A foreign view over the holder's is replaced before four heartbeats in which
\* the holder has only its timer to handle, however many rails rescue.
THEOREM ForeignViewIsReplacedCorrect ==
  ASSUME PresenceWriterAssumption
  PROVE  Spec => []ForeignViewIsReplaced
<1>1. PresenceInv => ForeignViewIsReplaced
  <2> SUFFICES ASSUME PresenceInv, NEW i \in Rails, Holds(i), Named(i)
               PROVE  foreign < 4 * Heartbeat
    BY DEF ForeignViewIsReplaced
  <2>1. /\ Kept(i) /\ foreign \in 0..(4 * Heartbeat)
        /\ fire[i] \in -1..Heartbeat /\ stamp[i] \in 0..(2 * Heartbeat)
    BY TypesOf, Numbers DEF PresenceInv
  <2>2. fire[i] >= 0
    BY <2>1 DEF Kept, InPlace
  <2>3. Waiting(i) => foreign <= Limit
    BY <2>1, <2>2, Numbers
       DEF Waiting, FastAtFirst, FastAfterSkip, SlowAtFirst, SlowAfterSkip, ToBeat
  <2>4. foreign = 0 \/ foreign <= Limit
    BY <2>1, <2>3 DEF Kept, Fresh, Trying
  <2> QED BY <2>1, <2>4, Numbers
<1> QED BY <1>1, PresenceCorrect, PTL

\* No claim but a preempting one goes for a young token, in any step.
LEMMA ClaimsAgedTokens ==
  ASSUME TypeOK, [Next]_vars, NEW i \in Rails, op[i].at = "claim", op'[i].at = "take"
  PROVE  ~token.young
<1>1. CASE Elapse \/ UNCHANGED vars
  BY <1>1 DEF Elapse, vars
<1>2. ASSUME NEW j \in Rails, Event(j)
      PROVE  FALSE
  <2>1. CASE Load(j) \/ Hide(j) \/ Unload(j)
    BY <2>1 DEF Load, Hide, Unload
  <2>2. CASE ~(Load(j) \/ Hide(j) \/ Unload(j))
    <3>1. AtRest(j) /\ (op' = op \/ \E kept \in {op'[j]} : op' = [op EXCEPT ![j] = kept])
      BY <1>2, <2>2
         DEF Event, LearnName, Manifest, Hears, Relearns, Reveal, Timer, Project, TypeOK
    <3> QED
      BY <3>1 DEF AtRest, TypeOK
  <2> QED
    BY <2>1, <2>2
<1>3. ASSUME NEW j \in Rails, Effect(j)
      PROVE  ~token.young
  <2>1. CASE i = j
    <3>1. Claim(i)
      BY <1>3, <2>1 DEF Effect, Take, Persist, Write
    <3>2. ASSUME ~TakesToken(i, FALSE)
          PROVE  FALSE
      BY <3>1, <3>2 DEF Claim, ToPersist, TypeOK
    <3> QED
      BY <3>2 DEF TakesToken
  <2>2. CASE i # j
    BY <1>3, <2>2 DEF Effect, Claim, Take, Persist, Write, TypeOK
  <2> QED
    BY <2>1, <2>2
<1> QED
  BY <1>1, <1>2, <1>3 DEF Next

\* "Last-claim-wins is exactly the freshest view writes" (claim_presence_writer):
\* the last claimer's view comes back in time, and clients on two tabs do not
\* trade the token with every manifest.
THEOREM FreshestViewWritesCorrect ==
  ASSUME PresenceWriterAssumption
  PROVE  Spec => FreshestViewWrites
<1>1. TypeOK /\ [Next]_vars
        => [\A i \in Rails : op[i].at = "claim" /\ op'[i].at = "take" => ~token.young]_vars
  BY ClaimsAgedTokens
<1>2. PresenceInv => TypeOK
  BY DEF PresenceInv
<1>3. Spec => YoungTokenIsKept
  BY <1>1, <1>2, PresenceCorrect, PTL DEF Spec, YoungTokenIsKept
<1> QED
  BY <1>3, ForeignViewIsReplacedCorrect, PTL DEF FreshestViewWrites

-----------------------------------------------------------------------------
(* The hook processes of a pane and its grace clock                        *)

HookEvents == {"prompt", "tool", "toolDone", "ask", "stop", "error", "reset", "subagentStop"}
HookIds == WorkIds \cup {NoId}
Payloads ==
  [event : HookEvents, by : HookIds, tool : Tools \cup {"none"}, asks : BOOLEAN, blank : BOOLEAN,
   machine : BOOLEAN, launch : HookIds, over : SUBSET WorkIds, live : SUBSET WorkIds,
   services : SUBSET WorkIds, stray : BOOLEAN]

\* What is sent is left open: only its fields are.
HookTypeOK ==
  /\ agent \in Agents /\ kind \in Kinds /\ turn \in {"rest", "work", "ask"}
  /\ alive \subseteq WorkIds /\ over \subseteq WorkIds /\ beat \in 0 .. Beat
  /\ procs = [p \in Procs |-> procs[p]]
  /\ \A p \in Procs :
       /\ procs[p] = [phase |-> procs[p].phase, in |-> procs[p].in,
                      upd |-> procs[p].upd, held |-> procs[p].held]
       /\ procs[p].phase \in {"free", "new", "sending", "sent"}
       /\ procs[p].in \in Payloads /\ procs[p].held \in 0 .. EdgeTimeout
  /\ sent = [key |-> sent.key, age |-> sent.age] /\ sent.age \in 0 .. DedupTtl
  /\ markers \subseteq WorkIds /\ launched \subseteq WorkIds
  /\ queue \in Seq({queue[k] : k \in 1 .. Len(queue)})
  /\ quiet \in Int /\ quiet >= Unsuspected

\* Of a hook taken in, nothing but its event and caller is left.
CallersInv ==
  \A p \in InFlight :
    LET i == procs[p].in IN
    /\ i.by # NoId => i.event \in {"toolDone", "subagentStop"}
    /\ i.event = "subagentStop" /\ i.blank => agent = "claude"
    /\ i.stray => agent = "codex"
    /\ i.launch # NoId => agent = "claude"
    /\ i.by = NoId => i.event \in Events(agent)

\* Every subagent whose launch was taken in is marked while it runs.
MarkersInv == launched \subseteq markers /\ (launched # {} => agent = "claude")

\* The rail has yet to consume what p sends.
Undelivered(p) ==
  \/ procs[p].phase \in {"new", "sending"}
  \/ procs[p].phase = "sent" /\ ~Delivered(p)

\* A hook of the agent's own that will be sent unless it is a repeat, and one
\* that is sent even then.
Telling(p) ==
  /\ p \in Foreground /\ Undelivered(p)
  /\ procs[p].phase = "new" => Derive(agent, procs[p].in) # {}
Closing(p) ==
  /\ Telling(p)
  /\ procs[p].phase = "new" =>
       \A u \in Derive(agent, procs[p].in) : ~(u.status = "running" /\ ~Edge(u))

\* The clock has run no longer than the record is old, or a delivered hook
\* has been held up.
RecordInv ==
  /\ sent.age < DedupTtl => quiet <= sent.age
  /\ sent.age = DedupTtl => sent = NoRecord
HeldInv == \A p \in Procs : Delivered(p) => quiet <= procs[p].held

\* A resting or asking agent's row is under no suspicion: its hook is on the way
\* or was consumed.
RestInv == turn # "work" => quiet = Unsuspected \/ \E p \in Procs : Closing(p)

\* A working agent has called a hook as recently as its beat says; the clock may
\* be older by what a skipped repeat's record was, or by a hook held up.
WorkInv ==
  turn = "work" =>
    \/ quiet <= beat + DedupTtl - 1
    \/ beat = Beat /\ quiet <= EdgeTimeout
    \/ \E p \in Procs : Telling(p)

\* No clock runs out.
ClockInv == RecordInv /\ HeldInv /\ RestInv /\ WorkInv /\ quiet + 1 < QuietMax

HookInv == HookTypeOK /\ CallersInv /\ MarkersInv /\ ClockInv

-----------------------------------------------------------------------------
(* What hooks derive                                                       *)

\* A hook of a helper, a fork or the daemon derives nothing.
LEMMA StraysDeriveNothing ==
  ASSUME NEW a, NEW i \in Payloads
  PROVE  /\ a = "codex" /\ i.stray => Derive(a, i) = {}
         /\ a = "claude" /\ i.event = "subagentStop" /\ i.blank => Derive(a, i) = {}
<1>1. ASSUME a = "codex", i.stray PROVE Derive(a, i) = {}
  BY <1>1 DEF Derive, DeriveCodex
<1>2. ASSUME a = "claude", i.event = "subagentStop", i.blank PROVE Derive(a, i) = {}
  BY <1>2 DEF Derive, DeriveClaude
<1> QED
  BY <1>1, <1>2

\* A hook of the agent's own derives something, unless it asks for nothing.
LEMMA OwnHooksDerive ==
  ASSUME NEW a \in AllAgents, NEW i \in Payloads, ~i.stray, i.event \in Events(a) \ {"ask", "subagentStop"}
  PROVE  Derive(a, i) # {}
<1>1. CASE a = "claude"
  <2>1. Derive(a, i) = DeriveClaude(i)
    BY <1>1 DEF Derive
  <2> QED
    BY <2>1 DEF DeriveClaude
<1>2. CASE a = "codex"
  <2>1. Derive(a, i) = DeriveCodex(i)
    BY <1>2 DEF Derive
  <2> QED
    BY <2>1 DEF DeriveCodex
<1>3. CASE a \in Bridged
  <2>1. Derive(a, i) = DeriveBridged(i)
    BY <1>3 DEF Derive, Bridged
  <2>2. i.event # "ask" => StatusOfEvent(i.event) # "pending"
    BY DEF StatusOfEvent, Payloads, HookEvents
  <2> QED
    BY <2>1, <2>2 DEF DeriveBridged
<1> QED
  BY <1>1, <1>2, <1>3 DEF AllAgents

\* What ends a turn, asks or resets goes out even as a repeat.
LEMMA EndsAreSent ==
  ASSUME NEW a \in AllAgents, NEW i \in Payloads, i.event \in Events(a),
         i.event \in {"ask", "stop", "error", "reset"},
         NEW u \in Derive(a, i)
  PROVE  ~(u.status = "running" /\ ~Edge(u))
<1>1. CASE a = "claude"
  <2>1. u \in DeriveClaude(i)
    BY <1>1 DEF Derive
  <2>2. i.event \in {"ask", "stop", "reset"}
    BY <1>1 DEF Events, Bridged
  <2>3. CASE i.event = "stop"
    <3>1. u \in {IF i.asks THEN Update("pending", "question", "", TurnEnd(i))
                 ELSE IF WaitsOn(i) THEN Update("running", "waiting", "", TurnEnd(i))
                 ELSE Update("done", "report", "", TurnEnd(i))}
      BY <2>1, <2>3 DEF DeriveClaude
    <3>2. TurnEnd(i).present
      BY DEF TurnEnd, Batch
    <3>3. u.batch = TurnEnd(i)
      <4>1. \A shown, msg : Update(shown, msg, "", TurnEnd(i)).batch = TurnEnd(i)
        BY DEF Update
      <4> QED
        BY <3>1, <4>1
    <3> QED
      BY <3>2, <3>3 DEF Edge
  <2>4. CASE i.event = "ask"
    <3>1. u = Update("pending", "question", "", NoBatch)
      BY <2>1, <2>4 DEF DeriveClaude
    <3> QED
      BY <3>1 DEF Update
  <2>5. CASE i.event = "reset"
    <3>1. u = Update("idle", "", "", NoBatch)
      BY <2>1, <2>5 DEF DeriveClaude
    <3> QED
      BY <3>1 DEF Update
  <2> QED
    BY <2>2, <2>3, <2>4, <2>5
<1>2. CASE a = "codex"
  <2>1. u \in DeriveCodex(i)
    BY <1>2 DEF Derive
  <2>2. i.event \in {"ask", "stop"}
    BY <1>2 DEF Events, Bridged
  <2>3. u = Update("pending", "question", "", NoBatch) \/ u = Update("done", "report", "", NoBatch)
    BY <2>1, <2>2 DEF DeriveCodex
  <2>4. \A st : Update(st, "question", "", NoBatch).status = st
        /\ Update(st, "report", "", NoBatch).status = st
    BY DEF Update
  <2> QED
    BY <2>3, <2>4
<1>3. CASE a \in Bridged
  <2>1. u \in DeriveBridged(i)
    BY <1>3 DEF Derive, Bridged
  <2> DEFINE shown == StatusOfEvent(i.event)
  <2>2. shown \in {"pending", "done", "error", "idle"}
    BY DEF StatusOfEvent
  <2>3. u = Update("pending", "question", "", NoBatch)
        \/ u = Update(shown, IF shown = "idle" THEN "" ELSE "report", "", NoBatch)
    BY <2>1, <2>2 DEF DeriveBridged
  <2> HIDE DEF shown
  <2>4. u.status = "pending" \/ u.status = shown
    <3>1. \A st, msg : Update(st, msg, "", NoBatch).status = st
      BY DEF Update
    <3> QED
      BY <2>3, <3>1
  <2> QED
    BY <2>2, <2>4
<1> QED
  BY <1>1, <1>2, <1>3 DEF AllAgents


-----------------------------------------------------------------------------
(* What a step does to the processes                                       *)

\* A sequence is over its own elements.
LEMMA SeqOverOwn ==
  ASSUME NEW S, NEW q \in Seq(S)
  PROVE  q \in Seq({q[k] : k \in 1 .. Len(q)})
<1>1. Len(q) \in Nat /\ q \in [1 .. Len(q) -> S]
  BY LenProperties
<1> DEFINE T == {q[k] : k \in 1 .. Len(q)}
<1>2. q \in [1 .. Len(q) -> T]
  BY <1>1
<1> HIDE DEF T
<1>3. q \in Seq(T)
  BY <1>1, <1>2, SeqDef
<1> QED
  BY <1>3 DEF T

\* A process by its fields.
Fields(p) == [phase |-> procs[p].phase, in |-> procs[p].in, upd |-> procs[p].upd, held |-> procs[p].held]

\* A hook that is called takes a free process; nothing else of them moves.
Called(p, payload) ==
  /\ procs[p].phase = "free"
  /\ procs'[p].phase = "new" /\ procs'[p].held = 0
  /\ procs'[p].in = [payload EXCEPT !.services = Services]
  /\ procs'[p] = Fields(p)'

OthersStay(p) ==
  procs' = [q \in Procs |-> procs'[q]] /\ \A q \in Procs \ {p} : procs'[q] = procs[q]

\* Calling a hook does just that.
LEMMA FireCalls ==
  ASSUME HookTypeOK, NEW payload \in Payloads, Fire(payload)
  PROVE  /\ \E p \in Procs : Called(p, payload) /\ OthersStay(p)
         /\ UNCHANGED <<agent, kind, sent, markers, queue, row, quiet, launched>>
<1>1. PICK p \in Procs :
        /\ procs[p].phase = "free"
        /\ procs' = [procs EXCEPT ![p] =
                       [Free EXCEPT !.phase = "new", !.in = [payload EXCEPT !.services = Services]]]
  BY DEF Fire
<1>2. procs'[p] = [phase |-> "new", in |-> [payload EXCEPT !.services = Services], upd |-> NoUpdate, held |-> 0]
  BY <1>1 DEF HookTypeOK, Free
<1>3. OthersStay(p)
  BY <1>1 DEF HookTypeOK, OthersStay
<1>4. Called(p, payload)
  <2> DEFINE in == [payload EXCEPT !.services = Services]
  <2> HIDE DEF in
  <2>1. procs'[p] = [phase |-> "new", in |-> in, upd |-> NoUpdate, held |-> 0]
    BY <1>2 DEF in
  <2>2. procs'[p].phase = "new" /\ procs'[p].in = in /\ procs'[p].upd = NoUpdate /\ procs'[p].held = 0
    BY <2>1
  <2> QED
    BY <1>1, <2>1, <2>2 DEF Called, Fields, in
<1> QED
  BY <1>3, <1>4 DEF Fire, files, rail

\* Intake sends what is no repeat and keeps the event and the caller.
Taken(p) ==
  LET i == procs[p].in
      sends == {u \in Admitted(i) : ~Skips(u)}
  IN /\ procs'[p] = Fields(p)'
     /\ \/ sends = {} /\ procs'[p].phase = "free" /\ procs'[p].in = Payload /\ procs'[p].held = 0
        \/ /\ sends # {} /\ procs'[p].phase = "sending" /\ procs'[p].held = procs[p].held
           /\ procs'[p].in = [Payload EXCEPT !.event = i.event, !.by = i.by]

\* So does every process at its intake.
LEMMA IntakeTakes ==
  ASSUME HookTypeOK, NEW p \in Procs, Intake(p)
  PROVE  Taken(p) /\ OthersStay(p)
<1> DEFINE i == procs[p].in
           sends == {u \in Admitted(i) : ~Skips(u)}
<1>1. OthersStay(p)
  BY DEF Intake, HookTypeOK, OthersStay
<1>2. CASE sends = {}
  <2>1. procs' = [procs EXCEPT ![p] = Free]
    BY <1>2 DEF Intake
  <2> QED
    BY <1>1, <1>2, <2>1 DEF Taken, Fields, Free, HookTypeOK
<1>3. CASE sends # {}
  <2>1. PICK u \in sends :
          procs' = [procs EXCEPT ![p].phase = "sending", ![p].upd = u,
                      ![p].in = [Payload EXCEPT !.event = i.event, !.by = i.by]]
    BY <1>3 DEF Intake
  <2> DEFINE in == [Payload EXCEPT !.event = i.event, !.by = i.by]
  <2> HIDE DEF in
  <2>2. procs'[p] = [procs[p] EXCEPT !.phase = "sending", !.upd = u, !.in = in]
    BY <2>1 DEF HookTypeOK, in
  <2>3. procs'[p] = [phase |-> "sending", in |-> in, upd |-> u, held |-> procs[p].held]
    BY <2>2 DEF HookTypeOK
  <2>4. procs'[p].phase = "sending" /\ procs'[p].in = in /\ procs'[p].upd = u /\ procs'[p].held = procs[p].held
    BY <2>3
  <2>5. procs'[p] = Fields(p)'
    BY <2>3, <2>4 DEF Fields
  <2> HIDE DEF sends
  <2> QED
    BY <1>1, <1>3, <2>4, <2>5 DEF Taken, in, sends
<1> QED
  BY <1>2, <1>3

\* A send marks the process, a record or a watchdog frees it.
LEMMA SendsAndFrees ==
  ASSUME HookTypeOK, NEW p \in Procs
  PROVE  /\ Send(p) => /\ OthersStay(p) /\ procs'[p] = Fields(p)'
                       /\ procs[p].phase = "sending" /\ procs'[p].phase = "sent"
                       /\ procs'[p].in = procs[p].in /\ procs'[p].held = procs[p].held
         /\ Record(p) \/ GiveUp(p) =>
              /\ OthersStay(p) /\ procs'[p] = Fields(p)' /\ Delivered(p)
              /\ procs'[p].phase = "free" /\ procs'[p].in = Payload /\ procs'[p].held = 0
<1>1. ASSUME Send(p)
      PROVE  procs'[p] = [phase |-> "sent", in |-> procs[p].in, upd |-> procs[p].upd, held |-> procs[p].held]
  BY <1>1 DEF Send, HookTypeOK
<1>2. ASSUME Record(p) \/ GiveUp(p) PROVE procs'[p] = Free /\ Delivered(p)
  BY <1>2 DEF Record, GiveUp, HookTypeOK
<1>3. Send(p) \/ Record(p) \/ GiveUp(p) => OthersStay(p)
  BY DEF Send, Record, GiveUp, OthersStay, HookTypeOK
<1> QED
  BY <1>1, <1>2, <1>3 DEF Fields, Free, Send

\* Who may call which hook.
Legal(i) ==
  /\ i.by # NoId => i.event \in {"toolDone", "subagentStop"}
  /\ i.event = "subagentStop" /\ i.blank => agent = "claude"
  /\ i.stray => agent = "codex"
  /\ i.launch # NoId => agent = "claude"
  /\ i.by = NoId => i.event \in Events(agent)

EnvTypeOK ==
  /\ agent \in Agents /\ kind \in Kinds /\ turn \in {"rest", "work", "ask"}
  /\ alive \subseteq WorkIds /\ over \subseteq WorkIds /\ beat \in 0 .. Beat

\* What a call says of the turn: the agent works on, asks or is done; a
\* subagent's hook and a stray one leave it as it is.
Owned(i) == i.by = NoId /\ ~i.stray
CallOf(i) ==
  \/ /\ Owned(i) /\ i.event \notin {"ask", "subagentStop"}
     /\ turn' = "work" /\ (turn = "work" \/ Foreground = {})
  \/ /\ Owned(i) /\ i.event = "ask" /\ turn = "work" /\ beat' = beat
     /\ turn' = IF Derive(agent, i) = {} THEN turn ELSE "ask"
  \/ Owned(i) /\ i.event \in {"stop", "error", "reset"} /\ turn' = "rest"
  \/ turn' = turn /\ beat' = beat

\* The empty payload is a prompt of the agent's own.
LEMMA PayloadIsOne ==
  /\ Payload \in Payloads
  /\ Payload.event = "prompt" /\ Payload.by = NoId /\ Payload.launch = NoId
  /\ ~Payload.stray /\ ~Payload.blank
BY DEF Payload, Payloads, HookEvents, HookIds

\* Every call of the agent or beside it is one of these.
LEMMA Calls ==
  ASSUME HookTypeOK, Prompt \/ Tool \/ Ask \/ Stop \/ Reset \/ SubagentHook \/ StrayHook
  PROVE  EnvTypeOK' /\ \E i \in Payloads : Fire(i) /\ Legal(i) /\ CallOf(i)
<1> USE PayloadIsOne, AgentIntakeAssumption, AgentHooksAssumption
<1>0. /\ agent \in AllAgents /\ 0 \in 0 .. Beat /\ {"prompt", "tool", "toolDone", "ask", "stop"} \subseteq Events(agent)
      /\ ("subagentStop" \in Events(agent) <=> agent \notin Bridged)
  BY DEF HookTypeOK, Events
<1>1. CASE Prompt
  <2>1. \/ Fire(Payload) /\ UNCHANGED over
        \/ Fire([Payload EXCEPT !.machine = TRUE, !.over = over]) /\ over' = {}
    BY <1>1 DEF Prompt
  <2>2. Foreground = {} /\ turn' = "work" /\ beat' = 0 /\ UNCHANGED alive
    BY <1>1 DEF Prompt
  <2>3. UNCHANGED <<agent, kind>>
    BY <2>1 DEF Fire
  <2>4. EnvTypeOK'
    BY <2>1, <2>2, <2>3, <1>0 DEF EnvTypeOK, HookTypeOK
  <2>5. CASE Fire(Payload)
    BY <2>2, <2>4, <2>5, <1>0 DEF Legal, CallOf, Owned
  <2>6. CASE Fire([Payload EXCEPT !.machine = TRUE, !.over = over])
    <3> DEFINE i == [Payload EXCEPT !.machine = TRUE, !.over = over]
    <3>1. i \in Payloads /\ i.event = "prompt" /\ i.by = NoId /\ i.launch = NoId /\ ~i.stray /\ ~i.blank
      BY DEF Payloads, HookTypeOK
    <3> HIDE DEF i
    <3>2. Fire(i)
      BY <2>6 DEF i
    <3> QED
      BY <2>2, <2>4, <3>1, <3>2, <1>0 DEF Legal, CallOf, Owned
  <2> QED
    BY <2>1, <2>5, <2>6
<1>2. CASE Tool
  <2>1. PICK t \in Tools, launch \in {NoId} \cup (IF agent = "claude" THEN FreshIds ELSE {}) :
          /\ Fire([Payload EXCEPT !.event = IF launch = NoId THEN "tool" ELSE "toolDone",
                                  !.tool = t, !.launch = launch])
          /\ alive' = alive \cup ({launch} \ {NoId})
    BY <1>2 DEF Tool
  <2>2. turn = "work" /\ beat' = 0 /\ UNCHANGED <<turn, over>>
    BY <1>2 DEF Tool
  <2>3. launch \in HookIds /\ (launch # NoId => agent = "claude")
    BY <2>1 DEF FreshIds, HookIds
  <2> DEFINE i == [Payload EXCEPT !.event = IF launch = NoId THEN "tool" ELSE "toolDone",
                                  !.tool = t, !.launch = launch]
  <2>4. i \in Payloads /\ i.event \in {"tool", "toolDone"} /\ i.by = NoId /\ i.launch = launch /\ ~i.stray /\ ~i.blank
    BY <2>3 DEF Payloads, HookEvents
  <2> HIDE DEF i
  <2>5. Fire(i)
    BY <2>1 DEF i
  <2>6. UNCHANGED <<agent, kind>>
    BY <2>5 DEF Fire
  <2>7. EnvTypeOK'
    BY <2>1, <2>2, <2>3, <2>6, <1>0 DEF EnvTypeOK, HookTypeOK, HookIds
  <2> QED
    BY <2>2, <2>3, <2>4, <2>5, <2>7, <1>0 DEF Legal, CallOf, Owned
<1>3. CASE Ask
  <2>1. PICK blank \in BOOLEAN :
          LET payload == [Payload EXCEPT !.event = "ask", !.blank = blank]
          IN Fire(payload) /\ turn' = IF Derive(agent, payload) = {} THEN turn ELSE "ask"
    BY <1>3 DEF Ask
  <2>2. turn = "work" /\ UNCHANGED <<alive, over, beat>>
    BY <1>3 DEF Ask
  <2> DEFINE i == [Payload EXCEPT !.event = "ask", !.blank = blank]
  <2>3. i \in Payloads /\ i.event = "ask" /\ i.by = NoId /\ i.launch = NoId /\ ~i.stray
    BY DEF Payloads, HookEvents
  <2> HIDE DEF i
  <2>4. Fire(i) /\ turn' = IF Derive(agent, i) = {} THEN turn ELSE "ask"
    BY <2>1 DEF i
  <2>5. UNCHANGED <<agent, kind>>
    BY <2>4 DEF Fire
  <2>6. EnvTypeOK'
    BY <2>2, <2>4, <2>5 DEF EnvTypeOK, HookTypeOK
  <2> QED
    BY <2>2, <2>3, <2>4, <2>6, <1>0 DEF Legal, CallOf, Owned
<1>4. CASE Stop
  <2>1. PICK event \in {"stop", "error"} \cap Events(agent), asks \in BOOLEAN :
          Fire([Payload EXCEPT !.event = event, !.asks = asks, !.live = alive, !.services = Services])
    BY <1>4 DEF Stop
  <2>2. turn' = "rest" /\ beat' = 0 /\ UNCHANGED <<alive, over>>
    BY <1>4 DEF Stop
  <2> DEFINE i == [Payload EXCEPT !.event = event, !.asks = asks, !.live = alive, !.services = Services]
  <2>3. i \in Payloads /\ i.event = event /\ i.by = NoId /\ i.launch = NoId /\ ~i.stray
    <3>1. alive \in SUBSET WorkIds /\ Services \in SUBSET WorkIds
      BY DEF HookTypeOK, Services
    <3> QED
      BY <3>1 DEF Payloads, HookEvents
  <2> HIDE DEF i
  <2>4. Fire(i)
    BY <2>1 DEF i
  <2>5. UNCHANGED <<agent, kind>>
    BY <2>4 DEF Fire
  <2>6. EnvTypeOK'
    BY <2>2, <2>5, <1>0 DEF EnvTypeOK, HookTypeOK
  <2> QED
    BY <2>2, <2>3, <2>4, <2>6 DEF Legal, CallOf, Owned
<1>5. CASE Reset
  <2> DEFINE i == [Payload EXCEPT !.event = "reset"]
  <2>1. i \in Payloads /\ i.event = "reset" /\ i.by = NoId /\ i.launch = NoId /\ ~i.stray
    BY DEF Payloads, HookEvents
  <2>2. Fire([Payload EXCEPT !.event = "reset"])
    BY <1>5 DEF Reset
  <2> HIDE DEF i
  <2>3. Fire(i)
    BY <2>2 DEF i
  <2>4. "reset" \in Events(agent) /\ turn' = "rest" /\ beat' = 0 /\ alive' = {} /\ over' = {}
    BY <1>5 DEF Reset
  <2>5. UNCHANGED <<agent, kind>>
    BY <2>3 DEF Fire
  <2>6. EnvTypeOK'
    BY <2>4, <2>5, <1>0 DEF EnvTypeOK, HookTypeOK
  <2> QED
    BY <2>1, <2>3, <2>4, <2>6 DEF Legal, CallOf, Owned
<1>6. CASE SubagentHook
  <2>1. UNCHANGED <<turn, beat>>
    BY <1>6 DEF SubagentHook
  <2>2. PICK id \in alive \cap Subagents, t \in Tools :
          \/ /\ Fire([Payload EXCEPT !.event = "toolDone", !.by = id, !.tool = t])
             /\ UNCHANGED <<alive, over>>
          \/ /\ Fire([Payload EXCEPT !.event = "subagentStop", !.by = id])
             /\ alive' = alive \ {id} /\ over' = over \cup {id}
    BY <1>6 DEF SubagentHook
  <2>3. id \in WorkIds /\ id # NoId
    BY <2>2 DEF HookTypeOK
  <2>4. CASE Fire([Payload EXCEPT !.event = "toolDone", !.by = id, !.tool = t]) /\ UNCHANGED <<alive, over>>
    <3> DEFINE i == [Payload EXCEPT !.event = "toolDone", !.by = id, !.tool = t]
    <3>1. i \in Payloads /\ i.event = "toolDone" /\ i.launch = NoId /\ ~i.stray
      BY <2>3 DEF Payloads, HookEvents, HookIds
    <3> HIDE DEF i
    <3>2. Fire(i)
      BY <2>4 DEF i
    <3>3. UNCHANGED <<agent, kind>>
      BY <3>2 DEF Fire
    <3>4. EnvTypeOK'
      BY <2>1, <2>4, <3>3 DEF EnvTypeOK, HookTypeOK
    <3> QED
      BY <2>1, <3>1, <3>2, <3>4, <1>0 DEF Legal, CallOf
  <2>5. CASE /\ Fire([Payload EXCEPT !.event = "subagentStop", !.by = id])
             /\ alive' = alive \ {id} /\ over' = over \cup {id}
    <3> DEFINE i == [Payload EXCEPT !.event = "subagentStop", !.by = id]
    <3>1. i \in Payloads /\ i.event = "subagentStop" /\ i.by # NoId /\ i.launch = NoId /\ ~i.stray /\ ~i.blank
      BY <2>3 DEF Payloads, HookEvents, HookIds
    <3> HIDE DEF i
    <3>2. Fire(i)
      BY <2>5 DEF i
    <3>3. UNCHANGED <<agent, kind>>
      BY <3>2 DEF Fire
    <3>4. EnvTypeOK'
      BY <2>1, <2>3, <2>5, <3>3 DEF EnvTypeOK, HookTypeOK
    <3> QED
      BY <2>1, <3>1, <3>2, <3>4, <1>0 DEF Legal, CallOf
  <2> QED
    BY <2>2, <2>4, <2>5
<1>7. CASE StrayHook
  <2>1. UNCHANGED <<turn, alive, over, beat>>
    BY <1>7 DEF StrayHook
  <2>2. \/ agent = "claude" /\ Fire([Payload EXCEPT !.event = "subagentStop", !.blank = TRUE])
        \/ agent = "codex" /\ \E event \in {"prompt", "stop"} :
             Fire([Payload EXCEPT !.event = event, !.stray = TRUE])
    BY <1>7 DEF StrayHook
  <2>3. CASE agent = "claude" /\ Fire([Payload EXCEPT !.event = "subagentStop", !.blank = TRUE])
    <3> DEFINE i == [Payload EXCEPT !.event = "subagentStop", !.blank = TRUE]
    <3>1. i \in Payloads /\ i.event = "subagentStop" /\ i.by = NoId /\ i.launch = NoId /\ ~i.stray
      BY DEF Payloads, HookEvents
    <3> HIDE DEF i
    <3>2. Fire(i)
      BY <2>3 DEF i
    <3>3. UNCHANGED <<agent, kind>>
      BY <3>2 DEF Fire
    <3>4. EnvTypeOK'
      BY <2>1, <3>3 DEF EnvTypeOK, HookTypeOK
    <3> QED
      BY <2>1, <2>3, <3>1, <3>2, <3>4 DEF Legal, CallOf, Events, Bridged
  <2>4. CASE agent = "codex" /\ \E event \in {"prompt", "stop"} :
               Fire([Payload EXCEPT !.event = event, !.stray = TRUE])
    <3>1. PICK event \in {"prompt", "stop"} : Fire([Payload EXCEPT !.event = event, !.stray = TRUE])
      BY <2>4
    <3> DEFINE i == [Payload EXCEPT !.event = event, !.stray = TRUE]
    <3>2. i \in Payloads /\ i.event = event /\ i.by = NoId /\ i.launch = NoId
      BY DEF Payloads, HookEvents
    <3> HIDE DEF i
    <3>3. Fire(i)
      BY <3>1 DEF i
    <3>4. UNCHANGED <<agent, kind>>
      BY <3>3 DEF Fire
    <3>5. EnvTypeOK'
      BY <2>1, <3>4 DEF EnvTypeOK, HookTypeOK
    <3> QED
      BY <2>1, <2>4, <3>2, <3>3, <3>5, <1>0 DEF Legal, CallOf
  <2> QED
    BY <2>2, <2>3, <2>4
<1> QED
  BY <1>1, <1>2, <1>3, <1>4, <1>5, <1>6, <1>7

-----------------------------------------------------------------------------
(* Types, callers and markers                                              *)

ProcOK(p) ==
  /\ procs[p] = Fields(p)
  /\ procs[p].phase \in {"free", "new", "sending", "sent"}
  /\ procs[p].in \in Payloads /\ procs[p].held \in 0 .. EdgeTimeout

\* When one process moves, only its type is in question.
LEMMA OneMoves ==
  ASSUME HookTypeOK, NEW p \in Procs, OthersStay(p), ProcOK(p)'
  PROVE  procs' = [q \in Procs |-> procs'[q]] /\ \A q \in Procs : ProcOK(q)'
<1>1. ASSUME NEW q \in Procs \ {p} PROVE ProcOK(q)'
  <2>1. procs'[q] = procs[q]
    BY DEF OthersStay
  <2> QED
    BY <2>1 DEF ProcOK, Fields, HookTypeOK
<1> QED
  BY <1>1 DEF OthersStay

\* Types hold through every step.
LEMMA HookTypes == HookTypeOK /\ [HooksNext]_hookVars => HookTypeOK'
<1> SUFFICES ASSUME HookTypeOK, [HooksNext]_hookVars PROVE HookTypeOK'
  OBVIOUS
<1> USE AgentHooksAssumption, PayloadIsOne
<1> DEFINE ProcsOK == procs = [q \in Procs |-> procs[q]] /\ \A q \in Procs : ProcOK(q)
           RestOK == /\ sent = [key |-> sent.key, age |-> sent.age] /\ sent.age \in 0 .. DedupTtl
                     /\ markers \subseteq WorkIds /\ launched \subseteq WorkIds
                     /\ queue \in Seq({queue[k] : k \in 1 .. Len(queue)})
                     /\ quiet \in Int /\ quiet >= Unsuspected
<1>0. /\ EnvTypeOK /\ ProcsOK /\ RestOK
      /\ EnvTypeOK' /\ ProcsOK' /\ RestOK' => HookTypeOK'
  BY DEF HookTypeOK, EnvTypeOK, ProcOK, Fields
<1>1. UNCHANGED env => EnvTypeOK'
  BY <1>0 DEF env, EnvTypeOK
<1>2. UNCHANGED procs => ProcsOK'
  BY <1>0 DEF ProcOK, Fields
<1>3. UNCHANGED <<sent, markers, launched, queue, quiet>> => RestOK'
  BY <1>0
<1> HIDE DEF ProcsOK
<1>4. CASE Prompt \/ Tool \/ Ask \/ Stop \/ Reset \/ SubagentHook \/ StrayHook
  <2>1. PICK i \in Payloads : Fire(i) /\ EnvTypeOK'
    BY <1>4, Calls
  <2>2. PICK p \in Procs : Called(p, i) /\ OthersStay(p)
    BY <2>1, FireCalls
  <2>3. RestOK'
    BY <2>1, <1>3, FireCalls
  <2>4. [i EXCEPT !.services = Services] \in Payloads
    <3>1. Services \in SUBSET WorkIds
      BY DEF Services
    <3> QED
      BY <3>1 DEF Payloads
  <2>5. ProcOK(p)'
    BY <2>2, <2>4 DEF Called, ProcOK
  <2>6. ProcsOK'
    BY <2>2, <2>5, OneMoves DEF ProcsOK
  <2> QED
    BY <2>1, <2>3, <2>6, <1>0
<1>5. CASE Answer
  <2>1. EnvTypeOK'
    BY <1>5, <1>0 DEF Answer, EnvTypeOK
  <2>2. UNCHANGED <<procs, sent, markers, launched, queue, quiet>>
    BY <1>5 DEF Answer, files, rail, told
  <2> QED
    BY <2>1, <2>2, <1>0, <1>2, <1>3
<1>6. CASE ShellEnds
  <2>1. PICK id \in alive \ Subagents : alive' = alive \ {id} /\ over' = over \cup {id}
    BY <1>6 DEF ShellEnds
  <2>2. UNCHANGED <<agent, kind, turn, beat, procs, sent, markers, launched, queue, quiet>>
    BY <1>6 DEF ShellEnds, files, rail, told
  <2>3. EnvTypeOK'
    BY <2>1, <2>2, <1>0 DEF EnvTypeOK
  <2> QED
    BY <2>2, <2>3, <1>0, <1>2, <1>3
<1>7. ASSUME NEW p \in Procs, Intake(p) PROVE HookTypeOK'
  <2> DEFINE i == procs[p].in
  <2>1. Taken(p) /\ OthersStay(p)
    BY <1>7, IntakeTakes
  <2>2. i \in Payloads /\ procs[p].held \in 0 .. EdgeTimeout
    BY DEF HookTypeOK
  <2>3. [Payload EXCEPT !.event = i.event, !.by = i.by] \in Payloads
    BY <2>2 DEF Payloads
  <2>4. ProcOK(p)'
    BY <2>1, <2>2, <2>3 DEF Taken, ProcOK
  <2>5. ProcsOK'
    BY <2>1, <2>4, OneMoves DEF ProcsOK
  <2>6. UNCHANGED <<agent, kind, turn, alive, over, beat, sent, queue, quiet>>
    BY <1>7 DEF Intake, env, rail
  <2>7. markers' \subseteq WorkIds
    BY <1>7, <1>0 DEF Intake, MarkersAfter, LaunchesSubagent, Subagents
  <2>8. launched' \subseteq WorkIds
    BY <1>7, <1>0 DEF Intake, LaunchesSubagent, Subagents
  <2> QED
    BY <2>5, <2>6, <2>7, <2>8, <1>0, <1>1 DEF env
<1>8. ASSUME NEW p \in Procs, Send(p) PROVE HookTypeOK'
  <2>1. /\ OthersStay(p) /\ procs'[p] = Fields(p)' /\ procs'[p].phase = "sent"
        /\ procs'[p].in = procs[p].in /\ procs'[p].held = procs[p].held
    BY <1>8, SendsAndFrees
  <2>2. ProcsOK'
    BY <2>1, OneMoves DEF ProcsOK, ProcOK, HookTypeOK
  <2> DEFINE e == [proc |-> p, upd |-> ToWire(procs[p].upd)]
             S == {queue[k] : k \in 1 .. Len(queue)} \cup {e}
  <2>3. UNCHANGED <<env, sent, markers, launched, quiet>> /\ queue' = Append(queue, e)
    BY <1>8 DEF Send, files, told
  <2>4. queue \in Seq(S) /\ e \in S
    BY <1>0, SeqMonotonic
  <2> HIDE DEF e, S
  <2>5. queue' \in Seq(S)
    BY <2>3, <2>4
  <2>6. queue' \in Seq({queue'[k] : k \in 1 .. Len(queue')})
    BY <2>5, SeqOverOwn
  <2> QED
    BY <2>2, <2>3, <2>6, <1>0, <1>1
<1>9. ASSUME NEW p \in Procs, Record(p) \/ GiveUp(p) PROVE HookTypeOK'
  <2>1. /\ OthersStay(p) /\ procs'[p] = Fields(p)'
        /\ procs'[p].phase = "free" /\ procs'[p].in = Payload /\ procs'[p].held = 0
    BY <1>9, SendsAndFrees
  <2>2. ProcsOK'
    BY <2>1, OneMoves DEF ProcsOK, ProcOK
  <2>3. UNCHANGED <<env, markers, launched, queue, quiet>>
    BY <1>9 DEF Record, GiveUp, files, rail, told
  <2>4. sent' = [key |-> sent'.key, age |-> sent'.age] /\ sent'.age \in 0 .. DedupTtl
    <3>1. CASE Record(p)
      <4> DEFINE r == [key |-> SentKey(procs[p].upd), age |-> procs[p].held]
      <4>1. sent' = Remembered(r) /\ procs[p].held \in 0 .. EdgeTimeout
        BY <3>1 DEF Record, HookTypeOK
      <4> QED
        BY <4>1 DEF Remembered, NoRecord
    <3>2. CASE GiveUp(p)
      BY <3>2, <1>0 DEF GiveUp, files
    <3> QED
      BY <1>9, <3>1, <3>2
  <2> QED
    BY <2>2, <2>3, <2>4, <1>0, <1>1
<1>10. CASE Consume
  <2> DEFINE S == {queue[k] : k \in 1 .. Len(queue)}
  <2>1. UNCHANGED <<env, procs, sent, markers, launched>> /\ queue' = Tail(queue) /\ quiet' = Unsuspected
        /\ queue # <<>>
    BY <1>10 DEF Consume, files, told
  <2>2. queue \in Seq(S)
    BY <1>0
  <2> HIDE DEF S
  <2>3. queue' \in Seq(S)
    BY <2>1, <2>2
  <2>4. queue' \in Seq({queue'[k] : k \in 1 .. Len(queue')})
    BY <2>3, SeqOverOwn
  <2>5. quiet' \in Int /\ quiet' >= Unsuspected
    BY <2>1 DEF Unsuspected
  <2>6. RestOK'
    BY <2>1, <2>4, <2>5, <1>0
  <2> QED
    BY <2>1, <2>6, <1>0, <1>1, <1>2
<1>11. CASE Flicker
  <2>1. UNCHANGED <<env, procs, sent, markers, launched, queue>> /\ quiet' = 0
    BY <1>11 DEF Flicker, files, told
  <2> QED
    BY <2>1, <1>0, <1>1, <1>2 DEF Unsuspected
<1>12. CASE Tick
  <2>1. UNCHANGED <<agent, kind, turn, alive, over, markers, queue, launched>>
    BY <1>12 DEF Tick, told
  <2>2. beat' \in 0 .. Beat
    BY <1>12, <1>0 DEF Tick, Saturate, EnvTypeOK
  <2>3. sent' = [key |-> sent'.key, age |-> sent'.age] /\ sent'.age \in 0 .. DedupTtl
    <3>0. sent = [key |-> sent.key, age |-> sent.age]
      BY <1>0
    <3>1. [sent EXCEPT !.age = @ + 1] = [key |-> sent.key, age |-> sent.age + 1]
      BY ONLY <3>0
    <3> QED
      BY <3>1, <1>12, <1>0 DEF Tick, Remembered, NoRecord
  <2>4. quiet' \in Int /\ quiet' >= Unsuspected
    BY <1>12, <1>0 DEF Tick, Unsuspected
  <2>5. ProcsOK'
    <3>1. procs' = [p \in Procs |-> IF p \in InFlight
                                      THEN [procs[p] EXCEPT !.held = @ + 1] ELSE procs[p]]
      BY <1>12 DEF Tick
    <3>2. ASSUME NEW p \in Procs PROVE ProcOK(p)'
      <4>1. CASE p \in InFlight
        <5>1. HeldUp(p)
          BY <1>12, <4>1 DEF Tick
        <5>2. procs[p].held + 1 \in 0 .. EdgeTimeout
          BY <5>1 DEF HeldUp, Deadline, HookTypeOK
        <5>3. procs'[p] = [phase |-> procs[p].phase, in |-> procs[p].in,
                           upd |-> procs[p].upd, held |-> procs[p].held + 1]
          <6>1. procs'[p] = [procs[p] EXCEPT !.held = @ + 1]
            BY <3>1, <4>1
          <6> QED
            BY <6>1 DEF HookTypeOK
        <5> QED
          BY <5>2, <5>3 DEF ProcOK, Fields, HookTypeOK
      <4>2. CASE p \notin InFlight
        <5>1. procs'[p] = procs[p]
          BY <3>1, <4>2
        <5> QED
          BY <5>1 DEF ProcOK, Fields, HookTypeOK
      <4> QED
        BY <4>1, <4>2
    <3> QED
      BY <3>1, <3>2 DEF ProcsOK
  <2> QED
    BY <2>1, <2>2, <2>3, <2>4, <2>5, <1>0 DEF EnvTypeOK
<1>13. CASE UNCHANGED hookVars
  BY <1>13, <1>0, <1>1, <1>2, <1>3 DEF hookVars, files, rail, told
<1> QED
  BY <1>4, <1>5, <1>6, <1>7, <1>8, <1>9, <1>10, <1>11, <1>12, <1>13 DEF HooksNext, Hook

\* Who called what, and who is marked, every step keeps.
LEMMA CallersAndMarkers ==
  HookTypeOK /\ CallersInv /\ MarkersInv /\ [HooksNext]_hookVars => CallersInv' /\ MarkersInv'
<1> SUFFICES ASSUME HookTypeOK, CallersInv, MarkersInv, [HooksNext]_hookVars
             PROVE  CallersInv' /\ MarkersInv'
  OBVIOUS
<1> USE AgentHooksAssumption, AgentIntakeAssumption, PayloadIsOne
<1> DEFINE CallerOK(p) == procs[p].phase # "free" => Legal(procs[p].in)
<1>0. /\ CallersInv <=> \A p \in Procs : CallerOK(p)
      /\ CallersInv' <=> \A p \in Procs : CallerOK(p)'
  BY DEF CallersInv, InFlight, Legal
<1>1. agent' = agent
  BY DEF HooksNext, hookVars, env, Prompt, Tool, Ask, Answer, Stop, Reset, SubagentHook, StrayHook, ShellEnds,
         Hook, Intake, Send, Record, GiveUp, Consume, Flicker, Tick, Fire
<1>2. UNCHANGED procs => CallersInv'
  BY <1>0, <1>1 DEF Legal
<1>3. UNCHANGED <<markers, launched>> => MarkersInv'
  BY <1>1 DEF MarkersInv
<1>4. ASSUME NEW p \in Procs, OthersStay(p), CallerOK(p)' PROVE CallersInv'
  BY <1>0, <1>1, <1>4 DEF OthersStay, Legal
<1> HIDE DEF CallerOK
<1>5. CASE Prompt \/ Tool \/ Ask \/ Stop \/ Reset \/ SubagentHook \/ StrayHook
  <2>1. PICK i \in Payloads : Fire(i) /\ Legal(i)
    BY <1>5, Calls
  <2>2. PICK p \in Procs : Called(p, i) /\ OthersStay(p)
    BY <2>1, FireCalls
  <2>3. UNCHANGED <<markers, launched>>
    BY <2>1, FireCalls
  <2> DEFINE j == [i EXCEPT !.services = Services]
  <2>4. j.by = i.by /\ j.event = i.event /\ j.blank = i.blank /\ j.stray = i.stray /\ j.launch = i.launch
    BY DEF Payloads
  <2> HIDE DEF j
  <2>5. procs'[p].in = j
    BY <2>2 DEF Called, j
  <2>6. CallerOK(p)'
    BY <2>1, <2>4, <2>5, <1>1 DEF CallerOK, Legal
  <2> QED
    BY <2>2, <2>3, <2>6, <1>3, <1>4
<1>6. ASSUME NEW p \in Procs, Intake(p) PROVE CallersInv' /\ MarkersInv'
  <2> DEFINE i == procs[p].in
  <2>1. Taken(p) /\ OthersStay(p) /\ procs[p].phase = "new"
    BY <1>6, IntakeTakes DEF Intake
  <2>2. i \in Payloads /\ Legal(i)
    BY <2>1, <1>0 DEF CallerOK, HookTypeOK
  <2> DEFINE j == [Payload EXCEPT !.event = i.event, !.by = i.by]
  <2>3. j.by = i.by /\ j.event = i.event /\ ~j.blank /\ ~j.stray /\ j.launch = NoId
    BY DEF Payload
  <2>4. Legal(j)
    BY <2>2, <2>3 DEF Legal
  <2>5. procs'[p].phase = "free" \/ procs'[p].in = j
    BY <2>1 DEF Taken
  <2> HIDE DEF j
  <2>6. CallerOK(p)'
    BY <2>4, <2>5, <1>1 DEF CallerOK, Legal
  <2>7. LaunchesSubagent(i) => i.launch \in WorkIds /\ agent = "claude"
    BY <2>2 DEF LaunchesSubagent, Subagents, Legal
  <2>8. /\ launched' = IF i.event = "reset" THEN {}
                       ELSE IF LaunchesSubagent(i) THEN launched \cup ({i.launch} \cap alive)
                       ELSE IF i.event = "subagentStop" THEN launched \ {i.by} ELSE launched
        /\ markers' = IF agent = "claude" THEN MarkersAfter(i) ELSE markers
    BY <1>6 DEF Intake
  <2>9. MarkersInv'
    <3>1. CASE agent = "claude"
      <4>1. launched \subseteq markers
        BY DEF MarkersInv
      <4>2. launched' \subseteq MarkersAfter(i)
        BY <2>8, <4>1 DEF MarkersAfter
      <4> QED
        BY <3>1, <4>2, <2>8, <1>1 DEF MarkersInv
    <3>2. CASE agent # "claude"
      BY <3>2, <2>7, <2>8, <1>1 DEF MarkersInv
    <3> QED
      BY <3>1, <3>2
  <2> QED
    BY <2>1, <2>6, <2>9, <1>4
<1>7. ASSUME NEW p \in Procs, Send(p) \/ Record(p) \/ GiveUp(p) PROVE CallersInv' /\ MarkersInv'
  <2>1. OthersStay(p) /\ (procs'[p].phase = "free" \/ (procs'[p].in = procs[p].in /\ procs[p].phase = "sending"))
    BY <1>7, SendsAndFrees
  <2>2. CallerOK(p)'
    BY <2>1, <1>0, <1>1 DEF CallerOK, Legal
  <2>3. UNCHANGED <<markers, launched>>
    BY <1>7 DEF Send, Record, GiveUp, files, told
  <2> QED
    BY <2>1, <2>2, <2>3, <1>3, <1>4
<1>8. CASE Tick
  <2>1. UNCHANGED <<markers, launched>>
    BY <1>8 DEF Tick, told
  <2>2. \A p \in Procs : procs'[p].phase = procs[p].phase /\ procs'[p].in = procs[p].in
    <3> SUFFICES ASSUME NEW p \in Procs
                 PROVE  procs'[p].phase = procs[p].phase /\ procs'[p].in = procs[p].in
      OBVIOUS
    <3>1. procs'[p] = IF p \in InFlight THEN [procs[p] EXCEPT !.held = @ + 1] ELSE procs[p]
      BY <1>8 DEF Tick
    <3> QED
      BY <3>1 DEF HookTypeOK
  <2>3. \A p \in Procs : CallerOK(p)'
    BY <2>2, <1>0, <1>1 DEF CallerOK, Legal
  <2> QED
    BY <2>1, <2>3, <1>0, <1>3
<1>9. CASE Answer \/ ShellEnds \/ Consume \/ Flicker \/ UNCHANGED hookVars
  <2>1. UNCHANGED <<procs, markers, launched>>
    BY <1>9 DEF Answer, ShellEnds, Consume, Flicker, hookVars, files, told
  <2> QED
    BY <2>1, <1>2, <1>3
<1> QED
  BY <1>5, <1>6, <1>7, <1>8, <1>9 DEF HooksNext, Hook

\* A stranger's hook is silenced by a marker, or derives nothing.
LEMMA StrangersSendNothing ==
  ASSUME HookTypeOK, CallersInv, MarkersInv, NEW p \in Procs,
         procs[p].phase = "new", Stranger(procs[p].in)
  PROVE  Admitted(procs[p].in) = {}
<1> DEFINE i == procs[p].in
<1>1. i \in Payloads /\ Legal(i)
  BY DEF HookTypeOK, CallersInv, InFlight, Legal
<1>2. CASE i.by \in launched
  <2>1. i.by \in markers /\ agent = "claude" /\ i.by # NoId
    BY <1>2, AgentHooksAssumption, AgentIntakeAssumption DEF MarkersInv, HookTypeOK
  <2>2. Silenced(i, markers)
    BY <1>1, <2>1 DEF Silenced, Legal
  <2> QED
    BY <2>1, <2>2 DEF Admitted
<1>3. CASE i.stray
  <2>1. agent = "codex"
    BY <1>1, <1>3 DEF Legal
  <2> QED
    BY <1>1, <1>3, <2>1, StraysDeriveNothing DEF Admitted
<1>4. CASE i.event = "subagentStop" /\ i.blank
  <2>1. agent = "claude"
    BY <1>1, <1>4 DEF Legal
  <2> QED
    BY <1>1, <1>4, <2>1, StraysDeriveNothing DEF Admitted
<1> QED
  BY <1>2, <1>3, <1>4 DEF Stranger

\* All of it holds of the first state, when no hook was called.
LEMMA HooksStart == HooksInit => HookTypeOK /\ CallersInv /\ MarkersInv
<1> SUFFICES ASSUME HooksInit PROVE HookTypeOK /\ CallersInv /\ MarkersInv
  OBVIOUS
<1> USE AgentHooksAssumption, PayloadIsOne
<1>1. procs = [p \in Procs |-> Free] /\ \A p \in Procs : procs[p] = Free
  BY DEF HooksInit
<1>2. queue \in Seq({queue[k] : k \in 1 .. Len(queue)})
  BY DEF HooksInit
<1>3. HookTypeOK
  BY <1>1, <1>2 DEF HooksInit, HookTypeOK, Free, NoRecord, Unsuspected
<1>4. InFlight = {}
  BY <1>1 DEF InFlight, Free
<1> QED
  BY <1>3, <1>4 DEF HooksInit, CallersInv, MarkersInv

\* No hook of somebody else than the pane's agent reaches a rail, for any
\* number of hook processes in flight, subagents and agents: its marker is there
\* from the intake of the launch on (BgAgents::intake), and an untyped
\* SubagentStop, a fork's and the daemon's hooks derive nothing.
THEOREM StrangersAreSilentCorrect == HooksSpec => StrangersAreSilent
<1>1. HookTypeOK /\ CallersInv /\ MarkersInv /\ [HooksNext]_hookVars =>
        \A p \in Procs : procs[p].phase = "new" /\ Stranger(procs[p].in) => procs'[p].phase \in {"new", "free"}
  <2> SUFFICES ASSUME HookTypeOK, CallersInv, MarkersInv, [HooksNext]_hookVars,
                      NEW p \in Procs, procs[p].phase = "new", Stranger(procs[p].in)
               PROVE  procs'[p].phase \in {"new", "free"}
    OBVIOUS
  <2>1. ASSUME NEW q \in Procs, q # p, OthersStay(q) PROVE procs'[p].phase = "new"
    BY <2>1 DEF OthersStay
  <2>2. CASE Prompt \/ Tool \/ Ask \/ Stop \/ Reset \/ SubagentHook \/ StrayHook
    <3>1. PICK i \in Payloads : Fire(i)
      BY <2>2, Calls
    <3>2. PICK q \in Procs : Called(q, i) /\ OthersStay(q)
      BY <3>1, FireCalls
    <3> QED
      BY <3>2, <2>1 DEF Called
  <2>3. ASSUME NEW q \in Procs, Intake(q) PROVE procs'[p].phase \in {"new", "free"}
    <3>1. Taken(q) /\ OthersStay(q)
      BY <2>3, IntakeTakes
    <3>2. CASE q = p
      BY <3>1, <3>2, StrangersSendNothing DEF Taken
    <3> QED
      BY <3>1, <3>2, <2>1
  <2>4. ASSUME NEW q \in Procs, Send(q) \/ Record(q) \/ GiveUp(q) PROVE procs'[p].phase \in {"new", "free"}
    <3>1. OthersStay(q) /\ q # p
      BY <2>4, SendsAndFrees DEF Delivered
    <3> QED
      BY <3>1, <2>1
  <2>5. CASE Tick
    <3>1. procs'[p] = IF p \in InFlight THEN [procs[p] EXCEPT !.held = @ + 1] ELSE procs[p]
      BY <2>5 DEF Tick
    <3> QED
      BY <3>1 DEF HookTypeOK
  <2>6. CASE Answer \/ ShellEnds \/ Consume \/ Flicker \/ UNCHANGED hookVars
    BY <2>6 DEF Answer, ShellEnds, Consume, Flicker, hookVars
  <2> QED
    BY <2>2, <2>3, <2>4, <2>5, <2>6 DEF HooksNext, Hook
<1> QED
  BY <1>1, HooksStart, HookTypes, CallersAndMarkers, PTL DEF HooksSpec, StrangersAreSilent

-----------------------------------------------------------------------------
(* The grace clock of a working agent                                      *)

\* A process that has not moved, nor the queue, is as delivered as it was.
LEMMA StaysDelivered ==
  ASSUME NEW p, procs'[p] = procs[p], UNCHANGED <<agent, queue>>
  PROVE  /\ Delivered(p)' <=> Delivered(p)
         /\ (p \in Procs /\ Telling(p)) => Telling(p)'
         /\ (p \in Procs /\ Closing(p)) => Closing(p)'
<1>1. (Delivered(p)' <=> Delivered(p)) /\ (Undelivered(p)' <=> Undelivered(p))
  BY DEF Delivered, Undelivered
<1>2. p \in Foreground => p \in Foreground'
  BY DEF Foreground, InFlight
<1> QED
  BY <1>1, <1>2 DEF Telling, Closing

\* Asking derives the same whatever may never end.
LEMMA AskDerives ==
  ASSUME NEW i \in Payloads, NEW j \in Payloads, i.event = "ask", j.event = "ask",
         ~i.stray, ~j.stray, i.blank = j.blank, NEW a \in AllAgents, Derive(a, i) # {}
  PROVE  Derive(a, j) # {}
<1>1. CASE a = "claude"
  <2>1. Derive(a, i) = DeriveClaude(i) /\ Derive(a, j) = DeriveClaude(j)
    BY <1>1 DEF Derive
  <2> QED
    BY <2>1 DEF DeriveClaude
<1>2. CASE a = "codex"
  <2>1. Derive(a, j) = DeriveCodex(j)
    BY <1>2 DEF Derive
  <2> QED
    BY <2>1 DEF DeriveCodex
<1>3. CASE a \in Bridged
  <2>1. Derive(a, i) = DeriveBridged(i) /\ Derive(a, j) = DeriveBridged(j)
    BY <1>3 DEF Derive, Bridged
  <2>2. StatusOfEvent("ask") = "pending"
    BY DEF StatusOfEvent
  <2> QED
    BY <2>1, <2>2 DEF DeriveBridged
<1> QED
  BY <1>1, <1>2, <1>3 DEF AllAgents

\* A call leaves no suspicion behind at rest or asking, and is news at work.
LEMMA ClockCalls ==
  ASSUME HookTypeOK, ClockInv,
         Prompt \/ Tool \/ Ask \/ Stop \/ Reset \/ SubagentHook \/ StrayHook
  PROVE  ClockInv'
<1> USE AgentHooksAssumption
<1>1. PICK i \in Payloads : Fire(i) /\ Legal(i) /\ CallOf(i)
  BY Calls
<1>2. PICK p \in Procs : Called(p, i) /\ OthersStay(p)
  BY <1>1, FireCalls
<1>3. UNCHANGED <<agent, kind, sent, markers, queue, row, quiet, launched>> /\ agent \in AllAgents
  BY <1>1, FireCalls DEF HookTypeOK
<1>4. \A q \in Procs : Delivered(q)' => Delivered(q) /\ procs'[q] = procs[q]
  <2> SUFFICES ASSUME NEW q \in Procs, Delivered(q)' PROVE Delivered(q) /\ procs'[q] = procs[q]
    OBVIOUS
  <2>1. q # p
    BY <1>2 DEF Called, Delivered
  <2> QED
    BY <2>1, <1>2, <1>3, StaysDelivered DEF OthersStay
<1>5. \A q \in Procs : (Telling(q) => Telling(q)') /\ (Closing(q) => Closing(q)')
  <2> SUFFICES ASSUME NEW q \in Procs, Telling(q) \/ Closing(q) PROVE procs'[q] = procs[q]
    BY <1>3, StaysDelivered
  <2>1. q # p
    BY <1>2 DEF Called, Telling, Closing, Foreground, InFlight
  <2> QED
    BY <2>1, <1>2 DEF OthersStay
<1>6. RecordInv' /\ HeldInv' /\ quiet' + 1 < QuietMax
  BY <1>3, <1>4 DEF ClockInv, RecordInv, HeldInv
<1> DEFINE j == [i EXCEPT !.services = Services]
<1>7. /\ j \in Payloads /\ j.event = i.event /\ j.by = i.by /\ j.stray = i.stray /\ j.blank = i.blank
      /\ procs'[p].in = j /\ procs'[p].phase = "new"
  <2>1. Services \in SUBSET WorkIds
    BY DEF Services
  <2>2. j \in Payloads /\ j.event = i.event /\ j.by = i.by /\ j.stray = i.stray /\ j.blank = i.blank
    BY <2>1 DEF Payloads
  <2> QED
    BY <1>2, <2>2 DEF Called
<1> HIDE DEF j
<1>8. ASSUME Owned(i), Derive(agent, j) # {} PROVE Telling(p)'
  <2>1. p \in Foreground'
    BY <1>7, <1>8 DEF Owned, Foreground, InFlight
  <2>2. Undelivered(p)'
    BY <1>7 DEF Undelivered
  <2> QED
    BY <2>1, <2>2, <1>3, <1>7, <1>8 DEF Telling
<1>9. ASSUME Owned(i), i.event \in {"ask", "stop", "error", "reset"}, Derive(agent, j) # {} PROVE Closing(p)'
  <2>1. j.event \in Events(agent)
    BY <1>1, <1>7, <1>9 DEF Owned, Legal
  <2>2. \A u \in Derive(agent, j) : ~(u.status = "running" /\ ~Edge(u))
    BY <2>1, <1>3, <1>7, <1>9, EndsAreSent
  <2> QED
    BY <2>2, <1>3, <1>7, <1>8, <1>9 DEF Closing
<1>10. Owned(i) /\ i.event \notin {"ask", "subagentStop"} => Derive(agent, j) # {}
  BY <1>1, <1>3, <1>7, OwnHooksDerive DEF Owned, Legal
<1>11. CASE /\ Owned(i) /\ i.event \notin {"ask", "subagentStop"}
            /\ turn' = "work" /\ (turn = "work" \/ Foreground = {})
  BY <1>6, <1>8, <1>10, <1>11 DEF ClockInv, RestInv, WorkInv
<1>12. CASE /\ Owned(i) /\ i.event = "ask" /\ turn = "work" /\ beat' = beat
            /\ turn' = IF Derive(agent, i) = {} THEN turn ELSE "ask"
  <2>1. CASE Derive(agent, i) = {}
    BY <2>1, <1>3, <1>5, <1>6, <1>12 DEF ClockInv, RestInv, WorkInv
  <2>2. CASE Derive(agent, i) # {}
    <3>1. Derive(agent, j) # {}
      BY <2>2, <1>3, <1>7, <1>12, AskDerives DEF Owned
    <3>2. Closing(p)' /\ turn' = "ask"
      BY <2>2, <3>1, <1>9, <1>12
    <3> QED
      BY <3>2, <1>6 DEF ClockInv, RestInv, WorkInv
  <2> QED
    BY <2>1, <2>2
<1>13. CASE Owned(i) /\ i.event \in {"stop", "error", "reset"} /\ turn' = "rest"
  <2>1. Closing(p)'
    BY <1>9, <1>10, <1>13
  <2> QED
    BY <2>1, <1>6, <1>13 DEF ClockInv, RestInv, WorkInv
<1>14. CASE turn' = turn /\ beat' = beat
  BY <1>3, <1>5, <1>6, <1>14 DEF ClockInv, RestInv, WorkInv
<1> QED
  BY <1>1, <1>11, <1>12, <1>13, <1>14 DEF CallOf

\* What is skipped as a repeat was recorded no longer ago than the record's
\* time, and the clock is no older than the record.
LEMMA SkippedIsRecent ==
  ASSUME HookTypeOK, RecordInv, NEW u, Skips(u)
  PROVE  quiet <= DedupTtl - 1
<1>1. sent.key.status = "running"
  BY DEF Skips, Redundant, SentKey
<1>2. NoRecord.key.status = "idle"
  BY DEF NoRecord, SentKey, NoUpdate, Update
<1>3. sent.age < DedupTtl /\ sent.age \in Nat
  BY <1>1, <1>2, AgentHooksAssumption DEF RecordInv, HookTypeOK
<1> QED
  BY <1>3, AgentHooksAssumption DEF RecordInv, HookTypeOK

\* A hook that is taken in is sent, or skipped as a repeat of a young record.
LEMMA ClockIntake ==
  ASSUME HookTypeOK, ClockInv, NEW p \in Procs, Intake(p)
  PROVE  ClockInv'
<1> USE AgentHooksAssumption, AgentIntakeAssumption
<1> DEFINE i == procs[p].in
           sends == {u \in Admitted(i) : ~Skips(u)}
<1>1. Taken(p) /\ OthersStay(p) /\ procs[p].phase = "new"
  BY IntakeTakes DEF Intake
<1>2. UNCHANGED <<agent, turn, beat, sent, queue, quiet>>
  BY DEF Intake, env, rail
<1>3. \A q \in Procs \ {p} : /\ Delivered(q)' <=> Delivered(q)
                             /\ (Telling(q) => Telling(q)') /\ (Closing(q) => Closing(q)')
  BY <1>1, <1>2, StaysDelivered DEF OthersStay
<1>4. ~Delivered(p)'
  BY <1>1 DEF Taken, Delivered
<1>5. RecordInv' /\ HeldInv' /\ quiet' + 1 < QuietMax
  <2>1. \A q \in Procs : Delivered(q)' => Delivered(q) /\ procs'[q] = procs[q]
    BY <1>1, <1>3, <1>4 DEF OthersStay
  <2> QED
    BY <2>1, <1>2 DEF ClockInv, RecordInv, HeldInv
<1>6. p \in Foreground => Admitted(i) = Derive(agent, i)
  <2> SUFFICES ASSUME p \in Foreground PROVE Admitted(i) = Derive(agent, i)
    OBVIOUS
  <2>1. i.by = NoId /\ NoId \notin markers
    BY DEF Foreground, HookTypeOK
  <2> QED
    BY <2>1 DEF Admitted, Silenced
<1>7. ASSUME sends # {}, p \in Foreground PROVE Closing(p)' /\ Telling(p)'
  <2>1. procs'[p].phase = "sending" /\ procs'[p].in = [Payload EXCEPT !.event = i.event, !.by = i.by]
    BY <1>1, <1>7 DEF Taken
  <2>2. procs'[p].in.by = i.by /\ ~procs'[p].in.stray /\ i.by = NoId
    BY <2>1, <1>7 DEF Payload, Foreground
  <2>3. p \in Foreground' /\ Undelivered(p)'
    BY <2>1, <2>2 DEF Foreground, InFlight, Undelivered
  <2> QED
    BY <2>1, <2>3 DEF Telling, Closing
<1>8. Closing(p) => Closing(p)'
  <2> SUFFICES ASSUME Closing(p) PROVE Closing(p)'
    OBVIOUS
  <2>1. p \in Foreground /\ Derive(agent, i) # {} /\ \A u \in Derive(agent, i) : ~(u.status = "running" /\ ~Edge(u))
    BY <1>1 DEF Closing, Telling
  <2>2. sends # {}
    BY <2>1, <1>6 DEF Skips, Redundant
  <2> QED
    BY <2>1, <2>2, <1>7
<1>9. Telling(p) => Telling(p)' \/ quiet <= DedupTtl - 1
  <2> SUFFICES ASSUME Telling(p) PROVE Telling(p)' \/ quiet <= DedupTtl - 1
    OBVIOUS
  <2>1. p \in Foreground /\ Derive(agent, i) # {}
    BY <1>1 DEF Telling
  <2>2. CASE sends = {}
    <3>1. PICK u \in Admitted(i) : Skips(u)
      BY <2>1, <2>2, <1>6
    <3> QED
      BY <3>1, SkippedIsRecent DEF ClockInv
  <2>3. CASE sends # {}
    BY <2>1, <2>3, <1>7
  <2> QED
    BY <2>2, <2>3
<1>10. RestInv'
  BY <1>2, <1>3, <1>8 DEF ClockInv, RestInv
<1>11. WorkInv'
  BY <1>2, <1>3, <1>9 DEF ClockInv, WorkInv, HookTypeOK
<1> QED
  BY <1>5, <1>10, <1>11 DEF ClockInv

\* What is queued is undelivered yet.
LEMMA ClockSends ==
  ASSUME HookTypeOK, ClockInv, NEW p \in Procs, Send(p)
  PROVE  ClockInv'
<1>1. /\ OthersStay(p) /\ procs[p].phase = "sending" /\ procs'[p].phase = "sent"
      /\ procs'[p].in = procs[p].in /\ procs'[p].held = procs[p].held
  BY SendsAndFrees
<1> DEFINE e == [proc |-> p, upd |-> ToWire(procs[p].upd)]
<1>2. UNCHANGED <<agent, turn, beat, sent, quiet>> /\ queue' = Append(queue, e)
  BY DEF Send, env, files
<1>3. /\ Len(queue') = Len(queue) + 1 /\ Len(queue) \in Nat
      /\ queue'[Len(queue) + 1].proc = p
      /\ \A k \in 1 .. Len(queue) : queue'[k] = queue[k]
      /\ DOMAIN queue' = 1 .. Len(queue') /\ DOMAIN queue = 1 .. Len(queue)
  <2> DEFINE S == {queue[k] : k \in 1 .. Len(queue)} \cup {e}
  <2>1. queue \in Seq(S) /\ e \in S
    BY SeqMonotonic DEF HookTypeOK
  <2>2. e.proc = p
    OBVIOUS
  <2> HIDE DEF S, e
  <2> QED
    BY <2>1, <2>2, <1>2
<1> HIDE DEF e
<1>4. ~Delivered(p)'
  BY <1>3 DEF Delivered
<1>5. \A q \in Procs \ {p} : Delivered(q)' <=> Delivered(q)
  <2> SUFFICES ASSUME NEW q \in Procs \ {p} PROVE Delivered(q)' <=> Delivered(q)
    OBVIOUS
  <2>1. procs'[q] = procs[q]
    BY <1>1 DEF OthersStay
  <2>2. (\A k \in DOMAIN queue' : queue'[k].proc # q) <=> (\A k \in DOMAIN queue : queue[k].proc # q)
    BY <1>3
  <2> QED
    BY <2>1, <2>2 DEF Delivered
<1>6. RecordInv' /\ HeldInv' /\ quiet' + 1 < QuietMax
  BY <1>1, <1>2, <1>4, <1>5 DEF ClockInv, RecordInv, HeldInv, OthersStay
<1>7. \A q \in Procs : (Telling(q) => Telling(q)') /\ (Closing(q) => Closing(q)')
  <2> SUFFICES ASSUME NEW q \in Procs
               PROVE  (Telling(q) => Telling(q)') /\ (Closing(q) => Closing(q)')
    OBVIOUS
  <2>1. CASE q = p
    <3>1. p \in Foreground => p \in Foreground'
      BY <1>1 DEF Foreground, InFlight
    <3>2. Undelivered(p)' /\ procs'[p].phase # "new"
      BY <1>1, <1>4 DEF Undelivered
    <3> QED
      BY <2>1, <3>1, <3>2 DEF Telling, Closing
  <2>2. CASE q # p
    <3>1. procs'[q] = procs[q]
      BY <2>2, <1>1 DEF OthersStay
    <3>2. (q \in Foreground => q \in Foreground') /\ (Undelivered(q) => Undelivered(q)')
      BY <2>2, <3>1, <1>5 DEF Foreground, InFlight, Undelivered
    <3> QED
      BY <3>1, <3>2, <1>2 DEF Telling, Closing
  <2> QED
    BY <2>1, <2>2
<1>8. RestInv' /\ WorkInv'
  BY <1>2, <1>7 DEF ClockInv, RestInv, WorkInv
<1> QED
  BY <1>6, <1>8 DEF ClockInv

\* What is recorded is as old as its process was held up.
LEMMA ClockFrees ==
  ASSUME HookTypeOK, ClockInv, NEW p \in Procs, Record(p) \/ GiveUp(p)
  PROVE  ClockInv'
<1> USE AgentHooksAssumption
<1>1. OthersStay(p) /\ Delivered(p) /\ procs'[p].phase = "free"
  BY SendsAndFrees
<1>2. UNCHANGED <<agent, turn, beat, quiet, queue>>
  BY DEF Record, GiveUp, env, rail
<1>3. \A q \in Procs : /\ Delivered(q)' => Delivered(q) /\ procs'[q] = procs[q]
                       /\ (Telling(q) => Telling(q)') /\ (Closing(q) => Closing(q)')
  <2> SUFFICES ASSUME NEW q \in Procs
               PROVE  /\ Delivered(q)' => Delivered(q) /\ procs'[q] = procs[q]
                      /\ (Telling(q) => Telling(q)') /\ (Closing(q) => Closing(q)')
    OBVIOUS
  <2>1. CASE q = p
    <3>1. ~Delivered(p)' /\ ~Telling(p) /\ ~Closing(p)
      BY <1>1 DEF Delivered, Telling, Closing, Undelivered
    <3> QED
      BY <2>1, <3>1
  <2>2. CASE q # p
    BY <2>2, <1>1, <1>2, StaysDelivered DEF OthersStay
  <2> QED
    BY <2>1, <2>2
<1>4. HeldInv' /\ quiet' + 1 < QuietMax
  BY <1>2, <1>3 DEF ClockInv, HeldInv
<1>5. RecordInv'
  <2>1. CASE Record(p)
    <3> DEFINE r == [key |-> SentKey(procs[p].upd), age |-> procs[p].held]
    <3>1. sent' = Remembered(r) /\ r.age = procs[p].held /\ procs[p].held \in Nat
      BY <2>1 DEF Record, HookTypeOK
    <3>2. quiet <= procs[p].held
      BY <1>1 DEF ClockInv, HeldInv
    <3>3. NoRecord.age = DedupTtl
      BY DEF NoRecord
    <3> HIDE DEF r
    <3>4. CASE r.age < DedupTtl
      BY <3>1, <3>2, <3>4, <1>2 DEF Remembered, RecordInv
    <3>5. CASE ~(r.age < DedupTtl)
      BY <3>1, <3>3, <3>5 DEF Remembered, RecordInv
    <3> QED
      BY <3>4, <3>5
  <2>2. CASE GiveUp(p)
    BY <2>2, <1>2 DEF GiveUp, files, ClockInv, RecordInv
  <2> QED
    BY <2>1, <2>2
<1>6. RestInv' /\ WorkInv'
  BY <1>2, <1>3 DEF ClockInv, RestInv, WorkInv
<1> QED
  BY <1>4, <1>5, <1>6 DEF ClockInv

\* The bounds of the clock stay below its limit.
LEMMA ClockBound ==
  ASSUME NEW q \in Int, NEW b \in 0 .. Beat, q <= b + DedupTtl - 1 \/ q <= EdgeTimeout \/ q = Unsuspected
  PROVE  q + 1 < QuietMax
<1> DEFINE d == DedupTtl
           m == QuietMax
           t == EdgeTimeout
           r == RunningTimeout
           e == Beat
<1>1. d \in Nat /\ m \in Nat /\ t \in Nat /\ e \in Nat /\ r \in Nat /\ d + e + r < m /\ t + 1 < m
  BY AgentHooksAssumption
<1>2. q <= b + d - 1 \/ q <= t \/ q = -1
  BY DEF Unsuspected
<1>3. b <= e /\ b \in Nat
  BY <1>1
<1> HIDE DEF d, m, t, r, e
<1>4. q + 1 < m
  BY <1>1, <1>2, <1>3
<1> QED
  BY <1>4 DEF m

\* A second passes only while every hook is held up: the clock of a working
\* agent runs as long as its beat, or as the hook it waits for.
LEMMA ClockTicks ==
  ASSUME HookTypeOK, ClockInv, Tick
  PROVE  ClockInv'
<1> USE AgentHooksAssumption DEF Unsuspected
<1>1. /\ UNCHANGED <<agent, turn, queue>>
      /\ \A p \in InFlight : HeldUp(p)
      /\ turn = "work" /\ Foreground = {} => beat < Beat
      /\ beat' = IF turn = "work" THEN Saturate(beat, Beat) ELSE 0
      /\ sent' = Remembered([sent EXCEPT !.age = @ + 1])
  BY DEF Tick
<1>2. quiet' = IF quiet = Unsuspected THEN Unsuspected ELSE quiet + 1
  BY DEF Tick, ClockInv, GraceExpired, HookTypeOK
<1>3. quiet \in Int /\ quiet >= -1 /\ beat \in 0 .. Beat
  BY DEF HookTypeOK
<1>4. \A p \in Procs : ~Telling(p) /\ ~Closing(p)
  BY <1>1 DEF Telling, Closing, Undelivered, Foreground, HeldUp, Delivered
<1>5. turn # "work" => quiet = Unsuspected
  BY <1>4 DEF ClockInv, RestInv
<1>6. \A p \in InFlight : /\ quiet <= procs[p].held /\ procs[p].held + 1 <= EdgeTimeout
                          /\ procs'[p].held = procs[p].held + 1 /\ procs[p].held \in Nat
  <2> SUFFICES ASSUME NEW p \in InFlight
               PROVE  /\ quiet <= procs[p].held /\ procs[p].held + 1 <= EdgeTimeout
                      /\ procs'[p].held = procs[p].held + 1 /\ procs[p].held \in Nat
    OBVIOUS
  <2>1. p \in Procs /\ HeldUp(p) /\ procs[p].held \in Nat
    BY <1>1 DEF InFlight, HookTypeOK
  <2>2. quiet <= procs[p].held
    BY <2>1 DEF HeldUp, ClockInv, HeldInv
  <2>3. procs[p].held + 1 <= EdgeTimeout
    BY <2>1 DEF HeldUp, Deadline
  <2>4. procs'[p] = [procs[p] EXCEPT !.held = @ + 1]
    BY <2>1 DEF Tick
  <2>5. procs'[p].held = procs[p].held + 1
    BY <2>1, <2>4 DEF HookTypeOK
  <2> QED
    BY <2>1, <2>2, <2>3, <2>5
<1>7. HeldInv'
  <2> SUFFICES ASSUME NEW p \in Procs, Delivered(p)' PROVE quiet' <= procs'[p].held
    BY DEF HeldInv
  <2>1. p \in InFlight
    <3>1. p \notin InFlight => procs'[p] = procs[p]
      BY DEF Tick
    <3> QED
      BY <3>1 DEF InFlight, Delivered
  <2> QED
    BY <2>1, <1>2, <1>3, <1>6
<1>8. RecordInv'
  <2>1. [sent EXCEPT !.age = @ + 1].age = sent.age + 1 /\ sent.age \in Nat
    BY DEF HookTypeOK
  <2>2. NoRecord.age = DedupTtl
    BY DEF NoRecord
  <2>3. CASE sent.age + 1 < DedupTtl
    BY <2>1, <2>3, <1>1, <1>2, <1>3 DEF Remembered, RecordInv, ClockInv
  <2>4. CASE ~(sent.age + 1 < DedupTtl)
    BY <2>1, <2>2, <2>4, <1>1 DEF Remembered, RecordInv
  <2> QED
    BY <2>3, <2>4
<1>9. RestInv'
  BY <1>1, <1>2, <1>5 DEF RestInv
<1>10. turn = "work" => quiet' <= beat' + DedupTtl - 1 \/ (beat' = Beat /\ quiet' <= EdgeTimeout)
  <2> SUFFICES ASSUME turn = "work"
               PROVE  quiet' <= beat' + DedupTtl - 1 \/ (beat' = Beat /\ quiet' <= EdgeTimeout)
    OBVIOUS
  <2>1. quiet <= beat + DedupTtl - 1 \/ (beat = Beat /\ quiet <= EdgeTimeout)
    BY <1>4 DEF ClockInv, WorkInv
  <2>2. CASE beat < Beat
    BY <2>1, <2>2, <1>1, <1>2, <1>3 DEF Saturate
  <2>3. CASE ~(beat < Beat)
    <3>1. PICK p \in Foreground : TRUE
      BY <2>3, <1>1
    <3>2. quiet + 1 <= EdgeTimeout
      BY <3>1, <1>3, <1>6 DEF Foreground
    <3> QED
      BY <2>3, <3>2, <1>1, <1>2, <1>3 DEF Saturate
  <2> QED
    BY <2>2, <2>3
<1>11. beat' \in 0 .. Beat /\ quiet' \in Int
  BY <1>1, <1>2, <1>3 DEF Saturate
<1>12. quiet' + 1 < QuietMax
  BY <1>2, <1>5, <1>10, <1>11, ClockBound
<1> QED
  BY <1>1, <1>7, <1>8, <1>9, <1>10, <1>12 DEF ClockInv, WorkInv

\* The clock's invariant through every step.
LEMMA ClockSteps ==
  HookTypeOK /\ ClockInv /\ [HooksNext]_hookVars => ClockInv'
<1> SUFFICES ASSUME HookTypeOK, ClockInv, [HooksNext]_hookVars PROVE ClockInv'
  OBVIOUS
<1> USE AgentHooksAssumption DEF Unsuspected
<1>1. ASSUME UNCHANGED <<agent, procs, queue>>
      PROVE  \A p \in Procs : /\ Delivered(p)' <=> Delivered(p)
                              /\ (Telling(p) => Telling(p)') /\ (Closing(p) => Closing(p)')
  BY <1>1, StaysDelivered
<1>2. ASSUME UNCHANGED <<agent, procs, queue, sent, quiet, turn, beat>> PROVE ClockInv'
  BY <1>1, <1>2 DEF ClockInv, RecordInv, HeldInv, RestInv, WorkInv
<1>3. CASE Answer
  <2>1. UNCHANGED <<agent, procs, queue, sent, quiet>> /\ turn = "ask" /\ turn' = "work" /\ beat' = 0
    BY <1>3 DEF Answer, files, rail
  <2>2. quiet = Unsuspected \/ \E p \in Procs : Closing(p)
    BY <2>1 DEF ClockInv, RestInv
  <2>3. quiet' <= beat' + DedupTtl - 1 \/ \E p \in Procs : Telling(p)'
    BY <2>1, <2>2, <1>1 DEF Closing
  <2> QED
    BY <2>1, <2>3, <1>1 DEF ClockInv, RecordInv, HeldInv, RestInv, WorkInv
<1>4. CASE Consume
  <2>1. UNCHANGED <<agent, procs, sent, turn, beat>> /\ quiet' = -1
    BY <1>4 DEF Consume, env, files
  <2>2. sent.age \in Nat /\ beat \in Nat /\ \A p \in Procs : procs[p].held \in Nat
    BY DEF HookTypeOK
  <2>3. QuietMax > 0
    BY DEF ClockInv, HookTypeOK
  <2> QED
    BY <2>1, <2>2, <2>3 DEF ClockInv, RecordInv, HeldInv, RestInv, WorkInv
<1>5. CASE Flicker
  <2>1. UNCHANGED <<agent, procs, sent, turn, beat, queue>> /\ quiet' = 0 /\ turn = "work"
    BY <1>5 DEF Flicker, env, files
  <2>2. sent.age \in Nat /\ beat \in Nat /\ \A p \in Procs : procs[p].held \in Nat
    BY DEF HookTypeOK
  <2>3. HeldInv' /\ RecordInv'
    BY <2>1, <2>2 DEF ClockInv, RecordInv, HeldInv
  <2> QED
    BY <2>1, <2>2, <2>3 DEF ClockInv, RestInv, WorkInv
<1>6. CASE ShellEnds \/ UNCHANGED hookVars
  BY <1>2, <1>6 DEF ShellEnds, hookVars, env, files, rail
<1> QED
  BY <1>3, <1>4, <1>5, <1>6, ClockCalls, ClockIntake, ClockSends, ClockFrees, ClockTicks DEF HooksNext, Hook

\* The grace clock of a working agent never runs out (dedup.rs, pipe.rs): a
\* repeat is skipped only while its record is younger than DEDUP_TTL_SECS, and a
\* wedged rail holds a hook up for its deadline at most. Both are needed below
\* RUNNING_QUIET_MAX_SECS; a repeat's record, the agent's beat and a deadline
\* bound the clock.
THEOREM LiveRowIsKeptCorrect == HooksSpec => LiveRowIsKept
<1>1. HooksInit => ClockInv
  <2> SUFFICES ASSUME HooksInit PROVE ClockInv
    OBVIOUS
  <2>1. quiet = -1 /\ turn = "rest" /\ sent = NoRecord /\ \A p \in Procs : procs[p] = Free
    BY DEF HooksInit, Unsuspected
  <2>2. \A p \in Procs : ~Delivered(p)
    BY <2>1 DEF Delivered, Free
  <2> QED
    BY <2>1, <2>2, AgentHooksAssumption
       DEF ClockInv, RecordInv, HeldInv, RestInv, WorkInv, NoRecord, Unsuspected
<1>2. HookTypeOK /\ ClockInv => ~GraceExpired
  BY AgentHooksAssumption DEF ClockInv, GraceExpired, HookTypeOK
<1> QED
  BY <1>1, <1>2, HooksStart, HookTypes, CallersAndMarkers, ClockSteps, PTL DEF HooksSpec, LiveRowIsKept

-----------------------------------------------------------------------------
(* What a finite order has                                                 *)

\* A finite set in a strict total order has a last element: otherwise the numbers
\* of elements after each, of which no two are equal, do not fit.
LEMMA LastElement ==
  ASSUME NEW S, IsFiniteSet(S), S # {}, NEW R,
         \A x \in S : <<x, x>> \notin R,
         \A x, y, z \in S : <<x, y>> \in R /\ <<y, z>> \in R => <<x, z>> \in R,
         \A x, y \in S : x = y \/ <<x, y>> \in R \/ <<y, x>> \in R
  PROVE  \E x \in S : \A y \in S : <<x, y>> \notin R
<1> DEFINE After(x) == {y \in S : <<x, y>> \in R}
           n == Cardinality(S)
           count == [x \in S |-> Cardinality(After(x))]
<1>1. n \in Nat
  BY FS_CardinalityType
<1>2. ASSUME NEW x \in S
      PROVE  IsFiniteSet(After(x)) /\ Cardinality(After(x)) \in 0 .. n - 1
  <2>1. After(x) \in SUBSET S /\ After(x) # S
    BY DEF After
  <2> HIDE DEF After
  <2>2. IsFiniteSet(After(x)) /\ Cardinality(After(x)) <= n /\ Cardinality(After(x)) # n
    BY <2>1, FS_Subset
  <2>3. Cardinality(After(x)) \in Nat
    BY <2>2, FS_CardinalityType
  <2> QED
    BY <1>1, <2>2, <2>3
<1>3. ASSUME NEW x \in S, NEW y \in S, <<x, y>> \in R
      PROVE  Cardinality(After(y)) # Cardinality(After(x))
  <2>1. After(y) \in SUBSET After(x) /\ After(y) # After(x)
    BY <1>3 DEF After
  <2> QED
    BY <1>2, <2>1, FS_Subset
<1> SUFFICES ASSUME \A x \in S : \E y \in S : <<x, y>> \in R PROVE FALSE
  OBVIOUS
<1>4. ASSUME NEW x \in S PROVE count[x] \in 1 .. n - 1
  <2>1. After(x) # {}
    BY DEF After
  <2> HIDE DEF After
  <2>2. Cardinality(After(x)) # 0
    BY <1>2, <2>1, FS_EmptySet
  <2> QED
    BY <1>1, <1>2, <2>2
<1> HIDE DEF After
<1>5. count \in [S -> 1 .. n - 1]
  BY <1>4
<1>6. IsFiniteSet(1 .. n - 1) /\ Cardinality(1 .. n - 1) < n
  <2>1. n # 0
    BY FS_EmptySet
  <2> HIDE DEF n
  <2>2. 1 \in Int /\ n - 1 \in Int
    BY <1>1
  <2>3. IsFiniteSet(1 .. n - 1) /\ Cardinality(1 .. n - 1) = IF 1 > n - 1 THEN 0 ELSE (n - 1) - 1 + 1
    BY <2>2, FS_Interval
  <2> QED
    BY <1>1, <2>1, <2>3
<1>7. PICK x \in S, y \in S : x # y /\ count[x] = count[y]
  <2> DEFINE T == 1 .. n - 1
  <2>1. count \in [S -> T] /\ IsFiniteSet(T) /\ Cardinality(T) < Cardinality(S)
    BY <1>5, <1>6
  <2> HIDE DEF count, T
  <2> QED
    BY <2>1, FS_PigeonHole
<1> QED
  BY <1>3, <1>7

-----------------------------------------------------------------------------
(* A rail and the other sessions                                           *)

\* Nobody is born before the one it follows has died, and only who was born
\* wrote a file.
LivesInv ==
  /\ lives \in [Files -> {"unborn", "alive", "killed"}]
  /\ disk = [f \in Files |-> disk[f]]
  /\ \A f, g \in Files : <<f, g>> \in Follows /\ lives[g] # "unborn" => lives[f] = "killed"
  /\ \A f \in Files : lives[f] = "unborn" => disk[f] = Reader!Nothing

\* The badge names nobody who never lived, and what is picked was tapped, with
\* one fire since, or none if the tap was after it.
PickInv ==
  /\ peers = [n \in Reader!Names |-> peers[n]]
  /\ \A n \in Reader!Names :
       peers[n] # Reader!Nothing => \E f \in Files : NameOf[f] = n /\ lives[f] # "unborn"
  /\ picked # Reader!NoName => aimed = picked /\ calm = IF tapped THEN 0 ELSE 1
  /\ tapped \in BOOLEAN

PeersInv == LivesInv /\ PickInv

\* There is a newest file of a name, unless nobody has that name.
LEMMA BestIsThere ==
  ASSUME NEW n, NEW age, NEW e \in Files, NameOf[e] = n
  PROVE  LET f == Reader!Best(n, age)
         IN  /\ f \in Files /\ NameOf[f] = n
             /\ \A g \in Files : NameOf[g] = n /\ <<f, g>> \in Follows => age[g] = Reader!NoFile
             /\ age[f] = Reader!NoFile => \A g \in Files : NameOf[g] = n => age[g] = Reader!NoFile
<1> DEFINE there == {f \in Files : NameOf[f] = n /\ age[f] # Reader!NoFile}
           newest(f) ==
             /\ NameOf[f] = n
             /\ \A g \in Files : NameOf[g] = n /\ <<f, g>> \in Follows => age[g] = Reader!NoFile
             /\ age[f] = Reader!NoFile => \A g \in Files : NameOf[g] = n => age[g] = Reader!NoFile
<1>1. CASE there = {}
  BY <1>1 DEF Reader!Best
<1>2. CASE there # {}
  <2>1. IsFiniteSet(there)
    <3>1. IsFiniteSet(Files)
      BY CrossSessionAssumption DEF Reader!PeerSessionsAssumption, Reader!IsFiniteSet, IsFiniteSet
    <3> QED
      BY <3>1, FS_Subset
  <2>2. /\ \A f \in there : <<f, f>> \notin Follows
        /\ \A f, g, h \in there : <<f, g>> \in Follows /\ <<g, h>> \in Follows => <<f, h>> \in Follows
        /\ \A f, g \in there : f = g \/ <<f, g>> \in Follows \/ <<g, f>> \in Follows
    BY CrossSessionAssumption DEF Reader!PeerSessionsAssumption
  <2> HIDE DEF there
  <2>3. PICK f \in there : \A g \in there : <<f, g>> \notin Follows
    BY <1>2, <2>1, <2>2, LastElement
  <2>4. f \in Files /\ newest(f)
    BY <2>3 DEF there
  <2> QED
    BY <2>4 DEF Reader!Best
<1> QED
  BY <1>1, <1>2

\* The file of a live session is the newest of its name.
LEMMA LiveIsBest ==
  ASSUME LivesInv, NEW f \in Files, lives[f] = "alive", disk[f].age # Reader!NoFile
  PROVE  Reader!Read(NameOf[f]) = disk[f]
<1> DEFINE age == [g \in Files |-> disk[g].age]
           b == Reader!Best(NameOf[f], age)
<1>1. /\ b \in Files /\ NameOf[b] = NameOf[f]
      /\ <<b, f>> \in Follows => age[f] = Reader!NoFile
      /\ age[b] = Reader!NoFile => age[f] = Reader!NoFile
  BY BestIsThere
<1> HIDE DEF b
<1>2. CASE b # f
  <2>1. <<f, b>> \in Follows
    BY <1>1, <1>2, CrossSessionAssumption DEF Reader!PeerSessionsAssumption
  <2>2. lives[b] = "unborn" /\ disk[b] = Reader!Nothing
    BY <1>1, <2>1 DEF LivesInv
  <2> QED
    BY <1>1, <2>2 DEF Reader!Nothing
<1> QED
  BY <1>2 DEF Reader!Read, b

\* What is read of a name was written by somebody of that name.
LEMMA ReadIsWritten ==
  ASSUME LivesInv, NEW n, Reader!Read(n) # Reader!Nothing
  PROVE  \E f \in Files : NameOf[f] = n /\ lives[f] # "unborn"
<1>1. PICK e \in Files : NameOf[e] = n
  BY DEF Reader!Read
<1> DEFINE b == Reader!Best(n, [g \in Files |-> disk[g].age])
<1>2. b \in Files /\ NameOf[b] = n
  BY <1>1, BestIsThere
<1>3. Reader!Read(n) = disk[b]
  BY <1>1 DEF Reader!Read
<1> QED
  BY <1>2, <1>3 DEF LivesInv

\* Nobody has lived, and nothing is shown.
LEMMA PeersStart == Reader!Init => PeersInv
BY DEF Reader!Init, PeersInv, LivesInv, PickInv

\* What each step of the rail and of the other sessions leaves true.
LEMMA PeersStep == PeersInv /\ [Reader!Next]_read => PeersInv'
<1> SUFFICES ASSUME PeersInv, [Reader!Next]_read PROVE PeersInv'
  OBVIOUS
<1> USE DEF PeersInv
<1>1. ASSUME NEW f \in Files, NEW attention \in BOOLEAN, Reader!Publish(f, attention) PROVE PeersInv'
  <2>1. LivesInv'
    BY <1>1, CrossSessionAssumption DEF Reader!Publish, LivesInv, Reader!PeerSessionsAssumption
  <2>2. PickInv'
    BY <1>1 DEF Reader!Publish, LivesInv, PickInv, Reader!cycling
  <2> QED
    BY <2>1, <2>2
<1>2. ASSUME NEW f \in Files, Reader!Kill(f) PROVE PeersInv'
  BY <1>2 DEF Reader!Kill, LivesInv, PickInv, Reader!cycling
<1>3. ASSUME NEW dir \in {1, -1}, Reader!Cycle(dir) PROVE PeersInv'
  BY <1>3 DEF Reader!Cycle, LivesInv, PickInv
<1>4. CASE Reader!Fire
  <2>1. LivesInv'
    BY <1>4 DEF Reader!Fire, LivesInv
  <2>2. UNCHANGED peers /\ tapped' = FALSE
    BY <1>4 DEF Reader!Fire
  <2>3. picked' # Reader!NoName => aimed' = picked' /\ calm' = 1
    BY <1>4 DEF Reader!Fire, Reader!Commits, PickInv
  <2>4. \A n \in Reader!Names :
          peers'[n] # Reader!Nothing => \E f \in Files : NameOf[f] = n /\ lives'[f] # "unborn"
    BY <1>4, <2>2 DEF Reader!Fire, PickInv
  <2> QED
    BY <2>1, <2>2, <2>3, <2>4 DEF PickInv
<1>5. CASE Reader!Scan
  <2>1. LivesInv'
    BY <1>5 DEF Reader!Scan, LivesInv
  <2>2. ASSUME NEW n \in Reader!Names, peers'[n] # Reader!Nothing
        PROVE  \E f \in Files : NameOf[f] = n /\ lives'[f] # "unborn"
    BY <1>5, <2>2, ReadIsWritten DEF Reader!Scan
  <2> QED
    BY <1>5, <2>1, <2>2 DEF Reader!Scan, PickInv
<1>6. ASSUME NEW n \in Reader!Names, Reader!Dismiss(n) PROVE PeersInv'
  BY <1>6 DEF Reader!Dismiss, LivesInv, PickInv
<1>7. ASSUME NEW n \in Reader!Names, Reader!Unlink(n) PROVE PeersInv'
  BY <1>7 DEF Reader!Unlink, LivesInv, PickInv
<1>8. CASE Reader!Elapse
  <2>1. UNCHANGED <<lives, peers, doing, picked, tapped, aimed, calm>>
    BY <1>8 DEF Reader!Elapse
  <2>2. \A f \in Files : disk[f] = Reader!Nothing => disk'[f] = Reader!Nothing
    BY <1>8 DEF Reader!Elapse, Reader!Nothing, Reader!NoFile
  <2>3. disk' = [f \in Files |-> disk'[f]]
    BY <1>8 DEF Reader!Elapse
  <2> QED
    BY <2>1, <2>2, <2>3 DEF LivesInv, PickInv
<1>9. CASE UNCHANGED read
  BY <1>9 DEF read, LivesInv, PickInv
<1> QED
  BY <1>1, <1>2, <1>3, <1>4, <1>5, <1>6, <1>7, <1>8, <1>9 DEF Reader!Next, Reader!Rail, Reader!Session

\* A step of the badge, or none.
LEMMA PeersMove ==
  [CrossNext]_crossVars => [Reader!Next]_read
BY DEF CrossNext, WriterStep, ReaderStep, crossVars

\* Of the sessions of one name at most one is alive and it comes last, and the
\* badge shows nobody who never lived.
THEOREM PeersCorrect == CrossSpec => []PeersInv
<1>1. CrossInit => PeersInv
  BY PeersStart DEF CrossInit
<1> QED
  BY <1>1, PeersMove, PeersStep, PTL DEF CrossSpec

\* A scan shows every live session that wrote in time, and reaps none of them,
\* whatever corpses of its name lie about; and the cycle switches only to the
\* session that the last tap highlighted, after a quiet interval, fresh on the
\* badge: for any sessions, names, lives and windows.
THEOREM PeersAreLiveCorrect == CrossSpec => PeersAreLive
<1>2. PeersInv /\ [CrossNext]_crossVars =>
        [doing.scan /\ ~doing'.scan => \A f \in Files :
           lives[f] = "alive" /\ NameOf[f] # Own /\ disk[f].age \in 0..StaleSeen
             => peers'[NameOf[f]] = disk[f] /\ NameOf[f] \notin doing'.unlink]_read
  <2> SUFFICES ASSUME PeersInv, Reader!Next, doing.scan, ~doing'.scan, NEW f \in Files,
                      lives[f] = "alive", disk[f].age \in 0..StaleSeen
               PROVE  peers'[NameOf[f]] = disk[f] /\ NameOf[f] \notin doing'.unlink
    BY PeersMove
  <2>1. Reader!Scan
    BY DEF Reader!Next, Reader!Rail, Reader!Session, Reader!Elapse, Reader!Fire, Reader!Cycle,
           Reader!Dismiss, Reader!Unlink, Reader!Kill, Reader!Publish, Reader!Idle, Reader!AtRest
  <2>2. Reader!Read(NameOf[f]) = disk[f] /\ NameOf[f] \in Reader!Names
    BY LiveIsBest DEF PeersInv, Reader!NoFile, Reader!Names
  <2>3. StaleSeen \in Nat /\ DeadSeen \in Nat /\ StaleSeen < DeadSeen
    BY CrossSessionAssumption DEF Reader!PeerSessionsAssumption
  <2>4. ~Reader!Dead(disk[f])
    BY <2>3 DEF Reader!Dead
  <2> QED
    BY <2>1, <2>2, <2>4 DEF Reader!Scan
<1>3. PeersInv /\ [CrossNext]_crossVars =>
        [went' \notin {went, Reader!NoName} =>
           /\ went' = aimed /\ calm = 1
           /\ ~Reader!Stale(peers[went'])
           /\ \E f \in Files : NameOf[f] = went' /\ lives[f] # "unborn"]_read
  <2> SUFFICES ASSUME PeersInv, Reader!Next, went' \notin {went, Reader!NoName}
               PROVE  /\ went' = aimed /\ calm = 1
                      /\ ~Reader!Stale(peers[went'])
                      /\ \E f \in Files : NameOf[f] = went' /\ lives[f] # "unborn"
    BY PeersMove
  <2>1. Reader!Fire
    BY DEF Reader!Next, Reader!Rail, Reader!Session, Reader!Elapse, Reader!Scan, Reader!Cycle,
           Reader!Dismiss, Reader!Unlink, Reader!Kill, Reader!Publish, Reader!cycling
  <2>2. /\ picked # Reader!NoName /\ ~tapped /\ picked # Own
        /\ Reader!Selectable(picked) /\ went' = picked
    BY <2>1 DEF Reader!Fire, Reader!Commits
  <2>3. picked \in Reader!Names /\ peers[picked] # Reader!Nothing /\ ~Reader!Stale(peers[picked])
    BY <2>2 DEF Reader!Selectable, Reader!Listed
  <2> QED
    BY <2>2, <2>3 DEF PeersInv, PickInv
<1> QED
  BY <1>2, <1>3, PeersCorrect, PTL
    DEF CrossSpec, PeersAreLive, LivePeersAreListed, CommitIsDeliberate,
        Reader!LivePeersAreListed, Reader!CommitIsDeliberate, Reader!vars, read

-----------------------------------------------------------------------------
(* Numbers, and what is done one time after the other                      *)

\* A set of numbers that has one has a least one.
LEMMA LeastNumber ==
  ASSUME NEW S \in SUBSET Nat, S # {}
  PROVE  \E x \in S : \A y \in S : x <= y
<1> DEFINE Below == {ss \in Nat \X Nat : ss[1] < ss[2]}
<1>1. IsWellFoundedOn(Below, Nat)
  BY NatLessThanWellFounded DEF OpToRel
<1> HIDE DEF Below
<1>2. PICK x \in S : \A y \in S : ~(<<y, x>> \in Below)
  BY <1>1, WFMin
<1>3. ASSUME NEW y \in S PROVE x <= y
  <2>1. <<y, x>> \notin Below /\ x \in Nat /\ y \in Nat
    BY <1>2
  <2>2. ~(y < x)
    BY <2>1 DEF Below
  <2> QED
    BY <2>1, <2>2
<1> QED
  BY <1>2, <1>3

\* A set of numbers that has 0, and with each the next, has them all.
LEMMA Reach ==
  ASSUME NEW n \in Nat, NEW S, 0 \in S, \A k \in 0 .. n - 1 : k \in S => k + 1 \in S
  PROVE  0 .. n \subseteq S
<1> DEFINE M == {k \in 0 .. n : k \notin S}
<1> SUFFICES ASSUME M # {} PROVE FALSE
  OBVIOUS
<1>1. PICK x \in M : \A y \in M : x <= y
  <2>1. M \in SUBSET Nat
    OBVIOUS
  <2> QED
    BY <2>1, LeastNumber
<1>2. x \in 0 .. n /\ x # 0 /\ x - 1 \in 0 .. n - 1 /\ x - 1 \notin M
  BY <1>1
<1> QED
  BY <1>1, <1>2

\* g iterates F from base.
Unfolds(g, n, base, F) == g[0] = base /\ \A m \in 1 .. n : g[m] = F[m][g[m - 1]]

\* A function given by its value at 0 and a step is the function it says it is.
LEMMA Iterates ==
  ASSUME NEW n \in Nat, NEW X, NEW base \in X, NEW F \in [1 .. n -> [X -> X]]
  PROVE  \E g \in [0 .. n -> X] : Unfolds(g, n, base, F)
<1> DEFINE Upto(k, g) == g[0] = base /\ \A m \in 1 .. k : g[m] = F[m][g[m - 1]]
           S == {k \in 0 .. n : \E g \in [0 .. n -> X] : Upto(k, g)}
<1>1. 0 \in S
  <2> DEFINE g == [m \in 0 .. n |-> base]
  <2>1. g \in [0 .. n -> X] /\ Upto(0, g)
    OBVIOUS
  <2>2. 0 \in 0 .. n
    OBVIOUS
  <2> HIDE DEF g, Upto
  <2> QED
    BY <2>1, <2>2
<1>2. ASSUME NEW k \in 0 .. n - 1, k \in S PROVE k + 1 \in S
  <2>1. PICK g \in [0 .. n -> X] : Upto(k, g)
    BY <1>2
  <2> DEFINE h == [m \in 0 .. n |-> IF m = k + 1 THEN F[k + 1][g[k]] ELSE g[m]]
  <2>2. g[k] \in X /\ k + 1 \in 1 .. n /\ F[k + 1][g[k]] \in X
    OBVIOUS
  <2>3. h \in [0 .. n -> X]
    BY <2>2
  <2>4. ASSUME NEW m \in 1 .. k + 1 PROVE h[m] = F[m][h[m - 1]]
    <3>1. m \in 0 .. n /\ m - 1 \in 0 .. n /\ m - 1 # k + 1
      OBVIOUS
    <3>2. CASE m = k + 1
      BY <3>1, <3>2
    <3>3. CASE m # k + 1
      <4>1. m \in 1 .. k
        BY <3>3
      <4> QED
        BY <2>1, <3>1, <3>3, <4>1
    <3> QED
      BY <3>2, <3>3
  <2>5. h[0] = base
    BY <2>1
  <2> HIDE DEF h
  <2>6. Upto(k + 1, h)
    BY <2>4, <2>5
  <2> QED
    BY <2>3, <2>6
<1>3. n \in S
  <2> HIDE DEF S
  <2>1. \A k \in 0 .. n - 1 : k \in S => k + 1 \in S
    BY <1>2
  <2>2. 0 .. n \subseteq S
    BY <1>1, <2>1, Reach
  <2> QED
    BY <2>2
<1> QED
  BY <1>3 DEF Unfolds

-----------------------------------------------------------------------------
(* The task list of a row                                                  *)

Stored == [id : TaskIds, state : TaskStates, holds : BOOLEAN, start : Int, end : Int]
IdsOf(items) == {items[k].id : k \in DOMAIN items}

\* A running task holds the turn unless it is a service, and one that is over is
\* none of those barred from that.
Truthful(task, barred) ==
  IF task.state = "running" THEN task.holds = (task.id \notin Services) ELSE task.id \notin barred

Distinct(items) == \A k, l \in DOMAIN items : items[k].id = items[l].id => k = l

Lists(barred) ==
  {items \in Seq(Stored) : Distinct(items) /\ \A k \in DOMAIN items : Truthful(items[k], barred)}

\* What is reported of a task again leaves what is stored of it truthful.
LEMMA ReviseKeeps ==
  ASSUME NEW barred, NEW task \in Stored, Truthful(task, barred),
         NEW u \in Updates, u.id = task.id, Truthful(u, barred), NEW t \in Int
  PROVE  LET new == Revise(task, u, t)
         IN  new \in Stored /\ new.id = task.id /\ Truthful(new, barred)
<1> DEFINE new == Revise(task, u, t)
<1>1. task = [id |-> task.id, state |-> task.state, holds |-> task.holds, start |-> task.start, end |-> task.end]
  BY DEF Stored
<1>2. /\ task.id \in TaskIds /\ task.state \in TaskStates /\ task.holds \in BOOLEAN
      /\ task.start \in Int /\ task.end \in Int
      /\ u.id \in TaskIds /\ u.state \in TaskStates /\ u.holds \in BOOLEAN
  BY DEF Stored, Updates
<1>3. CASE task.state \in Outcomes \/ (task.state \in Over /\ u.state \notin Outcomes)
  <2>1. new = task
    BY <1>3 DEF Revise
  <2> QED
    BY <2>1
<1>4. CASE ~(task.state \in Outcomes \/ (task.state \in Over /\ u.state \notin Outcomes))
  <2> DEFINE holds == IF u.state = "running" THEN task.holds /\ u.holds ELSE task.holds
             end == IF task.state \in Over THEN task.end ELSE t
  <2>1. new = [task EXCEPT !.holds = IF u.state = "running" THEN @ /\ u.holds ELSE @,
                           !.end = IF task.state \in Over THEN @ ELSE t,
                           !.state = u.state]
    BY <1>4 DEF Revise
  <2>2. holds \in BOOLEAN /\ end \in Int
    BY <1>2
  <2>3. new = [task EXCEPT !.holds = holds, !.end = end, !.state = u.state]
    BY <2>1, <1>1
  <2> HIDE DEF holds, end, new
  <2>4. new \in Stored /\ new.id = task.id /\ new.state = u.state /\ new.holds = holds
    BY <2>2, <2>3, <1>2 DEF Stored
  <2>5. Truthful(new, barred)
    <3>1. CASE u.state = "running"
      <4>1. task.state = "running" /\ (holds <=> task.holds /\ u.holds)
        BY <3>1, <1>2, <1>4 DEF TaskStates, Over, Outcomes, holds
      <4> QED
        BY <4>1, <3>1, <2>4, <2>2, <1>2 DEF Truthful
    <3>2. CASE u.state # "running"
      BY <3>2, <2>4 DEF Truthful
    <3> QED
      BY <3>1, <3>2
  <2> QED
    BY <2>4, <2>5 DEF new
<1> QED
  BY <1>3, <1>4

\* An upsert adds what the list does not have, or revises what it has.
LEMMA UpsertKeeps ==
  ASSUME NEW barred, NEW items \in Lists(barred), NEW u \in Updates, Truthful(u, barred), NEW t \in Int
  PROVE  /\ Upsert(items, u, t) \in Lists(barred)
         /\ IdsOf(items) \cup {u.id} \subseteq IdsOf(Upsert(items, u, t))
<1> DEFINE n == Len(items)
           more == Upsert(items, u, t)
<1>1. /\ items \in Seq(Stored) /\ n \in Nat /\ DOMAIN items = 1 .. n /\ \A k \in 1 .. n : items[k] \in Stored
      /\ Distinct(items) /\ \A k \in 1 .. n : Truthful(items[k], barred)
  <2>1. items \in Seq(Stored)
    BY DEF Lists
  <2> QED
    BY <2>1, LenProperties DEF Lists
<1>2. CASE IndexOf(items, u.id) # {}
  <2>1. more = [k \in 1 .. n |-> IF items[k].id = u.id THEN Revise(items[k], u, t) ELSE items[k]]
    BY <1>1, <1>2 DEF Upsert
  <2> HIDE DEF n, more
  <2>2. ASSUME NEW k \in 1 .. n
        PROVE  more[k] \in Stored /\ more[k].id = items[k].id /\ Truthful(more[k], barred)
    <3>1. CASE items[k].id = u.id
      BY <2>1, <3>1, <1>1, ReviseKeeps
    <3>2. CASE items[k].id # u.id
      BY <2>1, <3>2, <1>1
    <3> QED
      BY <3>1, <3>2
  <2>3. DOMAIN more = 1 .. n
    BY <2>1
  <2>4. more \in Seq(Stored)
    <3>1. more \in [1 .. n -> Stored]
      <4>1. more = [k \in 1 .. n |-> more[k]]
        BY <2>1
      <4> QED
        BY <2>2, <4>1
    <3> QED
      BY <3>1, <1>1, SeqDef
  <2>5. Distinct(more)
    BY <1>1, <2>2, <2>3 DEF Distinct
  <2>6. more \in Lists(barred)
    BY <2>2, <2>3, <2>4, <2>5 DEF Lists
  <2>7. IdsOf(items) \subseteq IdsOf(more)
    BY <1>1, <2>2, <2>3 DEF IdsOf
  <2>8. u.id \in IdsOf(items)
    BY <1>1, <1>2 DEF IndexOf, IdsOf
  <2> QED
    BY <2>6, <2>7, <2>8 DEF more
<1>3. CASE IndexOf(items, u.id) = {}
  <2> DEFINE new == [id |-> u.id, state |-> u.state, holds |-> u.holds, start |-> t, end |-> t]
  <2>1. more = Append(items, new)
    BY <1>3 DEF Upsert
  <2>2. new \in Stored
    BY DEF Stored, Updates
  <2>3. new.id = u.id /\ Truthful(new, barred)
    BY DEF Truthful
  <2>4. \A k \in 1 .. n : items[k].id # u.id
    BY <1>1, <1>3 DEF IndexOf
  <2> HIDE DEF new, more
  <2>5. /\ more \in Seq(Stored) /\ Len(more) = n + 1 /\ DOMAIN more = 1 .. n + 1
        /\ more[n + 1] = new /\ \A k \in 1 .. n : more[k] = items[k]
    <3>1. more \in Seq(Stored)
      BY <1>1, <2>1, <2>2
    <3>2. Len(more) = n + 1 /\ more[n + 1] = new /\ \A k \in 1 .. n : more[k] = items[k]
      BY <1>1, <2>1, <2>2
    <3> HIDE DEF n
    <3> QED
      BY <3>1, <3>2, LenProperties
  <2> HIDE DEF n
  <2>6. \A k \in 1 .. n + 1 : k \in 1 .. n \/ k = n + 1
    BY <1>1
  <2>7. Distinct(more)
    <3> SUFFICES ASSUME NEW k \in 1 .. n + 1, NEW l \in 1 .. n + 1, more[k].id = more[l].id PROVE k = l
      BY <2>5 DEF Distinct
    <3> QED
      BY <1>1, <2>3, <2>4, <2>5, <2>6 DEF Distinct
  <2>8. \A k \in 1 .. n + 1 : Truthful(more[k], barred)
    BY <1>1, <2>3, <2>5, <2>6
  <2>9. more \in Lists(barred)
    BY <2>5, <2>7, <2>8 DEF Lists
  <2>10. IdsOf(items) \cup {u.id} \subseteq IdsOf(more)
    <3>1. n + 1 \in 1 .. n + 1 /\ \A k \in 1 .. n : k \in 1 .. n + 1
      BY <1>1
    <3> QED
      BY <1>1, <2>3, <2>5, <3>1 DEF IdsOf
  <2> QED
    BY <2>9, <2>10 DEF more
<1> QED
  BY <1>2, <1>3

\* Taken one after the other, the updates of a batch do the same.
LEMMA UpsertedKeeps ==
  ASSUME NEW barred, NEW items \in Lists(barred), NEW updates \in Seq(Updates),
         \A k \in 1 .. Len(updates) : Truthful(updates[k], barred), NEW t \in Int
  PROVE  /\ Upserted(items, updates, t) \in Lists(barred)
         /\ IdsOf(updates) \subseteq IdsOf(Upserted(items, updates, t))
<1> DEFINE n == Len(updates)
           X == Lists(barred)
           F == [m \in 1 .. n |-> [s \in X |-> Upsert(s, updates[m], t)]]
           after[m \in 0 .. Len(updates)] ==
             IF m = 0 THEN items ELSE Upsert(after[m - 1], updates[m], t)
<1>1. n \in Nat /\ DOMAIN updates = 1 .. n /\ \A m \in 1 .. n : updates[m] \in Updates /\ m - 1 \in 0 .. n
  <2>1. n \in Nat /\ DOMAIN updates = 1 .. n /\ \A m \in 1 .. n : updates[m] \in Updates
    BY LenProperties
  <2> QED
    BY <2>1
<1>2. \A m \in 1 .. n, s \in X : /\ F[m][s] = Upsert(s, updates[m], t) /\ F[m][s] \in X
                                 /\ IdsOf(s) \cup {updates[m].id} \subseteq IdsOf(F[m][s])
  <2> SUFFICES ASSUME NEW m \in 1 .. n, NEW s \in X
               PROVE  /\ F[m][s] = Upsert(s, updates[m], t) /\ F[m][s] \in X
                      /\ IdsOf(s) \cup {updates[m].id} \subseteq IdsOf(F[m][s])
    OBVIOUS
  <2>1. F[m][s] = Upsert(s, updates[m], t)
    OBVIOUS
  <2>2. updates[m] \in Updates /\ Truthful(updates[m], barred)
    BY <1>1
  <2> QED
    BY <2>1, <2>2, UpsertKeeps
<1>3. F \in [1 .. n -> [X -> X]]
  <2>1. \A m \in 1 .. n : F[m] = [s \in X |-> F[m][s]]
    OBVIOUS
  <2>2. F = [m \in 1 .. n |-> F[m]]
    OBVIOUS
  <2> HIDE DEF F, X, n
  <2>3. \A m \in 1 .. n : F[m] \in [X -> X]
    BY <1>2, <2>1
  <2> QED
    BY <2>2, <2>3
<1>4. Upserted(items, updates, t) = after[n]
  BY DEF Upserted
<1>5. PICK g \in [0 .. n -> X] : Unfolds(g, n, items, F)
  <2> HIDE DEF F, n, X
  <2>1. items \in X
    BY DEF X
  <2> QED
    BY <1>1, <1>3, <2>1, Iterates
<1>6. after = [m \in 0 .. n |-> IF m = 0 THEN items ELSE Upsert(after[m - 1], updates[m], t)]
  <2>1. \A m \in 0 .. n : m # 0 => m \in 1 .. n
    BY <1>1
  <2>2. g = [m \in 0 .. n |-> IF m = 0 THEN items ELSE Upsert(g[m - 1], updates[m], t)]
    <3> HIDE DEF F, n, X
    <3>1. \A m \in 1 .. n : g[m] = Upsert(g[m - 1], updates[m], t)
      BY <1>1, <1>2, <1>5 DEF Unfolds
    <3> QED
      BY <1>5, <2>1, <3>1 DEF Unfolds
  <2> QED
    BY <2>2
<1> HIDE DEF after
<1>7. after[0] = items /\ \A m \in 1 .. n : after[m] = Upsert(after[m - 1], updates[m], t)
  <2>1. 0 \in 0 .. n /\ \A m \in 1 .. n : m \in 0 .. n /\ m # 0
    BY <1>1
  <2> HIDE DEF n
  <2> QED
    BY <1>6, <2>1
<1> DEFINE Told(m) == \A k \in 1 .. m : updates[k].id \in IdsOf(after[m])
           Good == {m \in 0 .. n : after[m] \in X /\ Told(m)}
<1>8. 0 .. n \subseteq Good
  <2>1. 0 \in Good
    <3>1. 0 \in 0 .. n /\ 1 .. 0 = {}
      BY <1>1
    <3> QED
      BY <1>7, <3>1
  <2>2. ASSUME NEW m \in 0 .. n - 1, m \in Good PROVE m + 1 \in Good
    <3>1. /\ m + 1 \in 1 .. n /\ m + 1 \in 0 .. n /\ (m + 1) - 1 = m
          /\ \A k \in 1 .. m + 1 : k \in 1 .. m \/ k = m + 1
      BY <1>1
    <3>2. after[m] \in X /\ Told(m)
      BY <2>2
    <3> HIDE DEF X, F, n
    <3>3. after[m + 1] = F[m + 1][after[m]]
      BY <1>2, <1>7, <3>1, <3>2
    <3>4. after[m + 1] \in X /\ IdsOf(after[m]) \cup {updates[m + 1].id} \subseteq IdsOf(after[m + 1])
      BY <1>2, <3>1, <3>2, <3>3
    <3>5. Told(m + 1)
      BY <3>1, <3>2, <3>4
    <3> QED
      BY <3>1, <3>4, <3>5
  <2>3. \A m \in 0 .. n - 1 : m \in Good => m + 1 \in Good
    BY <2>2
  <2> HIDE DEF Good, n
  <2> QED
    BY <1>1, <2>1, <2>3, Reach
<1>9. after[n] \in X /\ Told(n)
  <2>1. n \in 0 .. n
    BY <1>1
  <2> HIDE DEF n
  <2> QED
    BY <1>8, <2>1
<1> HIDE DEF F
<1> QED
  BY <1>1, <1>4, <1>9 DEF IdsOf

\* What a snapshot omits is over; so is no task it lists, and none that is barred
\* from that if it lists those.
LEMMA EndOmittedKeeps ==
  ASSUME NEW barred, NEW items \in Lists(barred), NEW batch, barred \subseteq RunningIds(batch.items),
         NEW t \in Int
  PROVE  LET ended == EndOmitted(items, batch, t)
         IN  /\ ended \in Lists(barred)
             /\ RunningIds(ended) = RunningIds(items) \cap RunningIds(batch.items)
<1> DEFINE n == Len(items)
           ended == EndOmitted(items, batch, t)
           live == RunningIds(batch.items)
<1>1. /\ items \in Seq(Stored) /\ n \in Nat /\ DOMAIN items = 1 .. n /\ \A k \in 1 .. n : items[k] \in Stored
      /\ Distinct(items) /\ \A k \in 1 .. n : Truthful(items[k], barred)
  <2>1. items \in Seq(Stored)
    BY DEF Lists
  <2> QED
    BY <2>1, LenProperties DEF Lists
<1>2. ended = [k \in 1 .. n |-> IF items[k].state = "running" /\ items[k].id \notin live
                                THEN [items[k] EXCEPT !.state = "ended", !.end = t] ELSE items[k]]
  BY <1>1 DEF EndOmitted
<1> HIDE DEF ended, live, n
<1>3. ASSUME NEW k \in 1 .. n
      PROVE  /\ ended[k] \in Stored /\ ended[k].id = items[k].id /\ Truthful(ended[k], barred)
             /\ ended[k].state = "running" <=> items[k].state = "running" /\ items[k].id \in live
  <2>0. items[k] \in Stored /\ Truthful(items[k], barred) /\ "ended" \in TaskStates
    BY <1>1 DEF TaskStates, Over
  <2>1. CASE items[k].state = "running" /\ items[k].id \notin live
    <3>1. ended[k] = [items[k] EXCEPT !.state = "ended", !.end = t]
      BY <1>2, <2>1
    <3>2. ended[k] \in Stored /\ ended[k].id = items[k].id /\ ended[k].state = "ended"
      BY <3>1, <2>0 DEF Stored
    <3> QED
      BY <3>2, <2>1 DEF Truthful, live
  <2>2. CASE ~(items[k].state = "running" /\ items[k].id \notin live)
    BY <1>2, <2>0, <2>2
  <2> QED
    BY <2>1, <2>2
<1>4. DOMAIN ended = 1 .. n /\ ended = [k \in 1 .. n |-> ended[k]]
  BY <1>2
<1>5. ended \in Seq(Stored)
  <2>1. ended \in [1 .. n -> Stored]
    BY <1>3, <1>4
  <2> QED
    BY <2>1, <1>1, SeqDef
<1>6. Distinct(ended)
  BY <1>1, <1>3, <1>4 DEF Distinct
<1>7. ended \in Lists(barred)
  BY <1>3, <1>4, <1>5, <1>6 DEF Lists
<1>8. RunningIds(ended) = RunningIds(items) \cap live
  <2>1. RunningIds(ended) = {ended[k].id : k \in {l \in 1 .. n : ended[l].state = "running"}}
    BY <1>4 DEF RunningIds
  <2>2. RunningIds(items) = {items[k].id : k \in {l \in 1 .. n : items[l].state = "running"}}
    BY <1>1 DEF RunningIds
  <2> QED
    BY <2>1, <2>2, <1>3
<1> QED
  BY <1>7, <1>8 DEF ended, live

\* The cap evicts one that is over as long as there is one.
LEMMA VictimIs ==
  ASSUME NEW items \in Seq(Stored), Len(items) > 0
  PROVE  /\ Victim(items) \in 1 .. Len(items)
         /\ items[Victim(items)].state \in Over \/ \A k \in 1 .. Len(items) : items[k].state \notin Over
<1> DEFINE n == Len(items)
           S == 1 .. n
           rank == [k \in S |-> IF items[k].state \in Over THEN 0 ELSE 1]
           key == [k \in S |-> IF items[k].state \in Over THEN items[k].end ELSE items[k].start]
           Less(k, l) == rank[k] < rank[l] \/ (rank[k] = rank[l] /\ key[k] < key[l])
           First(k, l) == Less(k, l) \/ (~Less(l, k) /\ k < l)
           R == {kl \in S \X S : First(kl[2], kl[1])}
<1>1. n \in Nat /\ DOMAIN items = S /\ \A k \in S : items[k] \in Stored
  BY LenProperties
<1>2. \A k \in S : rank[k] \in {0, 1} /\ key[k] \in Int /\ (rank[k] = 0 <=> items[k].state \in Over)
  BY <1>1 DEF Stored
<1>3. \A k, l \in S : EvictBefore(items[k], items[l]) <=> Less(k, l)
  <2> SUFFICES ASSUME NEW k \in S, NEW l \in S PROVE EvictBefore(items[k], items[l]) <=> Less(k, l)
    OBVIOUS
  <2>1. EvictBefore(items[k], items[l]) <=>
          \/ items[k].state \in Over /\ items[l].state \notin Over
          \/ (items[k].state \in Over <=> items[l].state \in Over) /\ key[k] < key[l]
    BY DEF EvictBefore
  <2> HIDE DEF key, rank, S
  <2> QED
    BY <2>1, <1>2
<1> HIDE DEF key, rank, n
<1>4. \A k, l \in S : First(k, l) <=> <<l, k>> \in R
  OBVIOUS
<1>5. /\ \A k \in S : ~First(k, k)
      /\ \A k, l, m \in S : First(k, l) /\ First(l, m) => First(k, m)
      /\ \A k, l \in S : k = l \/ First(k, l) \/ First(l, k)
  <2>1. S \subseteq Int
    BY <1>1
  <2> HIDE DEF S
  <2> QED
    BY <2>1, <1>2
<1>6. IsFiniteSet(S) /\ S # {}
  <2>1. n > 0
    BY DEF n
  <2>2. 1 \in S
    BY <1>1, <2>1
  <2>3. 1 \in Int /\ n \in Int
    BY <1>1
  <2>4. IsFiniteSet(1 .. n)
    BY <2>3, FS_Interval
  <2> QED
    BY <2>2, <2>4
<1>7. PICK v \in S : \A k \in S : <<v, k>> \notin R
  <2>1. /\ \A x \in S : <<x, x>> \notin R
        /\ \A x, y, z \in S : <<x, y>> \in R /\ <<y, z>> \in R => <<x, z>> \in R
        /\ \A x, y \in S : x = y \/ <<x, y>> \in R \/ <<y, x>> \in R
    <3> HIDE DEF R, First
    <3> QED
      BY <1>4, <1>5
  <2> HIDE DEF R, S
  <2> QED
    BY <1>6, <2>1, LastElement
<1>8. \A k \in S \ {v} : First(v, k)
  <2> HIDE DEF R, First
  <2> QED
    BY <1>4, <1>5, <1>7
<1> DEFINE Least(k) == \A l \in S \ {k} :
                         \/ EvictBefore(items[k], items[l])
                         \/ ~EvictBefore(items[l], items[k]) /\ k < l
<1>9. Least(v)
  BY <1>3, <1>8
<1>10. Victim(items) = CHOOSE k \in S : Least(k)
  BY <1>1 DEF Victim
<1>11. Victim(items) \in S /\ Least(Victim(items))
  <2> HIDE DEF Least, S
  <2> QED
    BY <1>9, <1>10
<1>12. ASSUME NEW k \in S, items[k].state \in Over PROVE items[Victim(items)].state \in Over
  <2> DEFINE w == Victim(items)
  <2>1. w \in S /\ (w # k => First(w, k))
    BY <1>3, <1>11
  <2> HIDE DEF w
  <2>2. SUFFICES rank[w] = 0
    BY <2>1, <1>2 DEF w
  <2>3. rank[k] = 0 /\ rank[w] \in {0, 1}
    BY <1>2, <1>12, <2>1
  <2>4. CASE w = k
    BY <2>3, <2>4
  <2>5. CASE w # k
    <3>1. First(w, k)
      BY <2>1, <2>5
    <3> HIDE DEF S, R
    <3> QED
      BY <2>3, <3>1
  <2> QED
    BY <2>4, <2>5
<1> QED
  BY <1>11, <1>12 DEF n

\* Where the k-th of a list was before its v-th was taken out.
Past(v, k) == IF k < v THEN k ELSE k + 1

\* An eviction leaves all but the victim, in order.
LEMMA EvictIs ==
  ASSUME NEW items \in Seq(Stored), Len(items) > MaxTasks
  PROVE  LET n == Len(items)
             v == Victim(items)
             rest == Evict(items)
         IN  /\ v \in 1 .. n
             /\ items[v].state \in Over \/ \A k \in 1 .. n : items[k].state \notin Over
             /\ rest \in Seq(Stored) /\ DOMAIN rest = 1 .. n - 1
             /\ \A k \in 1 .. n - 1 : rest[k] = items[Past(v, k)]
             /\ \A k \in 1 .. n - 1 : Past(v, k) \in 1 .. n /\ Past(v, k) # v
             /\ \A k, l \in 1 .. n - 1 : Past(v, k) = Past(v, l) => k = l
             /\ \A l \in 1 .. n : l # v => \E k \in 1 .. n - 1 : Past(v, k) = l
<1> DEFINE n == Len(items)
           v == Victim(items)
           rest == Evict(items)
<1>0. n \in Nat /\ n > 0 /\ DOMAIN items = 1 .. n /\ \A k \in 1 .. n : items[k] \in Stored
  BY LenProperties, BgTasksAssumption
<1>1. /\ v \in 1 .. n
      /\ items[v].state \in Over \/ \A k \in 1 .. n : items[k].state \notin Over
  BY <1>0, VictimIs
<1>2. rest = SubSeq(items, 1, v - 1) \o SubSeq(items, v + 1, n)
  BY DEF Evict
<1> HIDE DEF n, v, rest
<1> DEFINE a == SubSeq(items, 1, v - 1)
           b == SubSeq(items, v + 1, n)
<1>3. a \in Seq(Stored) /\ Len(a) = v - 1 /\ \A k \in 1 .. v - 1 : a[k] = items[k]
  <2>1. v - 1 \in Int /\ \A k \in 1 .. v - 1 : items[k] \in Stored
    BY <1>0, <1>1
  <2>2. a \in Seq(Stored) /\ Len(a) = (IF 1 <= v - 1 THEN v - 1 - 1 + 1 ELSE 0)
        /\ \A k \in 1 .. v - 1 - 1 + 1 : a[k] = items[1 + k - 1]
    BY <2>1, SubSeqProperties
  <2> HIDE DEF a
  <2>3. v \in Int /\ 1 <= v
    BY <1>0, <1>1
  <2>4. (IF 1 <= v - 1 THEN v - 1 - 1 + 1 ELSE 0) = v - 1
    BY ONLY <2>3
  <2>5. ASSUME NEW k \in 1 .. v - 1 PROVE a[k] = items[k]
    <3>1. k \in 1 .. v - 1 - 1 + 1 /\ 1 + k - 1 = k
      BY ONLY <2>3, k \in 1 .. v - 1
    <3>2. a[k] = items[1 + k - 1]
      BY ONLY <2>2, <3>1
    <3> QED
      BY ONLY <3>1, <3>2
  <2> QED
    BY ONLY <2>2, <2>4, <2>5
<1>4. b \in Seq(Stored) /\ Len(b) = n - v /\ \A k \in 1 .. n - v : b[k] = items[v + k]
  <2>1. v + 1 \in Int /\ n \in Int /\ \A k \in v + 1 .. n : items[k] \in Stored
    BY <1>0, <1>1
  <2>2. b \in Seq(Stored) /\ Len(b) = (IF v + 1 <= n THEN n - (v + 1) + 1 ELSE 0)
        /\ \A k \in 1 .. n - (v + 1) + 1 : b[k] = items[v + 1 + k - 1]
    BY <2>1, SubSeqProperties
  <2> HIDE DEF b
  <2>3. v \in Int /\ n \in Int /\ v <= n
    BY <1>0, <1>1
  <2>4. (IF v + 1 <= n THEN n - (v + 1) + 1 ELSE 0) = n - v
    BY ONLY <2>3
  <2>5. ASSUME NEW k \in 1 .. n - v PROVE b[k] = items[v + k]
    <3>1. k \in 1 .. n - (v + 1) + 1 /\ v + 1 + k - 1 = v + k
      BY ONLY <2>3, k \in 1 .. n - v
    <3>2. b[k] = items[v + 1 + k - 1]
      BY ONLY <2>2, <3>1
    <3> QED
      BY ONLY <3>1, <3>2
  <2> QED
    BY ONLY <2>2, <2>4, <2>5
<1> HIDE DEF a, b
<1> DEFINE From(k) == Past(v, k)
<1>5. rest \in Seq(Stored) /\ DOMAIN rest = 1 .. n - 1 /\ \A k \in 1 .. n - 1 : rest[k] = items[From(k)]
  <2>1. /\ rest \in Seq(Stored) /\ Len(rest) = Len(a) + Len(b)
        /\ \A k \in 1 .. Len(a) + Len(b) : rest[k] = IF k <= Len(a) THEN a[k] ELSE b[k - Len(a)]
    BY <1>2, <1>3, <1>4, ConcatProperties DEF a, b
  <2>2. Len(a) + Len(b) = n - 1
    BY <1>0, <1>1, <1>3, <1>4
  <2>3. DOMAIN rest = 1 .. n - 1
    BY <2>1, <2>2, LenProperties
  <2>4. ASSUME NEW k \in 1 .. n - 1 PROVE rest[k] = items[From(k)]
    <3>1. rest[k] = IF k <= v - 1 THEN a[k] ELSE b[k - (v - 1)]
      BY <1>3, <2>1, <2>2
    <3>2. CASE k < v
      <4>1. k <= v - 1 /\ k \in 1 .. v - 1 /\ From(k) = k
        BY <1>0, <1>1, <3>2 DEF Past
      <4> QED
        BY <1>3, <3>1, <4>1
    <3>3. CASE ~(k < v)
      <4>1. ~(k <= v - 1) /\ k - (v - 1) \in 1 .. n - v /\ From(k) = k + 1 /\ v + (k - (v - 1)) = k + 1
        BY <1>0, <1>1, <3>3 DEF Past
      <4> QED
        BY <1>4, <3>1, <4>1
    <3> QED
      BY <3>2, <3>3
  <2> QED
    BY <2>1, <2>3, <2>4
<1>6. /\ \A k \in 1 .. n - 1 : From(k) \in 1 .. n /\ From(k) # v
      /\ \A k, l \in 1 .. n - 1 : From(k) = From(l) => k = l
      /\ \A l \in 1 .. n : l # v => \E k \in 1 .. n - 1 : From(k) = l
  <2>1. /\ \A k \in 1 .. n - 1 : From(k) \in 1 .. n /\ From(k) # v
        /\ \A k, l \in 1 .. n - 1 : From(k) = From(l) => k = l
    BY <1>0, <1>1 DEF Past
  <2>2. ASSUME NEW l \in 1 .. n, l # v PROVE \E k \in 1 .. n - 1 : From(k) = l
    <3>1. CASE l < v
      <4>1. l \in 1 .. n - 1 /\ From(l) = l
        BY <1>0, <1>1, <3>1 DEF Past
      <4> QED
        BY <4>1
    <3>2. CASE ~(l < v)
      <4>1. l - 1 \in 1 .. n - 1 /\ From(l - 1) = l
        BY <1>0, <1>1, <2>2, <3>2 DEF Past
      <4> QED
        BY <4>1
    <3> QED
      BY <3>1, <3>2
  <2> QED
    BY <2>1, <2>2
<1> QED
  BY <1>1, <1>5, <1>6 DEF n, v, rest

\* What is left keeps its truth, and the running ones as long as they fit.
LEMMA EvictKeeps ==
  ASSUME NEW barred, NEW items \in Lists(barred)
  PROVE  /\ Evict(items) \in Lists(barred)
         /\ Cardinality(RunningIds(items)) <= MaxTasks => RunningIds(Evict(items)) = RunningIds(items)
<1> USE BgTasksAssumption
<1> DEFINE n == Len(items)
           v == Victim(items)
           rest == Evict(items)
           live == RunningIds(items)
<1>1. /\ items \in Seq(Stored) /\ n \in Nat /\ DOMAIN items = 1 .. n /\ \A k \in 1 .. n : items[k] \in Stored
      /\ Distinct(items) /\ \A k \in 1 .. n : Truthful(items[k], barred)
  <2>1. items \in Seq(Stored)
    BY DEF Lists
  <2> QED
    BY <2>1, LenProperties DEF Lists
<1>2. CASE ~(n > MaxTasks)
  BY <1>2 DEF Evict
<1>3. CASE n > MaxTasks
  <2> DEFINE From(k) == Past(v, k)
  <2>1. /\ v \in 1 .. n
        /\ items[v].state \in Over \/ \A k \in 1 .. n : items[k].state \notin Over
        /\ rest \in Seq(Stored) /\ DOMAIN rest = 1 .. n - 1
        /\ \A k \in 1 .. n - 1 : rest[k] = items[From(k)]
        /\ \A k \in 1 .. n - 1 : From(k) \in 1 .. n /\ From(k) # v
        /\ \A k, l \in 1 .. n - 1 : From(k) = From(l) => k = l
        /\ \A l \in 1 .. n : l # v => \E k \in 1 .. n - 1 : From(k) = l
    BY <1>1, <1>3, EvictIs
  <2> HIDE DEF n, v, rest, live, From
  <2>2. rest \in Lists(barred)
    <3>1. Distinct(rest)
      BY <1>1, <2>1 DEF Distinct
    <3>2. \A k \in 1 .. n - 1 : Truthful(rest[k], barred)
      BY <1>1, <2>1
    <3> QED
      BY <2>1, <3>1, <3>2 DEF Lists
  <2>3. ASSUME Cardinality(live) <= MaxTasks PROVE RunningIds(rest) = live
    <3>1. live = {items[k].id : k \in {l \in 1 .. n : items[l].state = "running"}}
      BY <1>1 DEF RunningIds, live
    <3>2. RunningIds(rest) = {rest[k].id : k \in {l \in 1 .. n - 1 : rest[l].state = "running"}}
      BY <2>1 DEF RunningIds
    <3>3. \A k \in 1 .. n : items[k].state = "running" \/ items[k].state \in Over
      BY <1>1 DEF Stored, TaskStates
    <3>4. items[v].state \in Over
      <4> SUFFICES ASSUME \A k \in 1 .. n : items[k].state = "running" PROVE FALSE
        BY <2>1, <3>3
      <4> DEFINE f == [k \in 1 .. n |-> items[k].id]
      <4>1. live = {items[k].id : k \in 1 .. n}
        BY <3>1
      <4>2. f \in [1 .. n -> live] /\ \A k \in 1 .. n : f[k] = items[k].id
        BY <4>1
      <4>3. f \in Bijection(1 .. n, live)
        <5> HIDE DEF f
        <5>1. \A k, l \in 1 .. n : f[k] = f[l] => k = l
          BY <1>1, <4>2 DEF Distinct
        <5>2. \A id \in live : \E k \in 1 .. n : f[k] = id
          BY <4>1, <4>2
        <5> QED
          BY <4>2, <5>1, <5>2 DEF Bijection, Injection, Surjection, IsInjective
      <4>4. ExistsBijection(1 .. n, live)
        BY <4>3 DEF ExistsBijection
      <4>5. Cardinality(live) = n
        BY <1>1, <4>4, FS_CountingElements
      <4> QED
        BY <4>5, <2>3, <1>1, <1>3
    <3>5. items[v].state # "running"
      BY <3>4 DEF Over, Outcomes
    <3>6. ASSUME NEW k \in 1 .. n, items[k].state = "running" PROVE items[k].id \in RunningIds(rest)
      <4>1. PICK l \in 1 .. n - 1 : From(l) = k
        BY <2>1, <3>5, <3>6
      <4>2. rest[l] = items[k]
        BY <2>1, <4>1
      <4> QED
        BY <3>2, <3>6, <4>2
    <3>7. ASSUME NEW k \in 1 .. n - 1, rest[k].state = "running" PROVE rest[k].id \in live
      BY <2>1, <3>1, <3>7
    <3> QED
      BY <3>1, <3>2, <3>6, <3>7
  <2> QED
    BY <2>2, <2>3 DEF rest, live
<1> QED
  BY <1>2, <1>3

\* So do several, one after the other.
LEMMA CapKeeps ==
  ASSUME NEW barred, NEW items \in Lists(barred), NEW n \in Nat
  PROVE  /\ Cap(items, n) \in Lists(barred)
         /\ Cardinality(RunningIds(items)) <= MaxTasks => RunningIds(Cap(items, n)) = RunningIds(items)
         /\ n = 0 => Cap(items, n) = items
<1> DEFINE X == Lists(barred)
           F == [m \in 1 .. n |-> [s \in X |-> Evict(s)]]
           capped[m \in 0 .. n] == IF m = 0 THEN items ELSE Evict(capped[m - 1])
<1>1. \A m \in 1 .. n : m - 1 \in 0 .. n /\ m \in 0 .. n /\ m # 0
  OBVIOUS
<1>2. \A m \in 1 .. n, s \in X : F[m][s] = Evict(s) /\ Evict(s) \in X
  BY EvictKeeps
<1>3. F \in [1 .. n -> [X -> X]]
  <2>1. F = [m \in 1 .. n |-> F[m]] /\ \A m \in 1 .. n : F[m] = [s \in X |-> F[m][s]]
    OBVIOUS
  <2> HIDE DEF F, X
  <2> QED
    BY <2>1, <1>2
<1>4. Cap(items, n) = capped[n]
  BY DEF Cap
<1>5. PICK g \in [0 .. n -> X] : Unfolds(g, n, items, F)
  <2> HIDE DEF F
  <2> QED
    BY <1>3, Iterates
<1>6. capped = [m \in 0 .. n |-> IF m = 0 THEN items ELSE Evict(capped[m - 1])]
  <2>1. \A m \in 0 .. n : m # 0 => m \in 1 .. n
    OBVIOUS
  <2>2. g = [m \in 0 .. n |-> IF m = 0 THEN items ELSE Evict(g[m - 1])]
    <3> HIDE DEF F, X
    <3>1. \A m \in 1 .. n : g[m] = Evict(g[m - 1])
      BY <1>1, <1>2, <1>5 DEF Unfolds
    <3> QED
      BY <1>5, <2>1, <3>1 DEF Unfolds
  <2> QED
    BY <2>2
<1> HIDE DEF capped, F
<1>7. capped[0] = items /\ \A m \in 1 .. n : capped[m] = Evict(capped[m - 1])
  <2>1. 0 \in 0 .. n
    OBVIOUS
  <2> QED
    BY <1>1, <1>6, <2>1
<1> DEFINE Keeps(s) == Cardinality(RunningIds(items)) <= MaxTasks => RunningIds(s) = RunningIds(items)
           Good == {m \in 0 .. n : capped[m] \in X /\ Keeps(capped[m])}
<1>8. 0 .. n \subseteq Good
  <2>1. 0 \in Good
    <3>1. 0 \in 0 .. n
      OBVIOUS
    <3> QED
      BY <1>7, <3>1
  <2>2. ASSUME NEW m \in 0 .. n - 1, m \in Good PROVE m + 1 \in Good
    <3>1. m + 1 \in 1 .. n /\ (m + 1) - 1 = m
      OBVIOUS
    <3>2. capped[m] \in X /\ Keeps(capped[m]) /\ capped[m + 1] = Evict(capped[m])
      BY <1>7, <2>2, <3>1
    <3>3. /\ Evict(capped[m]) \in X
          /\ Cardinality(RunningIds(capped[m])) <= MaxTasks =>
               RunningIds(Evict(capped[m])) = RunningIds(capped[m])
      BY <3>2, EvictKeeps
    <3>4. Keeps(capped[m + 1])
      BY <3>2, <3>3
    <3> HIDE DEF X, Keeps
    <3> QED
      BY <1>1, <3>1, <3>2, <3>3, <3>4
  <2>3. \A m \in 0 .. n - 1 : m \in Good => m + 1 \in Good
    BY <2>2
  <2> HIDE DEF Good
  <2> QED
    BY <2>1, <2>3, Reach
<1>9. capped[n] \in X /\ Keeps(capped[n])
  <2>1. n \in 0 .. n
    OBVIOUS
  <2> QED
    BY <1>8, <2>1
<1> QED
  BY <1>4, <1>7, <1>9

\* What is left unfinished is what was in the list and is not over.
LEMMA UnfinishedIs ==
  ASSUME NEW items \in Seq(Stored), Distinct(items)
  PROVE  LET rest == Unfinished(items)
         IN  /\ rest \in Seq(Stored) /\ Distinct(rest)
             /\ \A k \in DOMAIN rest : \E l \in 1 .. Len(items) : rest[k] = items[l]
             /\ \A l \in 1 .. Len(items) : items[l].state \notin Over => \E k \in DOMAIN rest : rest[k] = items[l]
<1> DEFINE n == Len(items)
           X == Seq(Stored)
           Grown(s, m) == IF items[m].state \in Over THEN s ELSE Append(s, items[m])
           F == [m \in 1 .. n |-> [s \in X |-> Grown(s, m)]]
           left[m \in 0 .. Len(items)] ==
             IF m = 0 THEN <<>>
             ELSE IF items[m].state \in Over THEN left[m - 1]
             ELSE Append(left[m - 1], items[m])
<1>1. /\ n \in Nat /\ DOMAIN items = 1 .. n /\ \A k \in 1 .. n : items[k] \in Stored
      /\ \A m \in 1 .. n : m - 1 \in 0 .. n /\ m \in 0 .. n /\ m # 0
  <2>1. n \in Nat /\ DOMAIN items = 1 .. n /\ \A k \in 1 .. n : items[k] \in Stored
    BY LenProperties
  <2> QED
    BY <2>1
<1>2. \A m \in 1 .. n, s \in X : F[m][s] = Grown(s, m) /\ F[m][s] \in X
  BY <1>1
<1>3. F \in [1 .. n -> [X -> X]]
  <2>1. F = [m \in 1 .. n |-> F[m]] /\ \A m \in 1 .. n : F[m] = [s \in X |-> F[m][s]]
    OBVIOUS
  <2> HIDE DEF F, X, n
  <2> QED
    BY <2>1, <1>2
<1>4. Unfinished(items) = left[n]
  BY DEF Unfinished
<1>5. PICK g \in [0 .. n -> X] : Unfolds(g, n, <<>>, F)
  <2>1. <<>> \in X
    OBVIOUS
  <2> HIDE DEF F, X, n
  <2> QED
    BY <1>1, <1>3, <2>1, Iterates
<1>6. left = [m \in 0 .. n |-> IF m = 0 THEN <<>>
                               ELSE IF items[m].state \in Over THEN left[m - 1]
                               ELSE Append(left[m - 1], items[m])]
  <2>1. \A m \in 0 .. n : m # 0 => m \in 1 .. n
    BY <1>1
  <2>2. g = [m \in 0 .. n |-> IF m = 0 THEN <<>>
                              ELSE IF items[m].state \in Over THEN g[m - 1]
                              ELSE Append(g[m - 1], items[m])]
    <3> HIDE DEF F, X, n
    <3>1. \A m \in 1 .. n : g[m] = Grown(g[m - 1], m)
      BY <1>1, <1>2, <1>5 DEF Unfolds
    <3> QED
      BY <1>5, <2>1, <3>1 DEF Unfolds
  <2> QED
    BY <2>2
<1> HIDE DEF left, F, X
<1>7. left[0] = <<>> /\ \A m \in 1 .. n : left[m] = Grown(left[m - 1], m)
  <2>1. 0 \in 0 .. n
    BY <1>1
  <2> HIDE DEF n
  <2> QED
    BY <1>1, <1>6, <2>1
<1> HIDE DEF n
<1> DEFINE Upto(s, m) ==
             /\ s \in Seq(Stored) /\ Distinct(s)
             /\ \A k \in DOMAIN s : \E l \in 1 .. m : s[k] = items[l]
             /\ \A l \in 1 .. m : items[l].state \notin Over => \E k \in DOMAIN s : s[k] = items[l]
           Good == {m \in 0 .. n : Upto(left[m], m)}
<1>8. ASSUME NEW m \in 0 .. n - 1, NEW s, Upto(s, m) PROVE Upto(Grown(s, m + 1), m + 1)
  <2>1. m + 1 \in 1 .. n /\ \A l \in 1 .. m : l \in 1 .. m + 1 /\ l \in 1 .. n /\ l # m + 1
    BY <1>1
  <2>2. m + 1 \in 1 .. m + 1
    OBVIOUS
  <2> DEFINE e == items[m + 1]
             more == Append(s, e)
             j == Len(s)
  <2>0. \A l \in 1 .. m + 1 : l \in 1 .. m \/ l = m + 1
    OBVIOUS
  <2>3. CASE e.state \in Over
    BY <2>0, <2>1, <2>3, <1>8
  <2>4. CASE e.state \notin Over
    <3>1. Grown(s, m + 1) = more
      BY <2>4
    <3>2. e \in Stored
      BY <1>1, <2>1
    <3>3. s \in Seq(Stored) /\ Distinct(s)
      BY <1>8
    <3> HIDE DEF Grown, e
    <3>4. j \in Nat /\ DOMAIN s = 1 .. j
      BY <3>3, LenProperties
    <3>5. /\ more \in Seq(Stored) /\ DOMAIN more = 1 .. j + 1
          /\ more[j + 1] = e /\ \A k \in 1 .. j : more[k] = s[k]
      <4>1. more \in Seq(Stored) /\ Len(more) = j + 1 /\ more[j + 1] = e /\ \A k \in 1 .. j : more[k] = s[k]
        BY <3>2, <3>3
      <4> HIDE DEF more
      <4> QED
        BY <4>1, LenProperties
    <3>6. \A k \in 1 .. j + 1 : k \in 1 .. j \/ k = j + 1
      BY <3>4
    <3>7. \A k \in 1 .. j : s[k].id # e.id
      <4> SUFFICES ASSUME NEW k \in 1 .. j, s[k].id = e.id PROVE FALSE
        OBVIOUS
      <4>1. PICK l \in 1 .. m : s[k] = items[l]
        BY <1>8, <3>4
      <4>2. items[l].id = items[m + 1].id
        BY <4>1 DEF e
      <4> QED
        BY <4>2, <2>1, <1>1 DEF Distinct
    <3> HIDE DEF more, j
    <3>8. Distinct(more)
      BY <3>3, <3>4, <3>5, <3>6, <3>7 DEF Distinct
    <3>9. ASSUME NEW k \in DOMAIN more PROVE \E l \in 1 .. m + 1 : more[k] = items[l]
      <4>1. CASE k \in 1 .. j
        <5>1. PICK l \in 1 .. m : s[k] = items[l]
          BY <1>8, <3>4, <4>1
        <5> QED
          BY <2>1, <3>5, <4>1, <5>1
      <4>2. CASE k = j + 1
        <5>1. more[k] = items[m + 1]
          BY <3>5, <4>2 DEF e
        <5> QED
          BY <2>2, <5>1
      <4> QED
        BY <3>5, <3>6, <4>1, <4>2
    <3>10. ASSUME NEW l \in 1 .. m + 1, items[l].state \notin Over PROVE \E k \in DOMAIN more : more[k] = items[l]
      <4>1. CASE l \in 1 .. m
        <5>1. PICK k \in 1 .. j : s[k] = items[l]
          BY <1>8, <3>4, <3>10, <4>1
        <5>2. k \in 1 .. j + 1
          BY <3>4
        <5> QED
          BY <3>5, <5>1, <5>2
      <4>2. CASE l = m + 1
        <5>1. j + 1 \in 1 .. j + 1
          BY <3>4
        <5> QED
          BY <3>5, <4>2, <5>1 DEF e
      <4> QED
        BY <2>0, <4>1, <4>2
    <3> QED
      BY <3>1, <3>5, <3>8, <3>9, <3>10
  <2> QED
    BY <2>3, <2>4
<1>9. 0 .. n \subseteq Good
  <2>1. 0 \in Good
    <3>1. 0 \in 0 .. n /\ DOMAIN left[0] = {}
      BY <1>1, <1>7
    <3>2. left[0] \in Seq(Stored)
      BY <1>7
    <3>3. Distinct(left[0]) /\ 1 .. 0 = {}
      BY <3>1 DEF Distinct
    <3> QED
      BY <3>1, <3>2, <3>3
  <2>2. ASSUME NEW m \in 0 .. n - 1, m \in Good PROVE m + 1 \in Good
    <3>1. m + 1 \in 1 .. n /\ m + 1 \in 0 .. n /\ (m + 1) - 1 = m
      BY <1>1
    <3>2. left[m + 1] = Grown(left[m], m + 1)
      BY <1>7, <3>1
    <3>3. Upto(left[m], m)
      BY <2>2
    <3> HIDE DEF Upto, Grown
    <3>4. Upto(left[m + 1], m + 1)
      BY <1>8, <3>2, <3>3
    <3> QED
      BY <3>1, <3>4
  <2>3. \A m \in 0 .. n - 1 : m \in Good => m + 1 \in Good
    BY <2>2
  <2> HIDE DEF Good
  <2> QED
    BY <1>1, <2>1, <2>3, Reach
<1>10. Upto(left[n], n)
  <2>1. n \in 0 .. n
    BY <1>1
  <2> QED
    BY <1>9, <2>1
<1> QED
  BY <1>4, <1>10 DEF n

\* It is as true as the list.
LEMMA UnfinishedKeeps ==
  ASSUME NEW barred, NEW items \in Lists(barred)
  PROVE  Unfinished(items) \in Lists(barred) /\ IdsOf(Unfinished(items)) \subseteq IdsOf(items)
<1> DEFINE n == Len(items)
           rest == Unfinished(items)
<1>1. items \in Seq(Stored) /\ Distinct(items) /\ DOMAIN items = 1 .. n /\ \A k \in 1 .. n : Truthful(items[k], barred)
  <2>1. items \in Seq(Stored)
    BY DEF Lists
  <2> QED
    BY <2>1, LenProperties DEF Lists
<1>2. rest \in Seq(Stored) /\ Distinct(rest) /\ \A k \in DOMAIN rest : \E l \in 1 .. n : rest[k] = items[l]
  BY <1>1, UnfinishedIs
<1> HIDE DEF rest, n
<1>3. rest \in Lists(barred) /\ IdsOf(rest) \subseteq IdsOf(items)
  BY <1>1, <1>2 DEF Lists, IdsOf
<1> QED
  BY <1>3 DEF rest

\* A payload's batch as the row may take it: truthful, and a snapshot lists the
\* tasks that are barred from being over.
Batched(batch, barred) ==
  /\ batch.items \in Seq(Updates) /\ \A k \in 1 .. Len(batch.items) : Truthful(batch.items[k], barred)
  /\ batch.snapshot => barred \subseteq RunningIds(batch.items)

\* What a payload leaves of a truthful list is one.
LEMMA ApplyKeeps ==
  ASSUME NEW barred, NEW was, was.items \in Lists(barred), NEW batch, Batched(batch, barred),
         NEW prev, NEW next, NEW prompted
  PROVE  ApplyTasks(was, batch, prev, next, prompted, 0).items \in Lists(barred)
<1>1. CASE next = "idle"
  <2>1. ApplyTasks(was, batch, prev, next, prompted, 0).items = <<>>
    BY <1>1 DEF ApplyTasks, NoTasks
  <2>2. <<>> \in Seq(Stored) /\ DOMAIN <<>> = {}
    OBVIOUS
  <2> QED
    BY <2>1, <2>2 DEF Lists, Distinct
<1>2. CASE next # "idle"
  <2> DEFINE upserted == Upserted(was.items, batch.items, 0)
             merged ==
               IF ~batch.present
                 THEN IF StartsNewWork(prev, next, prompted) THEN Unfinished(was.items) ELSE was.items
               ELSE IF batch.snapshot THEN EndOmitted(upserted, batch, 0)
               ELSE upserted
             kept == Cap(merged, Len(batch.items))
  <2>1. ApplyTasks(was, batch, prev, next, prompted, 0) = [items |-> kept, waiting |-> Waits(next, batch, kept)]
    BY <1>2 DEF ApplyTasks
  <2>2. ApplyTasks(was, batch, prev, next, prompted, 0).items = kept
    BY <2>1
  <2>3. Len(batch.items) \in Nat
    BY LenProperties DEF Batched
  <2>4. upserted \in Lists(barred)
    BY UpsertedKeeps DEF Batched
  <2>5. batch.snapshot => EndOmitted(upserted, batch, 0) \in Lists(barred)
    <3> HIDE DEF upserted
    <3> QED
      BY <2>4, EndOmittedKeeps DEF Batched
  <2>6. merged \in Lists(barred)
    BY <2>4, <2>5, UnfinishedKeeps
  <2> HIDE DEF merged
  <2> QED
    BY <2>2, <2>3, <2>6, CapKeeps
<1> QED
  BY <1>1, <1>2

\* A truthful list holds the turn when something in it runs that is no service.
LEMMA HoldsIs ==
  ASSUME NEW seq, NEW barred, \A k \in DOMAIN seq : Truthful(seq[k], barred)
  PROVE  RunningHolds(seq) <=> RunningIds(seq) \ Services # {}
<1>1. \A k \in DOMAIN seq : seq[k].state = "running" => (seq[k].holds <=> seq[k].id \notin Services)
  BY DEF Truthful
<1> QED
  BY <1>1 DEF RunningHolds, RunningIds

\* A snapshot that fits shows as it is: what it lists runs, and nothing else, and
\* the agent waits on what of it is no service.
LEMMA ApplyShows ==
  ASSUME NEW live, NEW was, was.items \in Lists(live), NEW batch, Batched(batch, live),
         batch.present, batch.snapshot, RunningIds(batch.items) = live, IdsOf(batch.items) = live,
         Cardinality(live) <= MaxTasks, NEW prev, NEW next, next # "idle", NEW prompted
  PROVE  LET new == ApplyTasks(was, batch, prev, next, prompted, 0)
         IN  RunningIds(new.items) = live /\ (new.waiting <=> next = "running" /\ live \ Services # {})
<1> DEFINE upserted == Upserted(was.items, batch.items, 0)
           ended == EndOmitted(upserted, batch, 0)
           kept == Cap(ended, Len(batch.items))
           new == ApplyTasks(was, batch, prev, next, prompted, 0)
<1>1. new = [items |-> kept, waiting |-> Waits(next, batch, kept)]
  BY DEF ApplyTasks
<1>2. new.items = kept /\ new.waiting = Waits(next, batch, kept)
  BY <1>1
<1>3. upserted \in Lists(live) /\ live \subseteq IdsOf(upserted)
  BY UpsertedKeeps DEF Batched
<1> HIDE DEF upserted
<1>4. live \subseteq RunningIds(upserted)
  <2> SUFFICES ASSUME NEW id \in live PROVE id \in RunningIds(upserted)
    OBVIOUS
  <2>1. PICK k \in DOMAIN upserted : upserted[k].id = id
    BY <1>3 DEF IdsOf
  <2>2. Truthful(upserted[k], live)
    BY <1>3 DEF Lists
  <2> QED
    BY <2>1, <2>2 DEF Truthful, RunningIds
<1>5. ended \in Lists(live) /\ RunningIds(ended) = live
  <2>1. ended \in Lists(live) /\ RunningIds(ended) = RunningIds(upserted) \cap RunningIds(batch.items)
    <3>1. 0 \in Int /\ live \subseteq RunningIds(batch.items)
      OBVIOUS
    <3> QED
      BY <1>3, <3>1, EndOmittedKeeps
  <2> QED
    BY <1>4, <2>1
<1> HIDE DEF ended
<1>6. Len(batch.items) \in Nat /\ DOMAIN batch.items = 1 .. Len(batch.items)
  BY LenProperties DEF Batched
<1>7. kept \in Lists(live) /\ RunningIds(kept) = live
  BY <1>5, <1>6, CapKeeps
<1> HIDE DEF kept
<1>8. RunningHolds(kept) <=> live \ Services # {}
  <2>1. \A k \in DOMAIN kept : Truthful(kept[k], live)
    BY <1>7 DEF Lists
  <2> QED
    BY <1>7, <2>1, HoldsIs
<1>9. RunningHolds(batch.items) <=> live \ Services # {}
  <2>1. \A k \in DOMAIN batch.items : Truthful(batch.items[k], live)
    BY <1>6 DEF Batched
  <2> QED
    BY <2>1, HoldsIs
<1> QED
  BY <1>2, <1>7, <1>8, <1>9 DEF Waits

-----------------------------------------------------------------------------
(* The turn end a pane rests on                                            *)

\* Hooks of the agent's own that say what its turn does.
Mine(p) == p \in Foreground /\ procs[p].in.event # "subagentStop"

\* No other of them is called before it has returned.
Barriers == {"prompt", "stop", "error", "reset"}
LoneInv == \A p, q \in Procs : Mine(p) /\ Mine(q) /\ procs[p].in.event \in Barriers => p = q

\* Work alive is not over, and only Claude's lives.
AliveInv ==
  /\ IsFiniteSet(alive) /\ IsFiniteSet(over) /\ alive \cap over = {}
  /\ agent # "claude" => alive = {}

\* What a hook that was just called tells of that work.
NewInv ==
  \A p \in Procs : procs[p].phase = "new" =>
    LET i == procs[p].in IN
    /\ i.services = Services /\ IsFiniteSet(i.live) /\ IsFiniteSet(i.over)
    /\ i.by # NoId => i.launch = NoId
    /\ i.over \cap alive = {} /\ (i.over # {} => i.event = "prompt" /\ p \in Foreground)
    /\ i.event = "stop" /\ ~i.stray => alive \subseteq i.live

\* What a hook sends of it: a prompt what is over, a turn end what is alive.
Batches == [present : BOOLEAN, items : Seq(Updates), snapshot : BOOLEAN]
Sound(p, u) ==
  LET batch == u.batch
      event == procs[p].in.event
  IN /\ u = Update(u.status, u.msg, u.task, batch) /\ batch \in Batches
     /\ batch = NoBatch \/
          /\ agent = "claude" /\ Mine(p) /\ event \in {"prompt", "toolDone", "stop"}
          /\ \A k \in DOMAIN batch.items :
               Truthful(batch.items[k], IF event = "prompt" THEN alive ELSE TaskIds)
          /\ event = "prompt" => RunningIds(batch.items) = {}
          /\ batch.snapshot => event = "stop" /\ alive \subseteq RunningIds(batch.items)
BatchInv == \A p \in Procs : procs[p].phase \in {"sending", "sent"} => Sound(p, procs[p].upd)

QueueInv ==
  /\ \A k \in DOMAIN queue :
       /\ queue[k].proc \in Procs /\ procs[queue[k].proc].phase = "sent"
       /\ queue[k].upd = ToWire(procs[queue[k].proc].upd)
  /\ \A k, l \in DOMAIN queue : queue[k].proc = queue[l].proc => k = l

\* The updates the rail may yet be told of p, and what they say runs.
Yet(p) ==
  IF procs[p].phase = "free" \/ Delivered(p) THEN {}
  ELSE IF procs[p].phase = "new" THEN Derive(agent, procs[p].in) ELSE {procs[p].upd}
Promised == UNION {RunningIds(u.batch.items) : u \in UNION {Yet(p) : p \in Procs}}

\* The row has no task over that is alive, or that it will be told runs.
RowInv ==
  /\ row.tasks.items \in Lists(alive \cup Promised)
  /\ agent # "claude" => row.tasks.items = <<>>

\* A subagent is marked before it calls a hook of its own.
MarkedInv ==
  \A id \in alive \cap Subagents :
    id \in markers \/ \E p \in Procs : /\ procs[p].phase = "new" /\ procs[p].in.event = "toolDone"
                                       /\ procs[p].in.launch = id

\* It calls them one at a time and is over with the last, as all work is with a
\* reset.
OnceInv ==
  /\ \A p, q \in InFlight : procs[p].in.by # NoId /\ procs[p].in.by = procs[q].in.by => p = q
  /\ \A p \in InFlight : procs[p].in.event = "subagentStop" => procs[p].in.by \notin alive
  /\ \A p \in InFlight : procs[p].in.event = "reset" => alive = {}

\* The hook of the turn end the pane rests on.
Bears(p) == p \in InFlight /\ (procs[p].phase = "new" => procs[p].in = lastStop)
Shows ==
  /\ row.status = (IF lastStop.event = "error" THEN "error"
                   ELSE IF lastStop.asks THEN "pending"
                   ELSE IF WaitsOn(lastStop) THEN "running" ELSE "done")
  /\ RunningIds(row.tasks.items) = lastStop.live
  /\ row.tasks.waiting <=> row.status = "running"

\* It is on its way or is shown, and nothing else reaches the rail.
Rests ==
  /\ turn = "rest" /\ lastStop \in Payloads /\ lastStop.event \in {"stop", "error"} \cap Events(agent)
  /\ lastStop.by = NoId /\ ~lastStop.stray /\ lastStop.services = Services
  /\ IsFiniteSet(lastStop.live) /\ (agent # "claude" => lastStop.live = {})
Quieted(p) ==
  \/ procs[p].in = lastStop
  \/ Derive(agent, procs[p].in) = {}
  \/ /\ agent = "claude" /\ procs[p].in.by \in markers
     /\ procs[p].in.event \in {"toolDone", "subagentStop"}
StopInv ==
  lastStop # NoStop =>
    /\ Rests
    /\ \A p \in InFlight :
         IF procs[p].phase = "new" THEN Quieted(p) ELSE procs[p].upd \in Derive(agent, lastStop)
    /\ \/ \E p \in Procs : Bears(p) /\ ~Delivered(p)
       \/ quiet = Unsuspected /\ (Cardinality(lastStop.live) <= MaxTasks => Shows)

-----------------------------------------------------------------------------
(* What a hook says of background work                                     *)

\* A batch lists each of the work it is of once.
LEMMA UpsertsAre ==
  ASSUME NEW ids, IsFiniteSet(ids), NEW state, NEW holding
  PROVE  LET seq == Upserts(ids, state, holding)
         IN  /\ Cardinality(ids) \in Nat /\ DOMAIN seq = 1 .. Cardinality(ids) /\ IdsOf(seq) = ids
             /\ ids \subseteq TaskIds /\ state \in TaskStates => seq \in Seq(Updates)
             /\ Len(seq) = Cardinality(ids)
             /\ \A k \in DOMAIN seq : /\ seq[k].state = state /\ seq[k].id \in ids
                                      /\ seq[k].holds = (seq[k].id \in holding)
<1> DEFINE n == Cardinality(ids)
           Lists1(s) == \A id \in ids : \E k \in DOMAIN s : s[k] = id
           order == Listing(ids)
           seq == Upserts(ids, state, holding)
<1>1. n \in Nat /\ ExistsBijection(1 .. n, ids)
  BY FS_CardinalityType
<1>2. \E s \in [1 .. n -> ids] : Lists1(s)
  <2>1. PICK s : s \in Bijection(1 .. n, ids)
    BY <1>1 DEF ExistsBijection
  <2>2. s \in [1 .. n -> ids] /\ \A id \in ids : \E k \in 1 .. n : s[k] = id
    BY <2>1 DEF Bijection, Surjection
  <2> HIDE DEF n
  <2> QED
    BY <2>2
<1>3. order \in [1 .. n -> ids] /\ Lists1(order)
  <2>1. order = CHOOSE s \in [1 .. n -> ids] : Lists1(s)
    BY DEF Listing
  <2> HIDE DEF Lists1, order, n
  <2> QED
    BY <1>2, <2>1
<1>4. seq = [k \in 1 .. n |-> [id |-> order[k], state |-> state, holds |-> order[k] \in holding]]
  <2>1. DOMAIN order = 1 .. n
    BY <1>3
  <2> QED
    BY <2>1 DEF Upserts
<1> DEFINE One(id, held) == [id |-> id, state |-> state, holds |-> held]
<1> HIDE DEF order, seq, n
<1>5. DOMAIN seq = 1 .. n
  BY <1>4
<1>6. \A k \in 1 .. n : seq[k] = One(order[k], order[k] \in holding) /\ order[k] \in ids
  BY <1>3, <1>4
<1>7. \A id, held : One(id, held).id = id /\ One(id, held).state = state /\ One(id, held).holds = held
  OBVIOUS
<1>8. \A id \in TaskIds : state \in TaskStates => One(id, id \in holding) \in Updates
  BY DEF Updates
<1> HIDE DEF One
<1>9. \A k \in 1 .. n : /\ seq[k].id = order[k] /\ seq[k].state = state /\ seq[k].id \in ids
                         /\ seq[k].holds = (seq[k].id \in holding)
  BY <1>6, <1>7
<1>10. IdsOf(seq) = ids
  BY <1>3, <1>5, <1>9 DEF IdsOf
<1>11. seq \in Seq({seq[k] : k \in 1 .. n}) /\ Len(seq) = n
  <2>1. seq \in [1 .. n -> {seq[k] : k \in 1 .. n}]
    <3>1. seq = [k \in 1 .. n |-> seq[k]]
      BY <1>4
    <3> QED
      BY <3>1
  <2> DEFINE T == {seq[k] : k \in 1 .. n}
  <2> HIDE DEF T
  <2>2. seq \in [1 .. n -> T]
    BY <2>1 DEF T
  <2>3. seq \in Seq(T)
    BY <1>1, <2>2, SeqDef DEF n
  <2>4. Len(seq) = n
    BY <1>1, <1>5, <2>3, LenProperties DEF n
  <2> QED
    BY <2>3, <2>4 DEF T
<1>12. ASSUME ids \subseteq TaskIds, state \in TaskStates PROVE seq \in Seq(Updates)
  <2>1. \A k \in 1 .. n : seq[k] \in Updates
    BY <1>6, <1>12, <1>8
  <2> QED
    BY <1>11, <2>1, SeqMonotonic
<1> QED
  BY <1>1, <1>5, <1>9, <1>10, <1>11, <1>12 DEF seq, n

\* Only Claude's hooks say something of it, and which batch by their event.
BatchOf(i) ==
  IF i.event = "stop" THEN TurnEnd(i)
  ELSE IF i.event = "prompt" THEN PromptTasks(i)
  ELSE IF i.event = "toolDone" THEN LaunchTasks(i) ELSE NoBatch

LEMMA DerivedIs ==
  ASSUME NEW a \in AllAgents, NEW i \in Payloads, NEW u \in Derive(a, i)
  PROVE  /\ u = Update(u.status, u.msg, u.task, u.batch)
         /\ u.batch = IF a = "claude" THEN BatchOf(i) ELSE NoBatch
<1>0. \A st, msg, task, batch : LET v == Update(st, msg, task, batch)
                                IN  v.batch = batch /\ v = Update(v.status, v.msg, v.task, v.batch)
  BY DEF Update
<1>1. CASE a = "claude"
  <2>1. u \in DeriveClaude(i)
    BY <1>1 DEF Derive
  <2>2. \E st, msg, task : u = Update(st, msg, task, BatchOf(i))
    <3>1. CASE i.event = "stop"
      <4>1. u \in {IF i.asks THEN Update("pending", "question", "", TurnEnd(i))
                   ELSE IF WaitsOn(i) THEN Update("running", "waiting", "", TurnEnd(i))
                   ELSE Update("done", "report", "", TurnEnd(i))}
        BY <2>1, <3>1 DEF DeriveClaude
      <4> QED
        BY <4>1, <3>1 DEF BatchOf
    <3>2. CASE i.event = "ask"
      <4>1. u = Update("pending", "question", "", NoBatch)
        BY <2>1, <3>2 DEF DeriveClaude
      <4> QED
        BY <4>1, <3>2 DEF BatchOf
    <3>3. CASE i.event = "reset"
      <4>1. u = Update("idle", "", "", NoBatch)
        BY <2>1, <3>3 DEF DeriveClaude
      <4> QED
        BY <4>1, <3>3 DEF BatchOf
    <3>4. CASE i.event = "prompt"
      <4>1. u = Update("running", "working", TaskLabel(i), PromptTasks(i))
        BY <2>1, <3>4 DEF DeriveClaude
      <4> QED
        BY <4>1, <3>4 DEF BatchOf
    <3>5. CASE i.event = "toolDone"
      <4>1. u = Update("running", ToolActivity(i), "", LaunchTasks(i))
        BY <2>1, <3>5 DEF DeriveClaude
      <4> QED
        BY <4>1, <3>5 DEF BatchOf
    <3>6. CASE i.event \in {"tool", "error", "subagentStop"}
      <4>1. u = Update("running", ToolActivity(i), "", NoBatch)
        BY <2>1, <3>6 DEF DeriveClaude
      <4> QED
        BY <4>1, <3>6 DEF BatchOf
    <3> QED
      BY <3>1, <3>2, <3>3, <3>4, <3>5, <3>6 DEF Payloads, HookEvents
  <2> QED
    BY <1>0, <1>1, <2>2
<1>2. CASE a = "codex"
  <2>1. u \in DeriveCodex(i)
    BY <1>2 DEF Derive
  <2>2. \E st, msg, task : u = Update(st, msg, task, NoBatch)
    BY <2>1 DEF DeriveCodex
  <2> QED
    BY <1>0, <1>2, <2>2
<1>3. CASE a \in Bridged
  <2>1. u \in DeriveBridged(i)
    BY <1>3 DEF Derive, Bridged
  <2>2. \E st, msg, task : u = Update(st, msg, task, NoBatch)
    BY <2>1 DEF DeriveBridged
  <2>3. a # "claude"
    BY <1>3 DEF Bridged
  <2> QED
    BY <1>0, <2>2, <2>3
<1> QED
  BY <1>1, <1>2, <1>3 DEF AllAgents

\* How a turn ended is what its hook says, and of Claude's the work it waits on.
LEMMA TurnEndIs ==
  ASSUME NEW a \in AllAgents, NEW i \in Payloads, i.event \in {"stop", "error"} \cap Events(a), ~i.stray,
         a # "claude" => i.live = {},
         NEW u \in Derive(a, i)
  PROVE  /\ u.status = IF i.event = "error" THEN "error"
                       ELSE IF i.asks THEN "pending" ELSE IF WaitsOn(i) THEN "running" ELSE "done"
         /\ u.batch = IF a = "claude" THEN TurnEnd(i) ELSE NoBatch
<1>0. \A st, msg, task, batch : Update(st, msg, task, batch).status = st
  BY DEF Update
<1>1. i.event = "stop" \/ (i.event = "error" /\ a \in Bridged)
  BY DEF Events
<1>2. CASE a = "claude"
  <2>1. u \in DeriveClaude(i)
    BY <1>2 DEF Derive
  <2>2. i.event = "stop" /\ i.event # "error"
    BY <1>1, <1>2 DEF Bridged
  <2>3. u \in {IF i.asks THEN Update("pending", "question", "", TurnEnd(i))
               ELSE IF WaitsOn(i) THEN Update("running", "waiting", "", TurnEnd(i))
               ELSE Update("done", "report", "", TurnEnd(i))}
    BY <2>1, <2>2 DEF DeriveClaude
  <2>4. u.status = IF i.asks THEN "pending" ELSE IF WaitsOn(i) THEN "running" ELSE "done"
    <3>0. \A st, msg : Update(st, msg, "", TurnEnd(i)).status = st
      BY DEF Update
    <3>1. CASE i.asks
      <4>1. u = Update("pending", "question", "", TurnEnd(i))
        BY <2>3, <3>1
      <4> QED
        BY <3>0, <3>1, <4>1
    <3>2. CASE ~i.asks /\ WaitsOn(i)
      <4>1. u = Update("running", "waiting", "", TurnEnd(i))
        BY <2>3, <3>2
      <4> QED
        BY <3>0, <3>2, <4>1
    <3>3. CASE ~i.asks /\ ~WaitsOn(i)
      <4>1. u = Update("done", "report", "", TurnEnd(i))
        BY <2>3, <3>3
      <4> QED
        BY <3>0, <3>3, <4>1
    <3> QED
      BY <3>1, <3>2, <3>3
  <2> QED
    BY <1>2, <2>2, <2>4, DerivedIs DEF BatchOf
<1>3. ASSUME a # "claude" PROVE ~WaitsOn(i)
  BY <1>3 DEF WaitsOn
<1>4. CASE a = "codex"
  <2>1. u \in DeriveCodex(i)
    BY <1>4 DEF Derive
  <2>2. i.event = "stop" /\ i.event # "error"
    BY <1>1, <1>4 DEF Bridged
  <2>3. u \in {IF i.asks THEN Update("pending", "question", "", NoBatch) ELSE Update("done", "report", "", NoBatch)}
    BY <2>1, <2>2 DEF DeriveCodex
  <2>4. u.status = IF i.asks THEN "pending" ELSE "done"
    <3>0. \A st, msg : Update(st, msg, "", NoBatch).status = st
      BY DEF Update
    <3> QED
      BY <2>3, <3>0
  <2> QED
    BY <1>3, <1>4, <2>2, <2>4, DerivedIs
<1>5. CASE a \in Bridged
  <2>1. u \in DeriveBridged(i)
    BY <1>5 DEF Derive, Bridged
  <2>2. a # "claude"
    BY <1>5 DEF Bridged
  <2>3. CASE i.event = "stop"
    <3>1. StatusOfEvent(i.event) = "done"
      BY <2>3 DEF StatusOfEvent
    <3>2. u = IF i.asks THEN Update("pending", "question", "", NoBatch) ELSE Update("done", "report", "", NoBatch)
      BY <2>1, <3>1 DEF DeriveBridged
    <3>3. u.status = IF i.asks THEN "pending" ELSE "done"
      BY <3>2 DEF Update
    <3> QED
      BY <1>3, <2>2, <2>3, <3>3, DerivedIs
  <2>4. CASE i.event = "error"
    <3>1. StatusOfEvent(i.event) = "error"
      BY <2>4 DEF StatusOfEvent
    <3>2. u = Update("error", "report", "", NoBatch)
      BY <2>1, <3>1 DEF DeriveBridged
    <3>3. u.status = "error"
      BY <3>2 DEF Update
    <3> QED
      BY <2>2, <2>4, <3>3, DerivedIs
  <2> QED
    BY <1>1, <2>3, <2>4
<1> QED
  BY <1>2, <1>4, <1>5 DEF AllAgents

\* The batches themselves.
LEMMA BatchesAre ==
  ASSUME NEW i \in Payloads, i.services = Services, IsFiniteSet(i.live), IsFiniteSet(i.over)
  PROVE  /\ BatchOf(i) \in Batches /\ NoBatch \in Batches
         /\ BatchOf(i) = NoBatch \/
              /\ i.event \in {"prompt", "toolDone", "stop"} /\ (i.event = "toolDone" => i.launch # NoId)
              /\ \A k \in DOMAIN BatchOf(i).items :
                   Truthful(BatchOf(i).items[k], IF i.event = "prompt" THEN WorkIds \ i.over ELSE TaskIds)
              /\ RunningIds(BatchOf(i).items) =
                   IF i.event = "stop" THEN i.live ELSE IF i.event = "toolDone" THEN {i.launch} ELSE {}
              /\ BatchOf(i).snapshot = (i.event = "stop")
<1> USE AgentHooksAssumption, AgentIntakeAssumption
<1>0. /\ i.live \subseteq TaskIds /\ i.over \subseteq TaskIds /\ (i.launch # NoId => {i.launch} \subseteq TaskIds)
      /\ "running" \in TaskStates /\ "completed" \in TaskStates
  BY DEF Payloads, HookIds, TaskStates, Over, Outcomes
<1>1. NoBatch \in Batches
  BY DEF NoBatch, Batches
<1>2. ASSUME NEW ids, IsFiniteSet(ids), ids \subseteq TaskIds, NEW snapshot \in BOOLEAN
      PROVE  LET b == Batch(Upserts(ids, "running", ids \ i.services), snapshot)
             IN  /\ b \in Batches /\ \A k \in DOMAIN b.items : Truthful(b.items[k], TaskIds)
                 /\ RunningIds(b.items) = ids /\ b.snapshot = snapshot
  <2> DEFINE seq == Upserts(ids, "running", ids \ i.services)
             b == Batch(seq, snapshot)
  <2>1. /\ IdsOf(seq) = ids /\ seq \in Seq(Updates)
        /\ \A k \in DOMAIN seq : seq[k].state = "running" /\ seq[k].id \in ids
                                 /\ (seq[k].holds = (seq[k].id \in ids \ i.services))
    BY <1>0, <1>2, UpsertsAre
  <2> HIDE DEF seq
  <2>2. b.items = seq /\ b.snapshot = snapshot /\ b \in Batches
    BY <2>1 DEF Batch, Batches
  <2>3. \A k \in DOMAIN seq : Truthful(seq[k], TaskIds)
    BY <2>1 DEF Truthful
  <2>4. RunningIds(seq) = ids
    BY <2>1 DEF RunningIds, IdsOf
  <2> HIDE DEF b
  <2> QED
    BY <2>2, <2>3, <2>4 DEF b, seq
<1>3. CASE i.event = "stop"
  <2>1. BatchOf(i) = Batch(Upserts(i.live, "running", i.live \ i.services), TRUE)
    BY <1>3 DEF BatchOf, TurnEnd
  <2> HIDE DEF BatchOf
  <2> QED
    BY <1>0, <1>1, <1>2, <1>3, <2>1
<1>4. CASE i.event = "prompt"
  <2>1. BatchOf(i) = IF i.over = {} THEN NoBatch ELSE Batch(Upserts(i.over, "completed", {}), FALSE)
    BY <1>4 DEF BatchOf, PromptTasks
  <2> DEFINE seq == Upserts(i.over, "completed", {})
             b == Batch(seq, FALSE)
  <2>2. /\ seq \in Seq(Updates)
        /\ \A k \in DOMAIN seq : seq[k].state = "completed" /\ seq[k].id \in i.over
    BY <1>0, UpsertsAre
  <2> HIDE DEF seq
  <2>3. b.items = seq /\ b.snapshot = FALSE /\ b \in Batches
    BY <2>2 DEF Batch, Batches
  <2>4. \A k \in DOMAIN seq : Truthful(seq[k], WorkIds \ i.over)
    BY <2>2 DEF Truthful
  <2>5. RunningIds(seq) = {}
    BY <2>2 DEF RunningIds
  <2>6. BatchOf(i) = IF i.over = {} THEN NoBatch ELSE b
    BY <2>1 DEF seq
  <2> HIDE DEF BatchOf, b
  <2>7. CASE i.over = {}
    BY <1>1, <2>6, <2>7
  <2>8. CASE i.over # {}
    <3>1. BatchOf(i) = b
      BY <2>6, <2>8
    <3> QED
      BY <1>1, <1>4, <2>3, <2>4, <2>5, <3>1
  <2> QED
    BY <2>7, <2>8
<1>5. CASE i.event = "toolDone"
  <2>1. BatchOf(i) = IF i.launch = NoId THEN NoBatch
                     ELSE Batch(Upserts({i.launch}, "running", {i.launch} \ i.services), FALSE)
    BY <1>5 DEF BatchOf, LaunchTasks
  <2>2. IsFiniteSet({i.launch})
    BY FS_Singleton
  <2> HIDE DEF BatchOf
  <2> QED
    BY <1>0, <1>1, <1>2, <1>5, <2>1, <2>2
<1>6. CASE i.event \notin {"stop", "prompt", "toolDone"}
  BY <1>1, <1>6 DEF BatchOf
<1> QED
  BY <1>3, <1>4, <1>5, <1>6

\* The wire's cap takes a snapshot for one no longer, and nothing from a batch
\* that fits.
LEMMA WireKeeps ==
  ASSUME NEW u, u = Update(u.status, u.msg, u.task, u.batch), u.batch \in Batches
  PROVE  /\ ToWire(u).status = u.status /\ ToWire(u).task = u.task
         /\ u.batch = NoBatch => ToWire(u).batch = NoBatch
         /\ \A barred : Batched(u.batch, barred) => Batched(ToWire(u).batch, barred)
         /\ Len(u.batch.items) <= MaxTasks => ToWire(u).batch = u.batch
<1> USE BgTasksAssumption
<1> DEFINE items == u.batch.items
           n == Len(items)
           m == IF n > MaxTasks THEN MaxTasks ELSE n
           b == ToWire(u).batch
<1>1. /\ u.batch = [present |-> u.batch.present, items |-> items, snapshot |-> u.batch.snapshot]
      /\ items \in Seq(Updates) /\ u.batch.present \in BOOLEAN /\ u.batch.snapshot \in BOOLEAN
  BY DEF Batches
<1>2. n \in Nat /\ DOMAIN items = 1 .. n /\ \A k \in 1 .. n : items[k] \in Updates
  BY <1>1, LenProperties
<1>3. u = [status |-> u.status, msg |-> u.msg, task |-> u.task, batch |-> u.batch]
  BY DEF Update
<1> DEFINE cut == SubSeq(items, 1, m)
           whole == u.batch.snapshot /\ n <= MaxTasks
<1>4. ToWire(u) = [u EXCEPT !.batch.items = cut, !.batch.snapshot = whole]
  <2>1. ToWire(u) = [u EXCEPT !.batch.items = SubSeq(@, 1, IF Len(@) > MaxTasks THEN MaxTasks ELSE Len(@)),
                              !.batch.snapshot = @ /\ Len(u.batch.items) <= MaxTasks]
    BY DEF ToWire
  <2> QED
    BY <1>1, <1>3, <2>1
<1> HIDE DEF cut, whole
<1>5. ToWire(u) = [status |-> u.status, msg |-> u.msg, task |-> u.task,
                   batch |-> [present |-> u.batch.present, items |-> cut, snapshot |-> whole]]
  BY <1>1, <1>3, <1>4
<1>6. /\ ToWire(u).status = u.status /\ ToWire(u).task = u.task
      /\ b = [present |-> u.batch.present, items |-> cut, snapshot |-> whole]
  BY <1>5
<1>7. n <= MaxTasks => cut = items
  BY <1>1, <1>2, SubSeqFull DEF cut
<1>8. cut \in Seq(Updates) /\ Len(cut) = m /\ m \in 0 .. n /\ \A k \in 1 .. m : cut[k] = items[k]
  <2>1. m \in Nat /\ m <= n
    BY <1>2
  <2> HIDE DEF m
  <2>2. \A k \in 1 .. m : items[k] \in Updates
    BY <1>2, <2>1
  <2>3. cut \in Seq(Updates) /\ Len(cut) = (IF 1 <= m THEN m - 1 + 1 ELSE 0)
        /\ \A k \in 1 .. m - 1 + 1 : cut[k] = items[1 + k - 1]
    BY <2>1, <2>2, SubSeqProperties DEF cut
  <2> HIDE DEF n
  <2> QED
    BY <1>2, <2>1, <2>3
<1>9. n <= MaxTasks => b = u.batch
  <2>1. n <= MaxTasks => whole = u.batch.snapshot
    BY <1>1 DEF whole
  <2> HIDE DEF n
  <2> QED
    BY <1>1, <1>6, <1>7, <2>1
<1>10. ASSUME NEW barred, Batched(u.batch, barred) PROVE Batched(b, barred)
  <2>1. b.items = cut /\ b.snapshot = whole
    BY <1>6
  <2>2. \A k \in 1 .. n : Truthful(items[k], barred)
    BY <1>10 DEF Batched
  <2> HIDE DEF m, n
  <2>3. \A k \in 1 .. Len(cut) : Truthful(cut[k], barred)
    BY <1>2, <1>8, <2>2
  <2>4. whole => cut = items /\ u.batch.snapshot
    BY <1>7 DEF whole, n
  <2> HIDE DEF b
  <2> QED
    BY <1>8, <1>10, <2>1, <2>3, <2>4 DEF Batched
<1>11. u.batch = NoBatch => b = NoBatch
  <2>1. NoBatch.items = <<>> /\ Len(<<>>) = 0 /\ 0 <= MaxTasks
    BY DEF NoBatch
  <2> HIDE DEF b
  <2> QED
    BY <1>9, <2>1
<1> QED
  BY <1>6, <1>9, <1>10, <1>11

-----------------------------------------------------------------------------
(* What a call says of the work and of the turn                            *)

SaysNothing(i) == i.launch = NoId /\ i.live = {} /\ i.over = {}

Prompts(i) ==
  /\ i.event = "prompt" /\ Owned(i) /\ Foreground = {}
  /\ i.launch = NoId /\ i.live = {} /\ i.over \subseteq over
  /\ alive' = alive /\ over' \subseteq over /\ lastStop' = NoStop
Works(i) ==
  /\ i.event \in {"tool", "toolDone", "ask"} /\ Owned(i) /\ Foreground \subseteq ToolCalls /\ turn = "work"
  /\ i.launch \in {NoId} \cup FreshIds /\ (i.launch # NoId => i.event = "toolDone" /\ agent = "claude")
  /\ i.live = {} /\ i.over = {}
  /\ alive' = alive \cup ({i.launch} \ {NoId}) /\ over' = over /\ lastStop' = lastStop
Ends(i) ==
  /\ i.event \in {"stop", "error"} \cap Events(agent) /\ Owned(i) /\ Foreground = {} /\ turn' = "rest"
  /\ i.launch = NoId /\ i.live = alive /\ i.services = Services /\ i.over = {}
  /\ alive' = alive /\ over' = over /\ lastStop' = IF InFlight = {} THEN i ELSE NoStop
Resets(i) ==
  /\ i.event = "reset" /\ Owned(i) /\ InFlight = {} /\ SaysNothing(i)
  /\ alive' = {} /\ over' = {} /\ lastStop' = NoStop
Reports(i) ==
  /\ i.event \in {"toolDone", "subagentStop"} /\ i.by \in alive \cap Subagents
  /\ SaysNothing(i) /\ (\A p \in InFlight : procs[p].in.by # i.by)
  /\ IF i.event = "toolDone" THEN alive' = alive /\ over' = over
     ELSE alive' = alive \ {i.by} /\ over' = over \cup {i.by}
  /\ turn' = turn /\ lastStop' = lastStop
Strays(i) ==
  /\ i.by = NoId /\ SaysNothing(i)
  /\ \/ agent = "codex" /\ i.stray
     \/ agent = "claude" /\ i.event = "subagentStop" /\ i.blank
  /\ alive' = alive /\ over' = over /\ turn' = turn /\ lastStop' = lastStop

\* Every call is one of those.
LEMMA CallsSay ==
  ASSUME HookTypeOK, Prompt \/ Tool \/ Ask \/ Stop \/ Reset \/ SubagentHook \/ StrayHook
  PROVE  \E i \in Payloads : Fire(i) /\ (Prompts(i) \/ Works(i) \/ Ends(i) \/ Resets(i) \/ Reports(i) \/ Strays(i))
<1> USE PayloadIsOne, AgentIntakeAssumption, AgentHooksAssumption
<1>0. SaysNothing(Payload) /\ alive \in SUBSET WorkIds /\ over \in SUBSET WorkIds
  BY DEF SaysNothing, Payload, HookTypeOK
<1>1. CASE Prompt
  <2>1. \/ Fire(Payload) /\ UNCHANGED over
        \/ Fire([Payload EXCEPT !.machine = TRUE, !.over = over]) /\ over' = {}
    BY <1>1 DEF Prompt
  <2>2. Foreground = {} /\ UNCHANGED alive /\ lastStop' = NoStop
    BY <1>1 DEF Prompt
  <2>3. CASE Fire(Payload) /\ UNCHANGED over
    BY <2>2, <2>3, <1>0 DEF Prompts, Owned, SaysNothing
  <2>4. CASE Fire([Payload EXCEPT !.machine = TRUE, !.over = over]) /\ over' = {}
    <3> DEFINE i == [Payload EXCEPT !.machine = TRUE, !.over = over]
    <3>1. /\ i \in Payloads /\ i.event = "prompt" /\ i.by = NoId /\ i.launch = NoId /\ ~i.stray
          /\ i.live = {} /\ i.over = over
      BY <1>0 DEF Payloads, SaysNothing
    <3> HIDE DEF i
    <3>2. Fire(i)
      BY <2>4 DEF i
    <3> QED
      BY <2>2, <2>4, <3>1, <3>2 DEF Prompts, Owned
  <2> QED
    BY <2>1, <2>3, <2>4
<1>2. CASE Tool
  <2>1. PICK t \in Tools, launch \in {NoId} \cup (IF agent = "claude" THEN FreshIds ELSE {}) :
          /\ Fire([Payload EXCEPT !.event = IF launch = NoId THEN "tool" ELSE "toolDone",
                                  !.tool = t, !.launch = launch])
          /\ alive' = alive \cup ({launch} \ {NoId})
    BY <1>2 DEF Tool
  <2>2. turn = "work" /\ Foreground \subseteq ToolCalls /\ UNCHANGED <<over, lastStop>>
    BY <1>2 DEF Tool
  <2>3. launch \in HookIds /\ launch \in {NoId} \cup FreshIds /\ (launch # NoId => agent = "claude")
    BY <2>1 DEF FreshIds, HookIds
  <2> DEFINE event == IF launch = NoId THEN "tool" ELSE "toolDone"
             i == [Payload EXCEPT !.event = event, !.tool = t, !.launch = launch]
  <2>4. event \in {"tool", "toolDone"} /\ (launch # NoId => event = "toolDone")
    OBVIOUS
  <2> HIDE DEF event
  <2>5. i \in Payloads /\ i.event = event /\ i.by = NoId /\ i.launch = launch /\ ~i.stray
    BY <2>3, <2>4 DEF Payloads, HookEvents
  <2>6. i.live = {} /\ i.over = {}
    BY <1>0 DEF SaysNothing, Payload
  <2>7. Fire(i)
    BY <2>1 DEF event
  <2> HIDE DEF i
  <2>8. Works(i)
    BY <2>1, <2>2, <2>3, <2>4, <2>5, <2>6 DEF Works, Owned
  <2> QED
    BY <2>5, <2>7, <2>8
<1>3. CASE Ask
  <2>1. PICK blank \in BOOLEAN : Fire([Payload EXCEPT !.event = "ask", !.blank = blank])
    BY <1>3 DEF Ask
  <2>2. turn = "work" /\ Foreground \subseteq ToolCalls /\ UNCHANGED <<alive, over, lastStop>>
    BY <1>3 DEF Ask
  <2> DEFINE i == [Payload EXCEPT !.event = "ask", !.blank = blank]
  <2>3. i \in Payloads /\ i.event = "ask" /\ i.by = NoId /\ i.launch = NoId /\ ~i.stray /\ i.live = {} /\ i.over = {}
    BY <1>0 DEF Payloads, HookEvents, SaysNothing
  <2>4. Fire(i)
    BY <2>1
  <2> HIDE DEF i
  <2> QED
    BY <2>2, <2>3, <2>4 DEF Works, Owned
<1>4. CASE Stop
  <2>1. PICK event \in {"stop", "error"} \cap Events(agent), asks \in BOOLEAN :
          LET i == [Payload EXCEPT !.event = event, !.asks = asks, !.live = alive, !.services = Services]
          IN  Fire(i) /\ lastStop' = IF InFlight = {} THEN i ELSE NoStop
    BY <1>4 DEF Stop
  <2>2. turn' = "rest" /\ Foreground = {} /\ UNCHANGED <<alive, over>>
    BY <1>4 DEF Stop
  <2> DEFINE i == [Payload EXCEPT !.event = event, !.asks = asks, !.live = alive, !.services = Services]
  <2>3. /\ i \in Payloads /\ i.event = event /\ i.by = NoId /\ i.launch = NoId /\ ~i.stray
        /\ i.live = alive /\ i.services = Services /\ i.over = {}
    <3>1. Services \in SUBSET WorkIds
      BY DEF Services
    <3> QED
      BY <1>0, <3>1 DEF Payloads, HookEvents, SaysNothing
  <2>4. Fire(i) /\ lastStop' = IF InFlight = {} THEN i ELSE NoStop
    BY <2>1
  <2> HIDE DEF i
  <2> QED
    BY <2>2, <2>3, <2>4 DEF Ends, Owned
<1>5. CASE Reset
  <2> DEFINE i == [Payload EXCEPT !.event = "reset"]
  <2>1. i \in Payloads /\ i.event = "reset" /\ i.by = NoId /\ ~i.stray /\ SaysNothing(i)
    BY <1>0 DEF Payloads, HookEvents, SaysNothing
  <2>2. Fire(i) /\ InFlight = {} /\ alive' = {} /\ over' = {} /\ lastStop' = NoStop
    BY <1>5 DEF Reset
  <2> HIDE DEF i
  <2> QED
    BY <2>1, <2>2 DEF Resets, Owned
<1>6. CASE SubagentHook
  <2>1. PICK id \in alive \cap Subagents, t \in Tools :
          /\ \A p \in InFlight : procs[p].in.by # id
          /\ \/ /\ Fire([Payload EXCEPT !.event = "toolDone", !.by = id, !.tool = t])
                /\ UNCHANGED <<alive, over>>
             \/ /\ Fire([Payload EXCEPT !.event = "subagentStop", !.by = id])
                /\ alive' = alive \ {id} /\ over' = over \cup {id}
    BY <1>6 DEF SubagentHook
  <2>2. turn' = turn /\ lastStop' = lastStop
    BY <1>6 DEF SubagentHook
  <2>3. id \in WorkIds
    BY <1>0
  <2>4. CASE Fire([Payload EXCEPT !.event = "toolDone", !.by = id, !.tool = t]) /\ UNCHANGED <<alive, over>>
    <3> DEFINE i == [Payload EXCEPT !.event = "toolDone", !.by = id, !.tool = t]
    <3>1. i \in Payloads /\ i.event = "toolDone" /\ i.by = id /\ SaysNothing(i)
      BY <2>3, <1>0 DEF Payloads, HookEvents, HookIds, SaysNothing
    <3>2. Fire(i)
      BY <2>4
    <3> HIDE DEF i
    <3> QED
      BY <2>1, <2>2, <2>4, <3>1, <3>2 DEF Reports
  <2>5. CASE /\ Fire([Payload EXCEPT !.event = "subagentStop", !.by = id])
             /\ alive' = alive \ {id} /\ over' = over \cup {id}
    <3> DEFINE i == [Payload EXCEPT !.event = "subagentStop", !.by = id]
    <3>1. i \in Payloads /\ i.event = "subagentStop" /\ i.by = id /\ SaysNothing(i)
      BY <2>3, <1>0 DEF Payloads, HookEvents, HookIds, SaysNothing
    <3>2. Fire(i)
      BY <2>5
    <3> HIDE DEF i
    <3> QED
      BY <2>1, <2>2, <2>5, <3>1, <3>2 DEF Reports
  <2> QED
    BY <2>1, <2>4, <2>5
<1>7. CASE StrayHook
  <2>1. UNCHANGED <<turn, alive, over, lastStop>>
    BY <1>7 DEF StrayHook
  <2>2. \/ agent = "claude" /\ Fire([Payload EXCEPT !.event = "subagentStop", !.blank = TRUE])
        \/ agent = "codex" /\ \E event \in {"prompt", "stop"} :
             Fire([Payload EXCEPT !.event = event, !.stray = TRUE])
    BY <1>7 DEF StrayHook
  <2>3. CASE agent = "claude" /\ Fire([Payload EXCEPT !.event = "subagentStop", !.blank = TRUE])
    <3> DEFINE i == [Payload EXCEPT !.event = "subagentStop", !.blank = TRUE]
    <3>1. i \in Payloads /\ i.event = "subagentStop" /\ i.by = NoId /\ i.blank /\ SaysNothing(i)
      BY <1>0 DEF Payloads, HookEvents, SaysNothing
    <3>2. Fire(i)
      BY <2>3
    <3> HIDE DEF i
    <3> QED
      BY <2>1, <2>3, <3>1, <3>2 DEF Strays
  <2>4. CASE agent = "codex" /\ \E event \in {"prompt", "stop"} :
               Fire([Payload EXCEPT !.event = event, !.stray = TRUE])
    <3>1. PICK event \in {"prompt", "stop"} : Fire([Payload EXCEPT !.event = event, !.stray = TRUE])
      BY <2>4
    <3> DEFINE i == [Payload EXCEPT !.event = event, !.stray = TRUE]
    <3>2. i \in Payloads /\ i.by = NoId /\ i.stray /\ SaysNothing(i)
      BY <1>0 DEF Payloads, HookEvents, SaysNothing
    <3>3. Fire(i)
      BY <3>1
    <3> HIDE DEF i
    <3> QED
      BY <2>1, <2>4, <3>2, <3>3 DEF Strays
  <2> QED
    BY <2>2, <2>3, <2>4
<1> QED
  BY <1>1, <1>2, <1>3, <1>4, <1>5, <1>6, <1>7

\* The rest of what a hook says is what it was called with.
LEMMA CalledWith ==
  ASSUME HookTypeOK, NEW i \in Payloads, NEW p \in Procs, Called(p, i)
  PROVE  LET in == procs'[p].in
         IN  /\ in \in Payloads /\ in.event = i.event /\ in.by = i.by /\ in.launch = i.launch
             /\ in.live = i.live /\ in.over = i.over /\ in.blank = i.blank /\ in.stray = i.stray
             /\ in.services = Services /\ (i.services = Services => in = i)
<1>1. procs'[p].in = [i EXCEPT !.services = Services] /\ Services \in SUBSET WorkIds
  BY DEF Called, Services
<1>2. i.services = Services => [i EXCEPT !.services = Services] = i
  BY DEF Payloads
<1> QED
  BY <1>1, <1>2 DEF Payloads

-----------------------------------------------------------------------------
(* The invariant of a turn end                                             *)

\* What is truthful stays so when less is barred, and a list when what is barred
\* besides is not on it.
LEMMA TruthIsKept ==
  ASSUME NEW barred, NEW less
  PROVE  /\ less \subseteq barred => \A task : Truthful(task, barred) => Truthful(task, less)
         /\ \A items \in Lists(barred) : less \ barred \subseteq TaskIds \ IdsOf(items) => items \in Lists(less)
<1>1. less \subseteq barred => \A task : Truthful(task, barred) => Truthful(task, less)
  BY DEF Truthful
<1>2. ASSUME NEW items \in Lists(barred), less \ barred \subseteq TaskIds \ IdsOf(items) PROVE items \in Lists(less)
  <2>1. \A k \in DOMAIN items : items[k].id \in less => items[k].id \in barred
    BY <1>2 DEF IdsOf
  <2>2. \A k \in DOMAIN items : Truthful(items[k], less)
    BY <2>1 DEF Lists, Truthful
  <2> QED
    BY <2>2 DEF Lists
<1> QED
  BY <1>1, <1>2

\* What a hook just called will send is sound.
LEMMA SoundNew ==
  ASSUME HookTypeOK, CallersInv, NewInv, NEW p \in Procs, procs[p].phase = "new",
         NEW u \in Derive(agent, procs[p].in)
  PROVE  /\ Sound(p, u)
         /\ RunningIds(u.batch.items) \subseteq procs[p].in.live \cup ({procs[p].in.launch} \ {NoId})
<1> DEFINE i == procs[p].in
<1>1. /\ i \in Payloads /\ agent \in AllAgents /\ p \in InFlight /\ i.services = Services
      /\ IsFiniteSet(i.live) /\ IsFiniteSet(i.over) /\ alive \subseteq WorkIds
  BY AgentHooksAssumption DEF HookTypeOK, InFlight, NewInv
<1>2. /\ u = Update(u.status, u.msg, u.task, u.batch)
      /\ u.batch = IF agent = "claude" THEN BatchOf(i) ELSE NoBatch
  BY <1>1, DerivedIs
<1> DEFINE b == BatchOf(i)
<1>3. /\ b \in Batches /\ NoBatch \in Batches
      /\ b = NoBatch \/
           /\ i.event \in {"prompt", "toolDone", "stop"} /\ (i.event = "toolDone" => i.launch # NoId)
           /\ \A k \in DOMAIN b.items :
                Truthful(b.items[k], IF i.event = "prompt" THEN WorkIds \ i.over ELSE TaskIds)
           /\ RunningIds(b.items) =
                IF i.event = "stop" THEN i.live ELSE IF i.event = "toolDone" THEN {i.launch} ELSE {}
           /\ b.snapshot = (i.event = "stop")
  BY <1>1, BatchesAre
<1>4. RunningIds(NoBatch.items) = {}
  BY DEF RunningIds, NoBatch
<1> HIDE DEF b
<1>5. CASE u.batch = NoBatch
  BY <1>2, <1>3, <1>4, <1>5 DEF Sound
<1>6. CASE u.batch # NoBatch
  <2>1. agent = "claude" /\ u.batch = b /\ b # NoBatch
    BY <1>2, <1>6 DEF b
  <2>2. Mine(p)
    <3>1. ~i.stray /\ (i.by # NoId => i.event \in {"toolDone", "subagentStop"} /\ i.launch = NoId)
      BY <1>1, <2>1 DEF CallersInv, NewInv
    <3> QED
      BY <1>1, <1>3, <2>1, <3>1 DEF Mine, Foreground
  <2>3. \A k \in DOMAIN b.items : Truthful(b.items[k], IF i.event = "prompt" THEN alive ELSE TaskIds)
    <3>1. CASE i.event = "prompt"
      <4>1. alive \subseteq WorkIds \ i.over
        BY <1>1 DEF NewInv
      <4>2. \A k \in DOMAIN b.items : Truthful(b.items[k], WorkIds \ i.over)
        BY <1>3, <2>1, <3>1
      <4> QED
        BY <3>1, <4>1, <4>2, TruthIsKept
    <3>2. CASE i.event # "prompt"
      BY <1>3, <2>1, <3>2
    <3> QED
      BY <3>1, <3>2
  <2>4. i.event = "stop" => alive \subseteq i.live
    <3>1. ~i.stray
      BY <2>2 DEF Mine, Foreground
    <3> QED
      BY <3>1 DEF NewInv
  <2>5. i.event = "prompt" => RunningIds(b.items) = {}
    BY <1>3, <2>1
  <2>6. b.snapshot => i.event = "stop" /\ alive \subseteq RunningIds(b.items)
    BY <1>3, <2>1, <2>4
  <2>7. Sound(p, u)
    BY <1>2, <1>3, <2>1, <2>2, <2>3, <2>5, <2>6 DEF Sound
  <2> QED
    BY <1>3, <2>1, <2>7
<1> QED
  BY <1>5, <1>6

\* No more runs than what it lists or launches.
LEMMA RunsAre ==
  ASSUME NEW a \in AllAgents, NEW i \in Payloads, i.services = Services, IsFiniteSet(i.live), IsFiniteSet(i.over),
         NEW u \in Derive(a, i)
  PROVE  RunningIds(u.batch.items) \subseteq i.live \cup ({i.launch} \ {NoId})
<1>1. u.batch = IF a = "claude" THEN BatchOf(i) ELSE NoBatch
  BY DerivedIs
<1>2. RunningIds(NoBatch.items) = {}
  BY DEF RunningIds, NoBatch
<1>3. BatchOf(i) = NoBatch \/
        /\ i.event = "toolDone" => i.launch # NoId
        /\ RunningIds(BatchOf(i).items) =
             IF i.event = "stop" THEN i.live ELSE IF i.event = "toolDone" THEN {i.launch} ELSE {}
  BY BatchesAre
<1> QED
  BY <1>1, <1>2, <1>3

\* So is whatever the rail may yet be told.
LEMMA YetIsSound ==
  ASSUME HookTypeOK, CallersInv, NewInv, BatchInv, NEW p \in Procs, NEW u \in Yet(p)
  PROVE  Sound(p, u)
<1>1. procs[p].phase \in {"free", "new", "sending", "sent"}
  BY DEF HookTypeOK
<1> QED
  BY <1>1, SoundNew DEF Yet, BatchInv

\* A step that calls a hook.
Calling(p, i) ==
  /\ Called(p, i) /\ OthersStay(p)
  /\ UNCHANGED <<agent, kind, sent, markers, queue, row, quiet, launched>>
  /\ Prompts(i) \/ Works(i) \/ Ends(i) \/ Resets(i) \/ Reports(i) \/ Strays(i)

TurnInv ==
  /\ LoneInv /\ AliveInv /\ NewInv /\ BatchInv /\ QueueInv /\ RowInv /\ MarkedInv /\ OnceInv /\ StopInv

\* What such a step leaves: the work but for a launch, which waits for all that
\* report on the turn; and the other hooks.
LEMMA CallLeaves ==
  ASSUME HookTypeOK, CallersInv, TurnInv, NEW i \in Payloads, NEW p \in Procs, Calling(p, i)
  PROVE  /\ alive' \subseteq alive \cup ({i.launch} \ {NoId}) /\ i.live \subseteq alive /\ i.over \subseteq over
         /\ i.launch # NoId => i.launch \in FreshIds /\ i.launch \in TaskIds
         /\ (\E q \in Foreground \ {p} : procs[q].in.event \notin {"tool", "toolDone"}) => alive' \subseteq alive
         /\ \A q \in Procs \ {p} :
              /\ procs'[q] = procs[q] /\ (Delivered(q)' <=> Delivered(q)) /\ Yet(q)' = Yet(q)
              /\ (q \in InFlight' <=> q \in InFlight) /\ (q \in Foreground' <=> q \in Foreground)
              /\ (Mine(q)' <=> Mine(q))
         /\ Services' = Services /\ p \notin InFlight /\ p \in InFlight' /\ ~Delivered(p)'
<1>1. alive' \subseteq alive \cup ({i.launch} \ {NoId}) /\ i.live \subseteq alive /\ i.over \subseteq over
  BY DEF Calling, Prompts, Works, Ends, Resets, Reports, Strays, SaysNothing
<1>2. i.launch # NoId => i.launch \in FreshIds /\ i.launch \in TaskIds
  BY AgentHooksAssumption DEF Calling, Prompts, Works, Ends, Resets, Reports, Strays, SaysNothing, FreshIds
<1>3. ASSUME NEW q \in Foreground, procs[q].in.event \notin {"tool", "toolDone"} PROVE alive' \subseteq alive
  <2>1. ~(Foreground \subseteq ToolCalls)
    BY <1>3 DEF ToolCalls
  <2> QED
    BY <2>1 DEF Calling, Prompts, Works, Ends, Resets, Reports, Strays
<1>4. ASSUME NEW q \in Procs \ {p}
      PROVE  /\ procs'[q] = procs[q] /\ (Delivered(q)' <=> Delivered(q)) /\ Yet(q)' = Yet(q)
             /\ (q \in InFlight' <=> q \in InFlight) /\ (q \in Foreground' <=> q \in Foreground)
             /\ (Mine(q)' <=> Mine(q))
  <2>1. procs'[q] = procs[q] /\ UNCHANGED <<agent, queue>>
    BY DEF Calling, OthersStay
  <2>2. Delivered(q)' <=> Delivered(q)
    BY <2>1 DEF Delivered
  <2>3. Yet(q)' = Yet(q)
    BY <2>1, <2>2 DEF Yet
  <2>4. (q \in InFlight' <=> q \in InFlight) /\ (q \in Foreground' <=> q \in Foreground)
    BY <2>1 DEF InFlight, Foreground
  <2> QED
    BY <2>1, <2>2, <2>3, <2>4 DEF Mine
<1>5. Services' = Services /\ p \notin InFlight /\ p \in InFlight' /\ ~Delivered(p)'
  BY DEF Calling, Services, Called, InFlight, Delivered
<1> QED
  BY <1>1, <1>2, <1>3, <1>4, <1>5

\* A hook of the agent's own is called beside others only if none of them reports
\* on the turn, nor does it.
LEMMA LoneCalls ==
  ASSUME HookTypeOK, CallersInv, TurnInv, NEW i \in Payloads, NEW p \in Procs, Calling(p, i)
  PROVE  LoneInv'
<1> USE AgentHooksAssumption, AgentIntakeAssumption
<1>0. procs'[p].in.event = i.event /\ procs'[p].in.by = i.by /\ procs'[p].in.stray = i.stray
  BY CalledWith DEF Calling
<1>1. \A q \in Procs \ {p} : (Mine(q)' <=> Mine(q)) /\ procs'[q] = procs[q]
  BY CallLeaves
<1>2. ASSUME Mine(p)', NEW q \in Procs \ {p}, Mine(q) PROVE i.event \notin Barriers /\ procs[q].in.event \notin Barriers
  <2>1. i.by = NoId /\ ~i.stray /\ i.event # "subagentStop"
    BY <1>0, <1>2 DEF Mine, Foreground
  <2>2. q \in Foreground /\ q \in InFlight
    BY <1>2 DEF Mine, Foreground
  <2>3. NoId \notin alive
    BY DEF HookTypeOK
  <2>4. Works(i)
    BY <2>1, <2>2, <2>3 DEF Calling, Prompts, Ends, Resets, Reports, Strays
  <2> QED
    BY <2>2, <2>4 DEF Works, ToolCalls, Barriers
<1>3. \A q, r \in Procs \ {p} : Mine(q) /\ Mine(r) /\ procs[q].in.event \in Barriers => q = r
  BY DEF TurnInv, LoneInv
<1> SUFFICES ASSUME NEW q \in Procs, NEW r \in Procs, Mine(q)', Mine(r)', procs'[q].in.event \in Barriers PROVE q = r
  BY DEF LoneInv
<1> QED
  BY <1>0, <1>1, <1>2, <1>3

LEMMA AliveCalls ==
  ASSUME HookTypeOK, CallersInv, TurnInv, NEW i \in Payloads, NEW p \in Procs, Calling(p, i)
  PROVE  AliveInv'
<1>0. AliveInv /\ UNCHANGED agent
  BY DEF TurnInv, Calling
<1>1. CASE Prompts(i) \/ Ends(i) \/ Strays(i)
  <2>1. alive' = alive /\ over' \subseteq over
    BY <1>1 DEF Prompts, Ends, Strays
  <2> QED
    BY <1>0, <2>1, FS_Subset DEF AliveInv
<1>2. CASE Works(i)
  <2>1. /\ alive' = alive \cup ({i.launch} \ {NoId}) /\ over' = over /\ i.launch \in {NoId} \cup FreshIds
        /\ (i.launch # NoId => agent = "claude")
    BY <1>2 DEF Works
  <2>2. CASE i.launch = NoId
    <3>1. alive' = alive
      BY <2>1, <2>2
    <3> QED
      BY <1>0, <2>1, <3>1 DEF AliveInv
  <2>3. CASE i.launch # NoId
    <3>1. alive' = alive \cup {i.launch} /\ i.launch \notin over /\ agent = "claude"
      BY <2>1, <2>3 DEF FreshIds
    <3>2. IsFiniteSet(alive')
      BY <1>0, <3>1, FS_AddElement DEF AliveInv
    <3> QED
      BY <1>0, <2>1, <3>1, <3>2 DEF AliveInv
  <2> QED
    BY <2>2, <2>3
<1>3. CASE Resets(i)
  BY <1>3, FS_EmptySet DEF Resets, AliveInv
<1>4. CASE Reports(i)
  <2>1. i.by \in alive
    BY <1>4 DEF Reports
  <2>2. CASE i.event = "toolDone"
    BY <1>0, <1>4, <2>2 DEF Reports, AliveInv
  <2>3. CASE i.event # "toolDone"
    <3>1. alive' = alive \ {i.by} /\ over' = over \cup {i.by}
      BY <1>4, <2>3 DEF Reports
    <3>2. IsFiniteSet(alive') /\ IsFiniteSet(over')
      BY <1>0, <3>1, FS_AddElement, FS_RemoveElement DEF AliveInv
    <3> QED
      BY <1>0, <2>1, <3>1, <3>2 DEF AliveInv
  <2> QED
    BY <2>2, <2>3
<1> QED
  BY <1>1, <1>2, <1>3, <1>4 DEF Calling

LEMMA NewCalls ==
  ASSUME HookTypeOK, CallersInv, TurnInv, NEW i \in Payloads, NEW p \in Procs, Calling(p, i)
  PROVE  NewInv'
<1>0. AliveInv /\ NewInv /\ AliveInv'
  BY AliveCalls DEF TurnInv
<1>1. LET in == procs'[p].in
      IN  /\ in.event = i.event /\ in.by = i.by /\ in.stray = i.stray /\ in.launch = i.launch
          /\ in.live = i.live /\ in.over = i.over /\ in.services = Services
  BY CalledWith DEF Calling
<1>2. /\ alive' \subseteq alive \cup ({i.launch} \ {NoId}) /\ i.live \subseteq alive /\ i.over \subseteq over
      /\ (\E q \in Foreground \ {p} : procs[q].in.event \notin {"tool", "toolDone"}) => alive' \subseteq alive
      /\ \A q \in Procs \ {p} : procs'[q] = procs[q] /\ (q \in Foreground' <=> q \in Foreground)
      /\ Services' = Services /\ p \notin InFlight /\ p \in InFlight'
  BY CallLeaves
<1>3. i.over \cap alive' = {} /\ (i.by # NoId => i.launch = NoId)
  BY <1>0 DEF Calling, Prompts, Works, Ends, Resets, Reports, Strays, Owned, SaysNothing, AliveInv
<1>4. i.over # {} => i.event = "prompt" /\ Owned(i)
  BY DEF Calling, Prompts, Works, Ends, Resets, Reports, Strays, SaysNothing
<1>5. i.event = "stop" /\ ~i.stray => alive' \subseteq i.live
  BY DEF Calling, Prompts, Works, Ends, Resets, Reports, Strays
<1>6. IsFiniteSet(i.live) /\ IsFiniteSet(i.over)
  BY <1>0, <1>2, FS_Subset DEF AliveInv
<1>7. Owned(i) => p \in Foreground'
  BY <1>1, <1>2 DEF Owned, Foreground
<1>8. ASSUME NEW q \in Procs \ {p}, procs[q].phase = "new"
      PROVE  /\ procs[q].in.over \cap alive' = {}
             /\ procs[q].in.event = "stop" /\ ~procs[q].in.stray => alive' \subseteq procs[q].in.live
  <2>1. q \in Foreground /\ procs[q].in.event \notin {"tool", "toolDone"} => alive' \subseteq alive
    BY <1>2
  <2>2. procs[q].in.over # {} => procs[q].in.event = "prompt" /\ q \in Foreground
    BY <1>0, <1>8 DEF NewInv
  <2>3. procs[q].in.event = "stop" /\ ~procs[q].in.stray => q \in Foreground
    <3>1. q \in InFlight
      BY <1>8 DEF InFlight
    <3> QED
      BY <3>1 DEF CallersInv, Foreground
  <2> QED
    BY <1>0, <1>8, <2>1, <2>2, <2>3 DEF NewInv
<1> SUFFICES ASSUME NEW q \in Procs, procs'[q].phase = "new"
             PROVE  LET in == procs'[q].in
                    IN  /\ in.services = Services /\ IsFiniteSet(in.live) /\ IsFiniteSet(in.over)
                        /\ in.by # NoId => in.launch = NoId
                        /\ in.over \cap alive' = {} /\ (in.over # {} => in.event = "prompt" /\ q \in Foreground')
                        /\ in.event = "stop" /\ ~in.stray => alive' \subseteq in.live
  BY <1>2 DEF NewInv
<1>9. CASE q = p
  BY <1>1, <1>3, <1>4, <1>5, <1>6, <1>7, <1>9
<1>10. CASE q # p
  BY <1>0, <1>2, <1>8, <1>10 DEF NewInv
<1> QED
  BY <1>9, <1>10

LEMMA BatchCalls ==
  ASSUME HookTypeOK, CallersInv, TurnInv, NEW i \in Payloads, NEW p \in Procs, Calling(p, i)
  PROVE  BatchInv'
<1> SUFFICES ASSUME NEW q \in Procs, procs'[q].phase \in {"sending", "sent"}, NEW u, u = procs'[q].upd
             PROVE  Sound(q, u)'
  BY DEF BatchInv, Sound, Mine, Truthful
<1>1. q # p
  BY DEF Calling, Called
<1>2. /\ procs'[q] = procs[q] /\ (Mine(q)' <=> Mine(q)) /\ Services' = Services /\ agent' = agent
      /\ (q \in Foreground /\ procs[q].in.event \notin {"tool", "toolDone"} => alive' \subseteq alive)
  BY <1>1, CallLeaves DEF Calling
<1>3. Sound(q, u)
  BY <1>2 DEF TurnInv, BatchInv
<1>4. \A task, barred : Truthful(task, barred)' <=> Truthful(task, barred)
  BY <1>2 DEF Truthful
<1>5. CASE u.batch = NoBatch
  BY <1>3, <1>5 DEF Sound
<1>6. CASE u.batch # NoBatch
  <2> DEFINE event == procs[q].in.event
             b == u.batch
  <2>1. /\ u = Update(u.status, u.msg, u.task, b) /\ b \in Batches
        /\ agent = "claude" /\ Mine(q) /\ event \in {"prompt", "toolDone", "stop"}
        /\ \A k \in DOMAIN b.items : Truthful(b.items[k], IF event = "prompt" THEN alive ELSE TaskIds)
        /\ event = "prompt" => RunningIds(b.items) = {}
        /\ b.snapshot => event = "stop" /\ alive \subseteq RunningIds(b.items)
    BY <1>3, <1>6 DEF Sound
  <2>2. event \in {"prompt", "stop"} => alive' \subseteq alive
    BY <1>2, <2>1 DEF Mine
  <2>3. \A k \in DOMAIN b.items : Truthful(b.items[k], IF event = "prompt" THEN alive' ELSE TaskIds)
    BY <2>1, <2>2, TruthIsKept
  <2>4. \A k \in DOMAIN b.items : Truthful(b.items[k], IF event = "prompt" THEN alive ELSE TaskIds)'
    BY <1>2, <2>3 DEF Truthful
  <2>5. b.snapshot => event = "stop" /\ alive' \subseteq RunningIds(b.items)
    BY <2>1, <2>2
  <2>6. procs'[q].in.event = event
    BY <1>2
  <2> HIDE DEF event, b
  <2>7. /\ u = Update(u.status, u.msg, u.task, b) /\ b \in Batches
        /\ agent' = "claude" /\ Mine(q)' /\ event \in {"prompt", "toolDone", "stop"}
        /\ event = "prompt" => RunningIds(b.items) = {}
    BY <1>2, <2>1
  <2> QED
    BY <2>3, <2>5, <2>6, <2>7, <1>2 DEF Sound, Truthful, b
<1> QED
  BY <1>5, <1>6

LEMMA QueueCalls ==
  ASSUME HookTypeOK, CallersInv, TurnInv, NEW i \in Payloads, NEW p \in Procs, Calling(p, i)
  PROVE  QueueInv'
<1>1. \A k \in DOMAIN queue : queue[k].proc \in Procs \ {p}
  BY DEF TurnInv, QueueInv, Calling, Called
<1>2. UNCHANGED queue /\ \A q \in Procs \ {p} : procs'[q] = procs[q]
  BY DEF Calling, OthersStay
<1>3. ASSUME NEW k \in DOMAIN queue
      PROVE  LET q == queue[k].proc
             IN  q \in Procs /\ procs'[q].phase = "sent" /\ queue[k].upd = ToWire(procs'[q].upd)
  <2>1. procs'[queue[k].proc] = procs[queue[k].proc]
    BY <1>1, <1>2
  <2> QED
    BY <2>1 DEF TurnInv, QueueInv
<1>4. \A k, l \in DOMAIN queue : queue[k].proc = queue[l].proc => k = l
  BY DEF TurnInv, QueueInv
<1> QED
  BY <1>2, <1>3, <1>4 DEF QueueInv

LEMMA RowCalls ==
  ASSUME HookTypeOK, CallersInv, HookTypeOK', CallersInv', TurnInv, NEW i \in Payloads, NEW p \in Procs, Calling(p, i)
  PROVE  RowInv'
<1> DEFINE items == row.tasks.items
<1>1. items \in Lists(alive \cup Promised) /\ UNCHANGED <<row, agent, kind>>
  BY DEF TurnInv, RowInv, Calling
<1>2. /\ alive' \subseteq alive \cup ({i.launch} \ {NoId}) /\ i.live \subseteq alive /\ i.over \subseteq over
      /\ i.launch # NoId => i.launch \in FreshIds /\ i.launch \in TaskIds
      /\ \A q \in Procs \ {p} : Yet(q)' = Yet(q)
      /\ Services' = Services
  BY CallLeaves
<1>3. ASSUME NEW id \in Promised' PROVE id \in Promised \cup alive \cup ({i.launch} \ {NoId})
  <2>1. PICK q \in Procs : \E u \in Yet(q)' : id \in RunningIds(u.batch.items)
    BY <1>3 DEF Promised
  <2>2. CASE q # p
    BY <1>2, <2>1, <2>2 DEF Promised
  <2>3. CASE q = p
    <3>1. PICK u \in Derive(agent, procs[p].in)' : id \in RunningIds(u.batch.items)
      <4>1. procs'[p].phase = "new"
        BY DEF Calling, Called
      <4> QED
        BY <2>1, <2>3, <4>1 DEF Yet, Delivered
    <3>2. RunningIds(u.batch.items) \subseteq procs'[p].in.live \cup ({procs'[p].in.launch} \ {NoId})
      <4> DEFINE in == procs'[p].in
      <4>1. in \in Payloads /\ in.services = Services /\ in.live = i.live /\ in.over = i.over
        BY CalledWith DEF Calling
      <4>2. IsFiniteSet(in.live) /\ IsFiniteSet(in.over) /\ agent \in AllAgents
        BY <4>1, <1>2, FS_Subset, AgentHooksAssumption DEF TurnInv, AliveInv, HookTypeOK
      <4>3. u \in Derive(agent, in)
        BY <1>1, <3>1
      <4> QED
        BY <4>1, <4>2, <4>3, RunsAre
    <3>3. procs'[p].in.live = i.live /\ procs'[p].in.launch = i.launch
      BY CalledWith DEF Calling
    <3> QED
      BY <3>1, <3>2, <3>3, <1>2
  <2> QED
    BY <2>2, <2>3
<1>4. (alive \cup Promised)' \ (alive \cup Promised) \subseteq TaskIds \ IdsOf(items)
  <2>1. (alive \cup Promised)' \ (alive \cup Promised) \subseteq {i.launch} \ {NoId}
    BY <1>2, <1>3
  <2>2. i.launch # NoId => i.launch \notin IdsOf(items)
    BY <1>2 DEF FreshIds, IdsOf
  <2> QED
    BY <1>2, <2>1, <2>2
<1>5. items \in Lists((alive \cup Promised)')
  BY <1>1, <1>4, TruthIsKept
<1>6. \A barred : Lists(barred)' = Lists(barred)
  BY <1>2 DEF Lists, Truthful
<1>7. row'.tasks.items \in Lists(alive \cup Promised)'
  BY <1>1, <1>2, <1>5 DEF Lists, Truthful
<1> QED
  BY <1>1, <1>7 DEF TurnInv, RowInv

\* What is launched calls with its launch; a subagent's last hook ends it, and no
\* fresh id is remembered.
LEMMA MarkCalls ==
  ASSUME HookTypeOK, CallersInv, TurnInv, NEW i \in Payloads, NEW p \in Procs, Calling(p, i)
  PROVE  MarkedInv' /\ OnceInv'
<1> USE AgentHooksAssumption, AgentIntakeAssumption
<1>0. MarkedInv /\ OnceInv /\ AliveInv /\ NoId \notin alive /\ UNCHANGED <<agent, markers, kind>>
  BY DEF TurnInv, HookTypeOK, Calling
<1>1. /\ alive' \subseteq alive \cup ({i.launch} \ {NoId})
      /\ i.launch # NoId => i.launch \in FreshIds
      /\ (\E q \in Foreground \ {p} : procs[q].in.event \notin {"tool", "toolDone"}) => alive' \subseteq alive
      /\ \A q \in Procs \ {p} : procs'[q] = procs[q] /\ (q \in InFlight' <=> q \in InFlight)
      /\ p \notin InFlight /\ p \in InFlight'
  BY CallLeaves
<1>2. /\ procs'[p].phase = "new" /\ procs'[p].in.event = i.event /\ procs'[p].in.by = i.by
      /\ procs'[p].in.launch = i.launch
  BY CalledWith DEF Calling, Called
<1>3. \A q \in InFlight' : q \in Procs /\ (q # p => q \in InFlight)
  BY <1>1 DEF InFlight
<1>4. i.launch # NoId => i.event = "toolDone" /\ agent = "claude"
  BY DEF Calling, Prompts, Works, Ends, Resets, Reports, Strays, SaysNothing
<1>5. MarkedInv'
  <2> SUFFICES ASSUME NEW id \in alive' \cap Subagents
               PROVE  \/ id \in markers
                      \/ \E q \in Procs : /\ procs'[q].phase = "new" /\ procs'[q].in.event = "toolDone"
                                          /\ procs'[q].in.launch = id
    BY <1>0 DEF MarkedInv, Subagents
  <2>1. CASE id = i.launch /\ i.launch # NoId
    BY <2>1, <1>2, <1>4
  <2>2. CASE id \in alive /\ id \notin markers
    <3>1. PICK q \in Procs : /\ procs[q].phase = "new" /\ procs[q].in.event = "toolDone"
                             /\ procs[q].in.launch = id
      BY <2>2, <1>0 DEF MarkedInv
    <3>2. q # p
      BY <3>1, <1>1 DEF InFlight
    <3> QED
      BY <3>1, <3>2, <1>1
  <2> QED
    BY <2>1, <2>2, <1>1
<1>6. ASSUME NEW q \in InFlight', NEW r \in InFlight', procs'[q].in.by # NoId,
             procs'[q].in.by = procs'[r].in.by
      PROVE  q = r
  <2>1. i.by # NoId => \A s \in InFlight : procs[s].in.by # i.by
    BY DEF Calling, Prompts, Works, Ends, Resets, Reports, Strays, Owned
  <2> QED
    BY <2>1, <1>0, <1>1, <1>2, <1>3, <1>6 DEF OnceInv
<1>7. ASSUME NEW q \in InFlight', procs'[q].in.event = "subagentStop" PROVE procs'[q].in.by \notin alive'
  <2>1. CASE q = p
    <3>1. Reports(i) \/ Strays(i)
      BY <2>1, <1>2, <1>7 DEF Calling, Prompts, Works, Ends, Resets
    <3> QED
      BY <3>1, <2>1, <1>0, <1>2, <1>7 DEF Reports, Strays
  <2>2. CASE q # p
    <3>1. q \in InFlight /\ procs'[q] = procs[q]
      BY <2>2, <1>1, <1>3
    <3>2. procs[q].in.by \notin alive
      BY <3>1, <1>0, <1>7 DEF OnceInv
    <3>3. i.launch # NoId => i.launch # procs[q].in.by
      BY <3>1, <1>1 DEF FreshIds
    <3> QED
      BY <3>1, <3>2, <3>3, <1>1
  <2> QED
    BY <2>1, <2>2
<1>8. ASSUME NEW q \in InFlight', procs'[q].in.event = "reset" PROVE alive' = {}
  <2>1. CASE agent # "claude"
    BY <2>1, <1>0, <1>1, <1>4 DEF AliveInv
  <2>2. CASE agent = "claude" /\ q = p
    <3>1. Resets(i)
      BY <2>2, <1>2, <1>8 DEF Calling, Prompts, Works, Ends, Reports, Strays
    <3> QED
      BY <3>1 DEF Resets
  <2>3. CASE agent = "claude" /\ q # p
    <3>1. q \in InFlight /\ procs[q].in.event = "reset"
      BY <2>3, <1>1, <1>3, <1>8
    <3>2. q \in Foreground \ {p}
      BY <3>1, <2>3 DEF CallersInv, Foreground
    <3> QED
      BY <3>1, <3>2, <1>0, <1>1 DEF OnceInv
  <2> QED
    BY <2>1, <2>2, <2>3
<1> QED
  BY <1>5, <1>6, <1>7, <1>8 DEF OnceInv

\* A pane that rests goes on resting while the agent does nothing.
LEMMA RestGoesOn ==
  ASSUME UNCHANGED <<agent, kind, turn, lastStop>>
  PROVE  /\ Rests' <=> Rests
         /\ UNCHANGED row => (Shows' <=> Shows)
<1>1. Rests' <=> Rests
  BY DEF Rests, Services
<1>2. UNCHANGED row => (Shows' <=> Shows)
  BY DEF Shows
<1> QED
  BY <1>1, <1>2

\* While a pane rests, only a stray hook or a marked subagent's is called.
LEMMA StopCalls ==
  ASSUME HookTypeOK, CallersInv, TurnInv, NEW i \in Payloads, NEW p \in Procs, Calling(p, i)
  PROVE  StopInv'
<1> USE AgentHooksAssumption, AgentIntakeAssumption
<1> SUFFICES ASSUME lastStop' # NoStop PROVE StopInv'
  BY DEF StopInv, NoStop
<1>0. /\ AliveInv /\ NewInv /\ MarkedInv /\ StopInv /\ UNCHANGED <<agent, kind, markers, row, quiet>>
      /\ agent \in AllAgents
  BY DEF TurnInv, Calling, HookTypeOK
<1>1. /\ \A q \in Procs \ {p} : /\ procs'[q] = procs[q] /\ (q \in InFlight' <=> q \in InFlight)
                                /\ (Delivered(q)' <=> Delivered(q))
      /\ p \notin InFlight /\ p \in InFlight' /\ ~Delivered(p)' /\ Services' = Services
  BY CallLeaves
<1> DEFINE in == procs'[p].in
<1>2. /\ procs'[p].phase = "new" /\ in \in Payloads /\ in.event = i.event /\ in.by = i.by /\ in.blank = i.blank
      /\ in.stray = i.stray /\ (i.services = Services => in = i)
  BY CalledWith DEF Calling, Called
<1>3. \A q \in InFlight' : q \in Procs /\ (q # p => q \in InFlight)
  BY <1>1 DEF InFlight
<1> HIDE DEF in
<1>4. CASE Ends(i)
  <2>1. InFlight = {} /\ lastStop' = i /\ i.services = Services /\ in = i
    BY <1>2, <1>4 DEF Ends
  <2>2. Rests'
    <3>1. /\ turn' = "rest" /\ i.event \in {"stop", "error"} \cap Events(agent) /\ i.by = NoId /\ ~i.stray
          /\ i.live = alive
      BY <1>4 DEF Ends, Owned
    <3>2. IsFiniteSet(i.live) /\ (agent # "claude" => i.live = {})
      BY <3>1, <1>0 DEF AliveInv
    <3> QED
      BY <2>1, <3>1, <3>2, <1>0, <1>1 DEF Rests
  <2>3. \A q \in InFlight' : q = p
    BY <2>1, <1>3
  <2>4. Quieted(p)' /\ Bears(p)'
    BY <2>1, <1>1, <1>2 DEF Quieted, Bears, in
  <2> QED
    BY <2>2, <2>3, <2>4, <1>1, <1>2 DEF StopInv
<1>5. CASE Reports(i) \/ Strays(i)
  <2>1. turn' = turn /\ lastStop' = lastStop
    BY <1>5 DEF Reports, Strays
  <2>2. /\ Rests
        /\ \A q \in InFlight :
             IF procs[q].phase = "new" THEN Quieted(q) ELSE procs[q].upd \in Derive(agent, lastStop)
        /\ \/ \E q \in Procs : Bears(q) /\ ~Delivered(q)
           \/ quiet = Unsuspected /\ (Cardinality(lastStop.live) <= MaxTasks => Shows)
    BY <2>1, <1>0 DEF StopInv
  <2>3. Rests' /\ (Shows' <=> Shows)
    BY <2>1, <2>2, <1>0, RestGoesOn
  <2>4. Quieted(p)'
    <3>1. CASE Strays(i)
      <4>1. Derive(agent, in) = {}
        BY <3>1, <1>2, StraysDeriveNothing DEF Strays
      <4> QED
        BY <4>1, <1>0 DEF Quieted, in
    <3>2. CASE Reports(i)
      <4>1. i.by \in alive \cap Subagents /\ i.event \in {"toolDone", "subagentStop"} /\ agent = "claude"
        BY <3>2, <1>0 DEF Reports, AliveInv
      <4>2. ASSUME NEW q \in Procs, procs[q].phase = "new", procs[q].in.event = "toolDone",
                   procs[q].in.launch = i.by
            PROVE  FALSE
        <5>1. q \in InFlight /\ procs[q].in \in Payloads /\ ~procs[q].in.stray
          BY <4>1, <4>2 DEF InFlight, HookTypeOK, CallersInv
        <5>2. Quieted(q)
          BY <5>1, <4>2, <2>2
        <5>3. "toolDone" \in Events(agent) \ {"ask", "subagentStop"}
          BY <1>0 DEF Events
        <5>4. Derive(agent, procs[q].in) # {}
          BY <5>1, <5>3, <4>2, <1>0, OwnHooksDerive
        <5>5. procs[q].in # lastStop
          BY <4>2, <2>2 DEF Rests
        <5>6. procs[q].in.by \in markers
          BY <5>2, <5>4, <5>5 DEF Quieted
        <5>7. procs[q].in.by # NoId /\ i.by # NoId
          BY <5>6, <4>1 DEF HookTypeOK
        <5> QED
          BY <5>7, <4>2, <1>0 DEF NewInv
      <4>3. i.by \in markers
        BY <4>1, <4>2, <1>0 DEF MarkedInv
      <4> QED
        BY <4>1, <4>3, <1>0, <1>2 DEF Quieted, in
    <3> QED
      BY <1>5, <3>1, <3>2
  <2>5. \A q \in InFlight' :
          IF procs'[q].phase = "new" THEN Quieted(q)' ELSE procs'[q].upd \in Derive(agent, lastStop)
    <3> SUFFICES ASSUME NEW q \in InFlight', q # p
                 PROVE  IF procs'[q].phase = "new" THEN Quieted(q)' ELSE procs'[q].upd \in Derive(agent, lastStop)
      BY <2>4, <1>2
    <3>1. procs'[q] = procs[q] /\ q \in InFlight
      BY <1>1, <1>3
    <3>2. Quieted(q) => Quieted(q)'
      BY <3>1, <2>1, <1>0 DEF Quieted
    <3> QED
      BY <3>1, <3>2, <2>2
  <2>6. ASSUME NEW q \in Procs, Bears(q), ~Delivered(q) PROVE Bears(q)' /\ ~Delivered(q)'
    <3>1. q # p
      BY <2>6, <1>1 DEF Bears
    <3> QED
      BY <3>1, <2>1, <2>6, <1>1 DEF Bears
  <2>7. \/ \E q \in Procs : Bears(q)' /\ ~Delivered(q)'
        \/ quiet' = Unsuspected /\ (Cardinality(lastStop'.live) <= MaxTasks => Shows')
    BY <2>1, <2>2, <2>3, <2>6, <1>0
  <2> QED
    BY <2>1, <2>3, <2>5, <2>7, <1>0 DEF StopInv
<1>6. CASE Works(i)
  BY <1>6, <1>0 DEF Works, StopInv, Rests
<1>7. CASE Prompts(i) \/ Resets(i)
  BY <1>7 DEF Prompts, Resets
<1> QED
  BY <1>4, <1>5, <1>6, <1>7 DEF Calling

-----------------------------------------------------------------------------
(* What a step that calls no hook keeps                                    *)

\* A hook in flight was so before; its intake leaves its event and caller.
Onward(q) ==
  /\ q \in InFlight
  /\ procs'[q].in.event = procs[q].in.event /\ procs'[q].in.by = procs[q].in.by
  /\ q \in Foreground' <=> q \in Foreground
  /\ procs'[q].phase = "new" => procs[q].phase = "new" /\ procs'[q].in = procs[q].in

\* While no work begins, what is in flight stays as sound as it was.
LEMMA HooksGoOn ==
  ASSUME HookTypeOK, TurnInv, UNCHANGED <<agent, kind>>, alive' \subseteq alive,
         \A q \in InFlight' : Onward(q)
  PROVE  /\ LoneInv' /\ NewInv' /\ OnceInv'
         /\ \A q \in InFlight' : \A u : Sound(q, u) => Sound(q, u)'
<1>1. \A q \in InFlight' :
        /\ q \in InFlight /\ q \in Procs /\ (Mine(q)' <=> Mine(q))
        /\ procs'[q].in.event = procs[q].in.event /\ procs'[q].in.by = procs[q].in.by
        /\ procs'[q].phase = "new" => procs[q].phase = "new" /\ procs'[q].in = procs[q].in
  BY DEF Onward, Mine, InFlight
<1>2. \A q \in Procs : (Mine(q)' => q \in InFlight') /\ (procs'[q].phase = "new" => q \in InFlight')
  BY DEF Mine, Foreground, InFlight
<1>3. LoneInv'
  BY <1>1, <1>2 DEF TurnInv, LoneInv
<1>4. NewInv'
  <2> SUFFICES ASSUME NEW q \in Procs, procs'[q].phase = "new"
               PROVE  LET i == procs'[q].in
                      IN  /\ i.services = Services /\ IsFiniteSet(i.live) /\ IsFiniteSet(i.over)
                          /\ i.by # NoId => i.launch = NoId
                          /\ i.over \cap alive' = {} /\ (i.over # {} => i.event = "prompt" /\ q \in Foreground')
                          /\ i.event = "stop" /\ ~i.stray => alive' \subseteq i.live
    BY DEF NewInv, Services
  <2>1. q \in InFlight' /\ Onward(q)
    BY <1>2
  <2>2. procs[q].phase = "new" /\ procs'[q].in = procs[q].in /\ (q \in Foreground' <=> q \in Foreground)
    BY <2>1 DEF Onward
  <2> QED
    BY <2>2 DEF TurnInv, NewInv
<1>5. OnceInv'
  <2>1. OnceInv
    BY DEF TurnInv
  <2>2. \A q \in InFlight' : procs'[q].in.event = "subagentStop" => procs'[q].in.by \notin alive'
    BY <2>1, <1>1 DEF OnceInv
  <2>3. \A q \in InFlight' : procs'[q].in.event = "reset" => alive' = {}
    BY <2>1, <1>1 DEF OnceInv
  <2>4. \A q, r \in InFlight' : procs'[q].in.by # NoId /\ procs'[q].in.by = procs'[r].in.by => q = r
    BY <2>1, <1>1 DEF OnceInv
  <2> QED
    BY <2>2, <2>3, <2>4 DEF OnceInv
<1>6. ASSUME NEW q \in InFlight', NEW u, Sound(q, u) PROVE Sound(q, u)'
  <2> DEFINE event == procs[q].in.event
             b == u.batch
  <2>1. procs'[q].in.event = event /\ (Mine(q)' <=> Mine(q)) /\ Services' = Services
    BY <1>1 DEF Services
  <2>2. /\ u = Update(u.status, u.msg, u.task, b) /\ b \in Batches
        /\ b = NoBatch \/
             /\ agent = "claude" /\ Mine(q) /\ event \in {"prompt", "toolDone", "stop"}
             /\ \A k \in DOMAIN b.items : Truthful(b.items[k], IF event = "prompt" THEN alive ELSE TaskIds)
             /\ event = "prompt" => RunningIds(b.items) = {}
             /\ b.snapshot => event = "stop" /\ alive \subseteq RunningIds(b.items)
    BY <1>6 DEF Sound
  <2>3. \A task : Truthful(task, alive) => Truthful(task, alive')
    BY TruthIsKept
  <2> HIDE DEF event, b
  <2>4. \A k \in DOMAIN b.items : Truthful(b.items[k], IF event = "prompt" THEN alive ELSE TaskIds)
                                     => Truthful(b.items[k], IF event = "prompt" THEN alive' ELSE TaskIds)
    BY <2>3
  <2> QED
    BY <2>1, <2>2, <2>4 DEF Sound, Truthful, b
<1> QED
  BY <1>3, <1>4, <1>5, <1>6

\* Nor is the row told of more.
LEMMA RowGoesOn ==
  ASSUME TurnInv, UNCHANGED <<agent, kind, row>>, alive' \subseteq alive,
         \A q \in Procs : Yet(q)' \subseteq Yet(q)
  PROVE  RowInv'
<1>1. Promised' \subseteq Promised
  <2> SUFFICES ASSUME NEW id \in Promised' PROVE id \in Promised
    OBVIOUS
  <2>1. PICK q \in Procs : \E u \in Yet(q)' : id \in RunningIds(u.batch.items)
    BY DEF Promised
  <2>2. \E u \in Yet(q) : id \in RunningIds(u.batch.items)
    BY <2>1
  <2> QED
    BY <2>2 DEF Promised
<1>2. row.tasks.items \in Lists(alive \cup Promised) /\ (agent # "claude" => row.tasks.items = <<>>)
  BY DEF TurnInv, RowInv
<1> DEFINE less == alive' \cup Promised'
<1>3. less \subseteq alive \cup Promised
  BY <1>1
<1>4. row.tasks.items \in Lists(less)
  <2> HIDE DEF less
  <2> QED
    BY <1>2, <1>3, TruthIsKept
<1>5. Services' = Services
  BY DEF Services
<1>6. row'.tasks.items \in Lists(alive \cup Promised)'
  BY <1>4, <1>5 DEF Lists, Truthful
<1> QED
  BY <1>2, <1>6 DEF RowInv

\* The queue holds what it held.
LEMMA QueueGoesOn ==
  ASSUME TurnInv, UNCHANGED queue,
         \A k \in DOMAIN queue : LET q == queue[k].proc
                                 IN  procs'[q].phase = "sent" /\ procs'[q].upd = procs[q].upd
  PROVE  QueueInv'
<1>1. ASSUME NEW k \in DOMAIN queue
      PROVE  LET q == queue[k].proc
             IN  q \in Procs /\ procs'[q].phase = "sent" /\ queue[k].upd = ToWire(procs'[q].upd)
  <2>1. queue[k].proc \in Procs /\ queue[k].upd = ToWire(procs[queue[k].proc].upd)
    BY DEF TurnInv, QueueInv
  <2> QED
    BY <2>1
<1>2. \A k, l \in DOMAIN queue : queue[k].proc = queue[l].proc => k = l
  BY DEF TurnInv, QueueInv
<1> QED
  BY <1>1, <1>2 DEF QueueInv

\* So do the marks, while what launches stays new.
LEMMA MarksGoOn ==
  ASSUME TurnInv, UNCHANGED <<kind, markers>>, alive' \subseteq alive,
         \A q \in Procs : procs[q].phase = "new" => procs'[q].phase = "new" /\ procs'[q].in = procs[q].in
  PROVE  MarkedInv'
<1> SUFFICES ASSUME NEW id \in alive \cap Subagents
             PROVE  \/ id \in markers
                    \/ \E q \in Procs : /\ procs'[q].phase = "new" /\ procs'[q].in.event = "toolDone"
                                        /\ procs'[q].in.launch = id
  BY DEF MarkedInv, Subagents
<1>1. CASE id \notin markers
  <2>1. PICK q \in Procs : /\ procs[q].phase = "new" /\ procs[q].in.event = "toolDone"
                           /\ procs[q].in.launch = id
    BY <1>1 DEF TurnInv, MarkedInv
  <2> QED
    BY <2>1
<1> QED
  BY <1>1

\* While only the environment moves, all of it holds.
LEMMA EnvKeeps ==
  ASSUME HookTypeOK, TurnInv, UNCHANGED <<agent, kind, procs, markers, queue, row, lastStop>>, alive' \subseteq alive,
         AliveInv', lastStop # NoStop => turn' = turn /\ quiet' = quiet
  PROVE  TurnInv'
<1>1. \A q \in Procs : (Delivered(q)' <=> Delivered(q)) /\ Yet(q)' = Yet(q)
  BY DEF Delivered, Yet
<1>2. InFlight' = InFlight /\ Foreground' = Foreground
  BY DEF InFlight, Foreground
<1>3. \A q \in InFlight' : Onward(q)
  BY <1>2 DEF Onward
<1>4. /\ LoneInv' /\ NewInv' /\ OnceInv' /\ \A q \in InFlight' : \A u : Sound(q, u) => Sound(q, u)'
  BY <1>3, HooksGoOn
<1>5. BatchInv'
  <2> SUFFICES ASSUME NEW q \in Procs, procs[q].phase \in {"sending", "sent"}, NEW u, u = procs[q].upd
               PROVE  Sound(q, u)'
    BY DEF BatchInv, Sound, Mine, Truthful
  <2>1. q \in InFlight' /\ Sound(q, u)
    BY <1>2 DEF InFlight, TurnInv, BatchInv
  <2> QED
    BY <2>1, <1>4
<1>6. QueueInv'
  <2>1. \A k \in DOMAIN queue : procs[queue[k].proc].phase = "sent"
    BY DEF TurnInv, QueueInv
  <2> QED
    BY <2>1, QueueGoesOn
<1>7. RowInv' /\ MarkedInv'
  BY <1>1, RowGoesOn, MarksGoOn
<1>8. StopInv'
  <2> SUFFICES ASSUME lastStop # NoStop PROVE StopInv'
    BY DEF StopInv, NoStop
  <2>1. StopInv /\ UNCHANGED <<turn, quiet>>
    BY DEF TurnInv
  <2>2. (Rests' <=> Rests) /\ (Shows' <=> Shows)
    BY <2>1, RestGoesOn
  <2>3. \A q \in Procs : (Quieted(q)' <=> Quieted(q)) /\ (Bears(q)' <=> Bears(q))
    BY <1>2 DEF Quieted, Bears
  <2> QED
    BY <2>1, <2>2, <2>3, <1>1, <1>2 DEF StopInv, InFlight
<1> QED
  BY <1>4, <1>5, <1>6, <1>7, <1>8 DEF TurnInv

-----------------------------------------------------------------------------
(* Intake                                                                  *)

\* A hook sends what it derives, unless it is a marked subagent's or a stray one.
LEMMA IntakeSends ==
  ASSUME HookTypeOK, CallersInv, NEW p \in Procs, Intake(p)
  PROVE  LET i == procs[p].in
             sends == {u \in Admitted(i) : ~Skips(u)}
         IN  /\ OthersStay(p) /\ procs[p].phase = "new"
             /\ UNCHANGED <<agent, kind, turn, alive, over, sent, queue, row, quiet, lastStop>>
             /\ markers' = IF agent = "claude" THEN MarkersAfter(i) ELSE markers
             /\ \/ sends = {} /\ procs'[p].phase = "free"
                \/ /\ procs'[p].phase = "sending" /\ procs'[p].upd \in Derive(agent, i)
                   /\ procs'[p].in.event = i.event /\ procs'[p].in.by = i.by
                   /\ ~procs'[p].in.stray /\ ~i.stray
                   /\ ~(agent = "claude" /\ Silenced(i, markers))
<1> DEFINE i == procs[p].in
           sends == {u \in Admitted(i) : ~Skips(u)}
<1>1. OthersStay(p) /\ procs[p].phase = "new" /\ Taken(p)
  BY IntakeTakes DEF Intake
<1>2. /\ UNCHANGED <<agent, kind, turn, alive, over, sent, queue, row, quiet, lastStop>>
      /\ markers' = IF agent = "claude" THEN MarkersAfter(i) ELSE markers
  BY DEF Intake, env, rail
<1>3. CASE sends = {}
  BY <1>1, <1>2, <1>3 DEF Taken
<1>4. CASE sends # {}
  <2>1. PICK u \in sends :
          procs' = [procs EXCEPT ![p].phase = "sending", ![p].upd = u,
                      ![p].in = [Payload EXCEPT !.event = i.event, !.by = i.by]]
    BY <1>4 DEF Intake
  <2> DEFINE in == [Payload EXCEPT !.event = i.event, !.by = i.by]
  <2> HIDE DEF in
  <2>2. procs'[p] = [procs[p] EXCEPT !.phase = "sending", !.upd = u, !.in = in]
    BY <2>1 DEF HookTypeOK, in
  <2>3. procs'[p] = [phase |-> "sending", in |-> in, upd |-> u, held |-> procs[p].held]
    BY <2>2 DEF HookTypeOK
  <2>4. procs'[p].phase = "sending" /\ procs'[p].in = in /\ procs'[p].upd = u
    BY <2>3
  <2>5. u \in Derive(agent, i) /\ ~(agent = "claude" /\ Silenced(i, markers))
    BY <2>1 DEF Admitted
  <2>6. in.event = i.event /\ in.by = i.by /\ ~in.stray
    BY DEF in, Payload
  <2>7. ~i.stray
    <3>1. i \in Payloads /\ (i.stray => agent = "codex")
      BY <1>1 DEF HookTypeOK, CallersInv, InFlight
    <3> QED
      BY <3>1, <2>5, StraysDeriveNothing
  <2> QED
    BY <1>1, <1>2, <2>4, <2>5, <2>6, <2>7
<1> QED
  BY <1>3, <1>4

\* Its marker stays while a subagent runs, and from its launch on.
LEMMA IntakeMarks ==
  ASSUME HookTypeOK, CallersInv, TurnInv, NEW p \in Procs, Intake(p)
  PROVE  /\ MarkedInv'
         /\ \A q \in InFlight \ {p} :
              /\ lastStop # NoStop /\ agent = "claude" /\ procs[q].in.by \in markers
              => procs[q].in.by \in markers'
<1> USE AgentHooksAssumption, AgentIntakeAssumption
<1> DEFINE i == procs[p].in
<1>1. /\ OthersStay(p) /\ procs[p].phase = "new" /\ UNCHANGED <<agent, kind, alive, lastStop>>
      /\ markers' = IF agent = "claude" THEN MarkersAfter(i) ELSE markers
  BY IntakeSends
<1>2. p \in InFlight /\ i \in Payloads /\ agent \in AllAgents
  BY <1>1 DEF InFlight, HookTypeOK
<1>3. MarkedInv'
  <2> SUFFICES ASSUME NEW id \in alive \cap Subagents
               PROVE  \/ id \in markers'
                      \/ \E q \in Procs : /\ procs'[q].phase = "new" /\ procs'[q].in.event = "toolDone"
                                          /\ procs'[q].in.launch = id
    BY <1>1 DEF MarkedInv, Subagents
  <2>1. agent = "claude" /\ markers' = MarkersAfter(i)
    BY <1>1 DEF TurnInv, AliveInv
  <2>2. i.event # "reset" /\ (i.event = "subagentStop" => i.by # id)
    BY <1>2 DEF TurnInv, OnceInv
  <2>3. CASE id \in markers
    BY <2>1, <2>2, <2>3 DEF MarkersAfter
  <2>4. CASE id \notin markers
    <3>1. PICK q \in Procs : /\ procs[q].phase = "new" /\ procs[q].in.event = "toolDone"
                             /\ procs[q].in.launch = id
      BY <2>4 DEF TurnInv, MarkedInv
    <3>2. CASE q = p
      BY <3>1, <3>2, <2>1 DEF MarkersAfter, LaunchesSubagent
    <3>3. CASE q # p
      BY <3>1, <3>3, <1>1 DEF OthersStay
    <3> QED
      BY <3>2, <3>3
  <2> QED
    BY <2>3, <2>4
<1>4. ASSUME NEW q \in InFlight \ {p}, lastStop # NoStop, agent = "claude", procs[q].in.by \in markers
      PROVE  procs[q].in.by \in markers'
  <2>1. markers' = MarkersAfter(i)
    BY <1>1, <1>4
  <2>2. ~i.stray /\ (i.event = "reset" => i.by = NoId) /\ (i.by = NoId => i.event \in Events(agent))
    BY <1>2, <1>4 DEF CallersInv
  <2>3. i.event # "reset"
    <3> SUFFICES ASSUME i.event = "reset" PROVE FALSE
      OBVIOUS
    <3>1. Derive(agent, i) # {}
      BY <1>2, <2>2, OwnHooksDerive
    <3>2. Quieted(p) /\ Rests
      BY <1>1, <1>2, <1>4 DEF TurnInv, StopInv
    <3> QED
      BY <3>1, <3>2 DEF Quieted, Rests
  <2>4. procs[q].in.by # NoId
    BY <1>4 DEF HookTypeOK
  <2>5. procs[q].in.by # i.by
    BY <1>2, <1>4, <2>4 DEF TurnInv, OnceInv
  <2> QED
    BY <2>1, <2>3, <2>5, <1>4 DEF MarkersAfter
<1> QED
  BY <1>3, <1>4

\* While a pane rests, its turn end is all that is sent.
LEMMA IntakeRests ==
  ASSUME HookTypeOK, CallersInv, TurnInv, NEW p \in Procs, Intake(p)
  PROVE  StopInv'
<1> USE AgentHooksAssumption
<1> DEFINE i == procs[p].in
           sends == {u \in Admitted(i) : ~Skips(u)}
<1>1. /\ OthersStay(p) /\ procs[p].phase = "new"
      /\ UNCHANGED <<agent, kind, turn, alive, queue, row, quiet, lastStop>>
      /\ \/ sends = {} /\ procs'[p].phase = "free"
         \/ /\ procs'[p].phase = "sending" /\ procs'[p].upd \in Derive(agent, i)
            /\ ~(agent = "claude" /\ Silenced(i, markers))
  BY IntakeSends
<1> SUFFICES ASSUME lastStop # NoStop PROVE StopInv'
  BY <1>1 DEF StopInv, NoStop
<1>2. p \in InFlight /\ i \in Payloads /\ agent \in AllAgents
  BY <1>1 DEF InFlight, HookTypeOK
<1>3. /\ Rests
      /\ \A q \in InFlight :
           IF procs[q].phase = "new" THEN Quieted(q) ELSE procs[q].upd \in Derive(agent, lastStop)
      /\ \/ \E q \in Procs : Bears(q) /\ ~Delivered(q)
         \/ quiet = Unsuspected /\ (Cardinality(lastStop.live) <= MaxTasks => Shows)
  BY DEF TurnInv, StopInv
<1>4. Rests' /\ (Shows' <=> Shows)
  BY <1>1, <1>3, RestGoesOn
<1>5. i = lastStop => sends # {}
  <2> SUFFICES ASSUME i = lastStop PROVE sends # {}
    OBVIOUS
  <2>1. ~i.stray /\ i.event \in {"stop", "error"} \cap Events(agent)
    BY <1>3 DEF Rests
  <2>2. PICK u \in Derive(agent, i) : TRUE
    BY <1>2, <2>1, OwnHooksDerive
  <2>3. ~(u.status = "running" /\ ~Edge(u))
    BY <1>2, <2>1, <2>2, EndsAreSent
  <2>4. Admitted(i) = Derive(agent, i)
    BY <2>1 DEF Admitted, Silenced
  <2> QED
    BY <2>2, <2>3, <2>4 DEF Skips, Redundant
<1>6. \A q \in Procs \ {p} : /\ procs'[q] = procs[q] /\ (q \in InFlight' <=> q \in InFlight)
                             /\ (Delivered(q)' <=> Delivered(q))
  BY <1>1, StaysDelivered DEF OthersStay, InFlight
<1>7. ASSUME NEW q \in InFlight', q # p
      PROVE  IF procs'[q].phase = "new" THEN Quieted(q)' ELSE procs'[q].upd \in Derive(agent, lastStop)
  <2>1. q \in InFlight /\ procs'[q] = procs[q]
    BY <1>6, <1>7 DEF InFlight
  <2>2. Quieted(q) => Quieted(q)'
    <3>1. agent = "claude" /\ procs[q].in.by \in markers => procs[q].in.by \in markers'
      BY <2>1, <1>7, IntakeMarks
    <3> QED
      BY <2>1, <3>1, <1>1 DEF Quieted
  <2> QED
    BY <1>3, <2>1, <2>2
<1>8. ASSUME NEW q \in Procs, q # p, Bears(q), ~Delivered(q) PROVE Bears(q)' /\ ~Delivered(q)'
  BY <1>1, <1>6, <1>8 DEF Bears
<1>9. CASE procs'[p].phase = "free"
  <2>1. i # lastStop
    BY <1>1, <1>5, <1>9
  <2>2. ~Bears(p) /\ p \notin InFlight'
    BY <2>1, <1>1, <1>9 DEF Bears, InFlight
  <2>3. \/ \E q \in Procs : Bears(q)' /\ ~Delivered(q)'
        \/ quiet' = Unsuspected /\ (Cardinality(lastStop'.live) <= MaxTasks => Shows')
    BY <2>2, <1>1, <1>3, <1>4, <1>8
  <2> QED
    BY <2>2, <2>3, <1>1, <1>4, <1>7 DEF StopInv
<1>10. CASE procs'[p].phase = "sending"
  <2>1. procs'[p].upd \in Derive(agent, i) /\ ~(agent = "claude" /\ Silenced(i, markers)) /\ Quieted(p)
    BY <1>1, <1>2, <1>3, <1>10
  <2>2. i = lastStop
    BY <2>1 DEF Quieted, Silenced
  <2>3. Bears(p)' /\ ~Delivered(p)'
    BY <1>10 DEF Bears, InFlight, Delivered
  <2>4. \A q \in InFlight' :
          IF procs'[q].phase = "new" THEN Quieted(q)' ELSE procs'[q].upd \in Derive(agent, lastStop)
    BY <2>1, <2>2, <1>7, <1>10
  <2> QED
    BY <2>3, <2>4, <1>1, <1>4 DEF StopInv
<1> QED
  BY <1>1, <1>9, <1>10

\* Intake keeps all of it.
LEMMA IntakeKeeps ==
  ASSUME HookTypeOK, CallersInv, TurnInv, NEW p \in Procs, Intake(p)
  PROVE  TurnInv'
<1> DEFINE i == procs[p].in
<1>1. /\ OthersStay(p) /\ procs[p].phase = "new"
      /\ UNCHANGED <<agent, kind, turn, alive, over, queue, row, quiet, lastStop>>
      /\ \/ procs'[p].phase = "free"
         \/ /\ procs'[p].phase = "sending" /\ procs'[p].upd \in Derive(agent, i)
            /\ procs'[p].in.event = i.event /\ procs'[p].in.by = i.by
            /\ ~procs'[p].in.stray /\ ~i.stray
  BY IntakeSends
<1>2. \A q \in Procs \ {p} : /\ procs'[q] = procs[q] /\ (q \in InFlight' <=> q \in InFlight)
                             /\ (Delivered(q)' <=> Delivered(q)) /\ Yet(q)' = Yet(q)
  BY <1>1, StaysDelivered DEF OthersStay, InFlight, Yet
<1>3. \A q \in InFlight' : Onward(q)
  <2> SUFFICES ASSUME NEW q \in InFlight' PROVE Onward(q)
    OBVIOUS
  <2>1. CASE q = p
    BY <2>1, <1>1 DEF Onward, InFlight, Foreground
  <2>2. CASE q # p
    BY <2>2, <1>2 DEF Onward, InFlight, Foreground
  <2> QED
    BY <2>1, <2>2
<1>4. LoneInv' /\ NewInv' /\ OnceInv' /\ \A q \in InFlight' : \A u : Sound(q, u) => Sound(q, u)'
  BY <1>1, <1>3, HooksGoOn
<1>5. AliveInv'
  BY <1>1 DEF TurnInv, AliveInv
<1>6. BatchInv'
  <2> SUFFICES ASSUME NEW q \in Procs, procs'[q].phase \in {"sending", "sent"}, NEW u, u = procs'[q].upd
               PROVE  Sound(q, u)'
    BY DEF BatchInv, Sound, Mine, Truthful
  <2>1. q \in InFlight'
    BY DEF InFlight
  <2>2. CASE q = p
    <3>1. u \in Derive(agent, procs[p].in)
      BY <2>2, <1>1
    <3>2. Sound(p, u)
      BY <3>1, <1>1, SoundNew DEF TurnInv
    <3> QED
      BY <3>2, <2>1, <2>2, <1>4
  <2>3. CASE q # p
    <3>1. Sound(q, u)
      BY <2>3, <1>2 DEF TurnInv, BatchInv
    <3> QED
      BY <3>1, <2>1, <1>4
  <2> QED
    BY <2>2, <2>3
<1>7. QueueInv'
  <2>1. \A k \in DOMAIN queue : queue[k].proc \in Procs \ {p}
    BY <1>1 DEF TurnInv, QueueInv
  <2> QED
    BY <2>1, <1>1, <1>2, QueueGoesOn DEF TurnInv, QueueInv
<1>8. RowInv'
  <2>1. Yet(p)' \subseteq Yet(p)
    <3>1. Yet(p) = Derive(agent, i)
      BY <1>1 DEF Yet, Delivered
    <3>2. Yet(p)' = {} \/ (Yet(p)' = {procs'[p].upd} /\ procs'[p].phase = "sending")
      BY <1>1 DEF Yet
    <3> QED
      BY <3>1, <3>2, <1>1
  <2> QED
    BY <2>1, <1>1, <1>2, RowGoesOn
<1>9. MarkedInv' /\ StopInv'
  BY IntakeMarks, IntakeRests
<1> QED
  BY <1>4, <1>5, <1>6, <1>7, <1>8, <1>9 DEF TurnInv

-----------------------------------------------------------------------------
(* Sends, deliveries and time                                              *)

\* When a process on its way, and no new hook, moves on.
LEMMA ProcKeeps ==
  ASSUME HookTypeOK, TurnInv, NEW p \in Procs, OthersStay(p), procs[p].phase \in {"sending", "sent"},
         UNCHANGED <<agent, kind, turn, alive, over, markers, row, quiet, lastStop>>,
         procs'[p].phase \in {"free", "sent"},
         p \in InFlight' => procs'[p].in = procs[p].in /\ procs'[p].upd = procs[p].upd,
         \A q \in Procs \ {p} : Delivered(q)' <=> Delivered(q),
         procs'[p].phase = "free" => Delivered(p), procs'[p].phase = "sent" => ~Delivered(p)' /\ ~Delivered(p)
  PROVE  /\ LoneInv' /\ AliveInv' /\ NewInv' /\ BatchInv' /\ RowInv' /\ MarkedInv' /\ OnceInv' /\ StopInv'
<1>1. \A q \in Procs \ {p} : /\ procs'[q] = procs[q] /\ (q \in InFlight' <=> q \in InFlight)
                             /\ Yet(q)' = Yet(q)
  BY DEF OthersStay, InFlight, Yet
<1>2. p \in InFlight /\ (procs'[p].phase = "free" <=> p \notin InFlight') /\ procs'[p].phase # "new"
  BY DEF InFlight
<1>3. \A q \in InFlight' : Onward(q)
  <2> SUFFICES ASSUME NEW q \in InFlight' PROVE Onward(q)
    OBVIOUS
  <2>1. CASE q = p
    BY <2>1, <1>2 DEF Onward, Foreground
  <2>2. CASE q # p
    <3>1. q \in Procs \ {p}
      BY <2>2 DEF InFlight
    <3> QED
      BY <3>1, <1>1 DEF Onward, InFlight, Foreground
  <2> QED
    BY <2>1, <2>2
<1>4. LoneInv' /\ NewInv' /\ OnceInv' /\ \A q \in InFlight' : \A u : Sound(q, u) => Sound(q, u)'
  BY <1>3, HooksGoOn
<1>5. AliveInv'
  BY DEF TurnInv, AliveInv
<1>6. BatchInv'
  <2> SUFFICES ASSUME NEW q \in Procs, procs'[q].phase \in {"sending", "sent"}, NEW u, u = procs'[q].upd
               PROVE  Sound(q, u)'
    BY DEF BatchInv, Sound, Mine, Truthful
  <2>1. q \in InFlight'
    BY DEF InFlight
  <2>2. procs[q].phase \in {"sending", "sent"} /\ u = procs[q].upd
    BY <2>1, <1>1
  <2> QED
    BY <2>1, <2>2, <1>4 DEF TurnInv, BatchInv
<1>7. RowInv'
  <2>1. Yet(p)' \subseteq Yet(p)
    BY <1>2 DEF Yet
  <2> QED
    BY <2>1, <1>1, RowGoesOn
<1>8. MarkedInv'
  <2>1. \A q \in Procs : procs[q].phase = "new" => procs'[q].phase = "new" /\ procs'[q].in = procs[q].in
    BY <1>1
  <2> QED
    BY <2>1, MarksGoOn
<1>9. StopInv'
  <2> SUFFICES ASSUME lastStop # NoStop PROVE StopInv'
    BY DEF StopInv, NoStop
  <2>1. /\ Rests
        /\ \A q \in InFlight :
             IF procs[q].phase = "new" THEN Quieted(q) ELSE procs[q].upd \in Derive(agent, lastStop)
        /\ \/ \E q \in Procs : Bears(q) /\ ~Delivered(q)
           \/ quiet = Unsuspected /\ (Cardinality(lastStop.live) <= MaxTasks => Shows)
    BY DEF TurnInv, StopInv
  <2>2. Rests' /\ (Shows' <=> Shows)
    BY <2>1, RestGoesOn
  <2>3. ASSUME NEW q \in InFlight'
        PROVE  IF procs'[q].phase = "new" THEN Quieted(q)' ELSE procs'[q].upd \in Derive(agent, lastStop)
    <3>1. CASE q = p
      BY <3>1, <2>1, <2>3, <1>2
    <3>2. CASE q # p
      <4>1. q \in InFlight /\ procs'[q] = procs[q]
        BY <3>2, <1>1 DEF InFlight
      <4>2. Quieted(q) => Quieted(q)'
        BY <4>1 DEF Quieted
      <4> QED
        BY <4>1, <4>2, <2>1
    <3> QED
      BY <3>1, <3>2
  <2>4. ASSUME NEW q \in Procs, Bears(q), ~Delivered(q) PROVE Bears(q)' /\ ~Delivered(q)'
    <3>1. CASE q = p
      BY <3>1, <2>4, <1>2 DEF Bears
    <3>2. CASE q # p
      BY <3>2, <2>4, <1>1 DEF Bears
    <3> QED
      BY <3>1, <3>2
  <2>5. \/ \E q \in Procs : Bears(q)' /\ ~Delivered(q)'
        \/ quiet' = Unsuspected /\ (Cardinality(lastStop'.live) <= MaxTasks => Shows')
    BY <2>1, <2>2, <2>4
  <2> QED
    BY <2>2, <2>3, <2>5 DEF StopInv
<1> QED
  BY <1>4, <1>5, <1>6, <1>7, <1>8, <1>9

\* What is sent is queued once.
LEMMA SendKeeps ==
  ASSUME HookTypeOK, TurnInv, NEW p \in Procs, Send(p)
  PROVE  TurnInv'
<1> DEFINE n == Len(queue)
           e == [proc |-> p, upd |-> ToWire(procs[p].upd)]
<1>1. /\ UNCHANGED <<agent, kind, turn, alive, over, markers, row, quiet, lastStop>>
      /\ queue' = Append(queue, e) /\ procs[p].phase = "sending"
  BY DEF Send, env, files, told
<1>2. OthersStay(p) /\ procs'[p].phase = "sent" /\ procs'[p].in = procs[p].in
  BY SendsAndFrees
<1>3. procs'[p].upd = procs[p].upd
  <2>1. procs'[p] = [procs[p] EXCEPT !.phase = "sent"]
    BY DEF Send, HookTypeOK
  <2> QED
    BY <2>1 DEF HookTypeOK
<1>4. e.proc = p /\ e.upd = ToWire(procs'[p].upd)
  BY <1>3
<1>5. /\ n \in Nat /\ DOMAIN queue = 1 .. n /\ DOMAIN queue' = 1 .. (n + 1) /\ queue'[n + 1] = e
      /\ \A k \in 1 .. n : queue'[k] = queue[k]
  <2> DEFINE S == {queue[k] : k \in 1 .. n} \cup {e}
  <2>1. queue \in Seq(S) /\ e \in S
    BY SeqMonotonic DEF HookTypeOK
  <2> HIDE DEF S, e
  <2> QED
    BY <2>1, <1>1
<1> HIDE DEF e
<1>6. \A k \in 1 .. n : /\ queue[k].proc \in Procs /\ procs[queue[k].proc].phase = "sent"
                        /\ queue[k].upd = ToWire(procs[queue[k].proc].upd)
  BY <1>5 DEF TurnInv, QueueInv
<1>7. \A k \in 1 .. n : queue[k].proc # p
  BY <1>1, <1>6
<1>8. QueueInv'
  <2>1. ASSUME NEW k \in 1 .. (n + 1)
        PROVE  LET q == queue'[k].proc
               IN  q \in Procs /\ procs'[q].phase = "sent" /\ queue'[k].upd = ToWire(procs'[q].upd)
    <3>1. CASE k = n + 1
      BY <3>1, <1>2, <1>4, <1>5
    <3>2. CASE k # n + 1
      <4>1. k \in 1 .. n /\ queue'[k] = queue[k]
        BY <3>2, <1>5
      <4>2. procs'[queue[k].proc] = procs[queue[k].proc]
        BY <4>1, <1>2, <1>6, <1>7 DEF OthersStay
      <4> QED
        BY <4>1, <4>2, <1>6
    <3> QED
      BY <3>1, <3>2
  <2>2. ASSUME NEW k \in 1 .. (n + 1), NEW l \in 1 .. (n + 1), queue'[k].proc = queue'[l].proc PROVE k = l
    <3>1. \A m \in 1 .. (n + 1) : m = n + 1 \/ m \in 1 .. n
      BY <1>5
    <3>2. \A k1, k2 \in 1 .. n : queue[k1].proc = queue[k2].proc => k1 = k2
      BY <1>5 DEF TurnInv, QueueInv
    <3> QED
      BY <2>2, <3>1, <3>2, <1>4, <1>5, <1>7
  <2> QED
    BY <2>1, <2>2, <1>5 DEF QueueInv
<1>9. ~Delivered(p)' /\ ~Delivered(p)
  <2>1. n + 1 \in DOMAIN queue' /\ queue'[n + 1].proc = p
    BY <1>4, <1>5
  <2> QED
    BY <2>1, <1>1 DEF Delivered
<1>10. ASSUME NEW q \in Procs \ {p} PROVE Delivered(q)' <=> Delivered(q)
  <2>1. (\A k \in DOMAIN queue' : queue'[k].proc # q) <=> (\A k \in DOMAIN queue : queue[k].proc # q)
    <3>1. \A k \in 1 .. (n + 1) : k \in 1 .. n \/ queue'[k].proc = p
      BY <1>4, <1>5
    <3>2. 1 .. n \subseteq 1 .. (n + 1)
      BY <1>5
    <3> QED
      BY <3>1, <3>2, <1>5
  <2>2. procs'[q] = procs[q]
    BY <1>2 DEF OthersStay
  <2> QED
    BY <2>1, <2>2 DEF Delivered
<1> QED
  BY <1>1, <1>2, <1>3, <1>8, <1>9, <1>10, ProcKeeps DEF TurnInv

\* What was delivered is nothing the rail is yet told of.
LEMMA FreeKeeps ==
  ASSUME HookTypeOK, TurnInv, NEW p \in Procs, Record(p) \/ GiveUp(p)
  PROVE  TurnInv'
<1>1. OthersStay(p) /\ Delivered(p) /\ procs'[p].phase = "free" /\ procs[p].phase = "sent"
  BY SendsAndFrees DEF Delivered
<1>2. UNCHANGED <<agent, kind, turn, alive, over, markers, queue, row, quiet, lastStop>>
  BY DEF Record, GiveUp, env, files, rail, told
<1>3. \A q \in Procs \ {p} : procs'[q] = procs[q] /\ (Delivered(q)' <=> Delivered(q))
  BY <1>1, <1>2, StaysDelivered DEF OthersStay
<1>4. p \notin InFlight'
  BY <1>1 DEF InFlight
<1>5. QueueInv'
  <2>1. \A k \in DOMAIN queue : queue[k].proc \in Procs \ {p}
    BY <1>1 DEF TurnInv, QueueInv, Delivered
  <2> QED
    BY <2>1, <1>2, <1>3, QueueGoesOn DEF TurnInv, QueueInv
<1> QED
  BY <1>1, <1>2, <1>3, <1>4, <1>5, ProcKeeps DEF TurnInv

\* A second passes only while all is delivered: what a resting pane shows is
\* under no suspicion.
LEMMA TickKeeps ==
  ASSUME HookTypeOK, TurnInv, Tick
  PROVE  TurnInv'
<1>1. /\ UNCHANGED <<agent, kind, turn, alive, over, markers, queue, lastStop>> /\ queue = <<>>
      /\ \A p \in InFlight : HeldUp(p)
      /\ quiet' = IF GraceExpired \/ quiet = Unsuspected THEN Unsuspected ELSE quiet + 1
      /\ row' = IF GraceExpired /\ row.status = "running"
                  THEN [status |-> "idle", tasks |-> NoTasks] ELSE row
  BY DEF Tick, told
<1>2. ASSUME NEW p \in Procs
      PROVE  /\ procs'[p].phase = procs[p].phase /\ procs'[p].in = procs[p].in /\ procs'[p].upd = procs[p].upd
             /\ procs[p].phase \in {"free", "sent"} /\ (p \in InFlight => Delivered(p))
  <2>1. procs'[p] = IF p \in InFlight THEN [procs[p] EXCEPT !.held = @ + 1] ELSE procs[p]
    BY DEF Tick
  <2>2. procs'[p].phase = procs[p].phase /\ procs'[p].in = procs[p].in /\ procs'[p].upd = procs[p].upd
    BY <2>1 DEF HookTypeOK
  <2>3. p \in InFlight => Delivered(p)
    BY <1>1 DEF HeldUp
  <2> QED
    BY <2>2, <2>3 DEF InFlight, Delivered
<1>3. \A p \in Procs : (Delivered(p)' <=> Delivered(p)) /\ Yet(p) = {} /\ Yet(p)' = {}
  BY <1>1, <1>2 DEF Delivered, Yet, InFlight
<1>4. InFlight' = InFlight /\ \A q \in InFlight' : Onward(q)
  BY <1>2 DEF InFlight, Onward, Foreground
<1>5. LoneInv' /\ NewInv' /\ OnceInv' /\ \A q \in InFlight' : \A u : Sound(q, u) => Sound(q, u)'
  BY <1>1, <1>4, HooksGoOn
<1>6. AliveInv'
  BY <1>1 DEF TurnInv, AliveInv
<1>7. BatchInv'
  <2> SUFFICES ASSUME NEW q \in Procs, procs'[q].phase \in {"sending", "sent"}, NEW u, u = procs'[q].upd
               PROVE  Sound(q, u)'
    BY DEF BatchInv, Sound, Mine, Truthful
  <2>1. q \in InFlight' /\ Sound(q, u)
    BY <1>2 DEF InFlight, TurnInv, BatchInv
  <2> QED
    BY <2>1, <1>5
<1>8. QueueInv'
  BY <1>1, <1>2, QueueGoesOn DEF TurnInv, QueueInv
<1>9. RowInv'
  <2>1. CASE row' = row
    BY <2>1, <1>1, <1>3, RowGoesOn
  <2>2. CASE row' # row
    <3>1. row'.tasks.items = <<>>
      BY <2>2, <1>1 DEF NoTasks
    <3>2. \A barred : <<>> \in Lists(barred)
      BY DEF Lists, Distinct
    <3>3. Lists(alive \cup Promised)' = Lists(alive' \cup Promised')
      BY <1>1 DEF Lists, Truthful, Services
    <3> QED
      BY <3>1, <3>2, <3>3 DEF RowInv
  <2> QED
    BY <2>1, <2>2
<1>10. MarkedInv'
  BY <1>1, <1>2, MarksGoOn
<1>11. StopInv'
  <2> SUFFICES ASSUME lastStop # NoStop PROVE StopInv'
    BY <1>1 DEF StopInv, NoStop
  <2>1. /\ Rests
        /\ \A q \in InFlight :
             IF procs[q].phase = "new" THEN Quieted(q) ELSE procs[q].upd \in Derive(agent, lastStop)
        /\ \/ \E q \in Procs : Bears(q) /\ ~Delivered(q)
           \/ quiet = Unsuspected /\ (Cardinality(lastStop.live) <= MaxTasks => Shows)
    BY DEF TurnInv, StopInv
  <2>2. quiet = Unsuspected /\ (Cardinality(lastStop.live) <= MaxTasks => Shows)
    BY <2>1, <1>2 DEF Bears
  <2>3. UNCHANGED <<quiet, row>>
    BY <2>2, <1>1 DEF GraceExpired
  <2>4. Rests' /\ (Shows' <=> Shows)
    BY <2>1, <2>3, <1>1, RestGoesOn
  <2>5. \A q \in InFlight' : procs'[q].phase # "new" /\ procs'[q].upd \in Derive(agent, lastStop)
    BY <2>1, <1>2, <1>4 DEF InFlight
  <2> QED
    BY <2>2, <2>3, <2>4, <2>5, <1>1 DEF StopInv
<1> QED
  BY <1>5, <1>6, <1>7, <1>8, <1>9, <1>10, <1>11 DEF TurnInv

-----------------------------------------------------------------------------
(* What the rail consumes                                                  *)

\* What is consumed says of no task alive, nor of one it will be told runs, that it
\* is over: a prompt and a turn end come alone, and a launch says of none.
LEMMA ConsumedIsTrue ==
  ASSUME HookTypeOK, CallersInv, TurnInv, NEW p \in Procs, procs[p].phase = "sent",
         NEW rest, rest \subseteq UNION {RunningIds(u.batch.items) : u \in UNION {Yet(q) : q \in Procs \ {p}}}
  PROVE  Batched(procs[p].upd.batch, alive \cup rest)
<1> DEFINE v == procs[p].upd
           b == v.batch
           event == procs[p].in.event
           barred == alive \cup rest
<1>1. Sound(p, v)
  BY DEF TurnInv, BatchInv
<1>2. ASSUME NEW id \in rest
      PROVE  /\ id \in TaskIds
             /\ \E q \in Procs \ {p} : Mine(q)
  <2>1. PICK u \in UNION {Yet(q) : q \in Procs \ {p}} : id \in RunningIds(u.batch.items)
    BY <1>2
  <2>2. PICK q \in Procs \ {p} : u \in Yet(q) /\ Sound(q, u)
    <3>1. PICK q \in Procs \ {p} : u \in Yet(q)
      BY <2>1
    <3> QED
      BY <3>1, YetIsSound DEF TurnInv
  <2>3. u.batch # NoBatch
    BY <2>1 DEF NoBatch, RunningIds
  <2>4. u.batch.items \in Seq(Updates) /\ Mine(q)
    BY <2>2, <2>3 DEF Sound, Batches
  <2>5. \A k \in DOMAIN u.batch.items : u.batch.items[k].id \in TaskIds
    <3> DEFINE items == u.batch.items
    <3>1. items \in Seq(Updates)
      BY <2>4
    <3> HIDE DEF items
    <3>2. \A k \in DOMAIN items : items[k] \in Updates
      BY <3>1
    <3> QED
      BY <3>2 DEF items, Updates
  <2> QED
    BY <2>1, <2>4, <2>5 DEF RunningIds
<1>3. CASE b = NoBatch
  BY <1>3 DEF Batched, NoBatch
<1>4. CASE b # NoBatch
  <2>1. /\ b \in Batches /\ Mine(p) /\ event \in {"prompt", "toolDone", "stop"}
        /\ \A k \in DOMAIN b.items : Truthful(b.items[k], IF event = "prompt" THEN alive ELSE TaskIds)
        /\ b.snapshot => event = "stop" /\ alive \subseteq RunningIds(b.items)
    BY <1>1, <1>4 DEF Sound
  <2>2. event \in {"prompt", "stop"} => rest = {}
    BY <1>2, <2>1 DEF TurnInv, LoneInv, Barriers
  <2>3. barred \subseteq TaskIds
    BY <1>2, AgentHooksAssumption DEF HookTypeOK
  <2>4. b.items \in Seq(Updates) /\ DOMAIN b.items = 1 .. Len(b.items)
    BY <2>1 DEF Batches
  <2>5. event = "prompt" => barred = alive
    BY <2>2
  <2>6. b.snapshot => barred \subseteq RunningIds(b.items)
    BY <2>1, <2>2
  <2> HIDE DEF barred, event, b
  <2>7. \A task : Truthful(task, TaskIds) => Truthful(task, barred)
    BY <2>3, TruthIsKept
  <2>8. \A k \in DOMAIN b.items : Truthful(b.items[k], barred)
    <3>1. CASE event = "prompt"
      BY <3>1, <2>1, <2>5
    <3>2. CASE event # "prompt"
      BY <3>2, <2>1, <2>7
    <3> QED
      BY <3>1, <3>2
  <2>9. Batched(b, barred)
    BY <2>4, <2>6, <2>8 DEF Batched
  <2> QED
    BY <2>9 DEF b, barred
<1> QED
  BY <1>3, <1>4

\* Where there are no tasks, none come of a payload without a batch.
LEMMA NoneIsStored ==
  ASSUME NEW was, was.items = <<>>, NEW prev, NEW next, NEW prompted
  PROVE  LET new == ApplyTasks(was, NoBatch, prev, next, prompted, 0)
         IN  new.items = <<>> /\ new.waiting = FALSE
<1> DEFINE left == Unfinished(<<>>)
           merged == IF StartsNewWork(prev, next, prompted) THEN Unfinished(was.items) ELSE was.items
           items == Cap(merged, Len(NoBatch.items))
<1>1. <<>> \in Lists({})
  BY DEF Lists, Distinct
<1>2. left = <<>>
  <2>1. left \in Lists({}) /\ IdsOf(left) \subseteq IdsOf(<<>>)
    BY <1>1, UnfinishedKeeps
  <2> HIDE DEF left
  <2>2. IdsOf(<<>>) = {} /\ \A k \in DOMAIN left : left[k].id \in IdsOf(left)
    BY DEF IdsOf
  <2>3. left \in Seq(Stored) /\ DOMAIN left = {}
    BY <2>1, <2>2 DEF Lists
  <2> QED
    BY <2>3
<1>3. merged = <<>>
  BY <1>2
<1>4. Len(NoBatch.items) = 0
  BY DEF NoBatch
<1>5. items = <<>>
  <2> HIDE DEF merged
  <2>1. Cap(merged, 0) = merged
    BY <1>1, <1>3, CapKeeps
  <2> QED
    BY <2>1, <1>3, <1>4
<1> HIDE DEF items
<1>6. CASE next = "idle"
  BY <1>6 DEF ApplyTasks, NoTasks
<1>7. CASE next # "idle"
  <2>1. ~NoBatch.present /\ ~NoBatch.snapshot
    BY DEF NoBatch
  <2>2. ApplyTasks(was, NoBatch, prev, next, prompted, 0) = [items |-> items, waiting |-> Waits(next, NoBatch, items)]
    BY <1>7, <2>1 DEF ApplyTasks, items
  <2>3. Waits(next, NoBatch, items) = FALSE
    BY <2>1 DEF Waits
  <2> QED
    BY <2>2, <2>3, <1>5
<1> QED
  BY <1>6, <1>7

\* A turn end that is consumed is shown: its outcome, and the work it lists.
LEMMA EndShows ==
  ASSUME HookTypeOK, Rests, NEW v \in Derive(agent, lastStop),
         NEW was, was.items \in Lists(lastStop.live), agent # "claude" => was.items = <<>>,
         Cardinality(lastStop.live) <= MaxTasks, NEW prev, NEW prompted
  PROVE  LET u == ToWire(v)
             new == ApplyTasks(was, u.batch, prev, u.status, prompted, 0)
         IN  /\ u.status = (IF lastStop.event = "error" THEN "error"
                            ELSE IF lastStop.asks THEN "pending"
                            ELSE IF WaitsOn(lastStop) THEN "running" ELSE "done")
             /\ RunningIds(new.items) = lastStop.live
             /\ new.waiting <=> u.status = "running"
<1> DEFINE i == lastStop
           live == lastStop.live
           u == ToWire(v)
           new == ApplyTasks(was, u.batch, prev, u.status, prompted, 0)
<1>1. /\ i \in Payloads /\ agent \in AllAgents /\ ~i.stray /\ i.event \in {"stop", "error"} \cap Events(agent)
      /\ i.services = Services /\ IsFiniteSet(live) /\ (agent # "claude" => live = {})
  BY AgentHooksAssumption DEF Rests, HookTypeOK
<1>2. /\ v.status = IF i.event = "error" THEN "error"
                    ELSE IF i.asks THEN "pending" ELSE IF WaitsOn(i) THEN "running" ELSE "done"
      /\ v.batch = IF agent = "claude" THEN TurnEnd(i) ELSE NoBatch
  BY <1>1, TurnEndIs
<1>3. v = Update(v.status, v.msg, v.task, v.batch)
  BY <1>1, DerivedIs
<1>4. v.batch \in Batches => /\ u.status = v.status /\ (v.batch = NoBatch => u.batch = NoBatch)
                             /\ (Len(v.batch.items) <= MaxTasks => u.batch = v.batch)
  BY <1>3, WireKeeps
<1>5. WaitsOn(i) <=> live \ Services # {}
  BY <1>1 DEF WaitsOn
<1>6. v.status # "idle" /\ (v.status = "running" => live \ Services # {})
  BY <1>2, <1>5
<1>7. CASE agent # "claude"
  <2>0. NoBatch \in Batches
    BY DEF NoBatch, Batches
  <2>1. /\ u.batch = NoBatch /\ live = {} /\ was.items = <<>> /\ v.status # "running"
        /\ u.status = v.status
    BY <2>0, <1>1, <1>2, <1>4, <1>6, <1>7
  <2>2. new.items = <<>> /\ new.waiting = FALSE
    BY <2>1, NoneIsStored
  <2>3. RunningIds(<<>>) = {}
    BY DEF RunningIds
  <2> QED
    BY <2>1, <2>2, <2>3, <1>2
<1>8. CASE agent = "claude"
  <2> DEFINE items == Upserts(live, "running", live \ i.services)
  <2>1. v.batch = Batch(items, TRUE)
    BY <1>2, <1>8 DEF TurnEnd
  <2>2. live \subseteq TaskIds /\ "running" \in TaskStates
    BY <1>1, AgentHooksAssumption DEF Payloads, TaskStates
  <2>3. /\ items \in Seq(Updates) /\ Len(items) = Cardinality(live) /\ IdsOf(items) = live
        /\ \A k \in DOMAIN items : /\ items[k].state = "running" /\ items[k].id \in live
                                   /\ items[k].holds = (items[k].id \in live \ i.services)
    BY <1>1, <2>2, UpsertsAre
  <2> HIDE DEF items
  <2>4. RunningIds(items) = live
    BY <2>3 DEF RunningIds, IdsOf
  <2>5. \A k \in DOMAIN items : Truthful(items[k], live)
    BY <2>3, <1>1 DEF Truthful
  <2>6. v.batch.items = items /\ v.batch.snapshot = TRUE /\ v.batch.present = TRUE
    BY <2>1 DEF Batch
  <2>7. u.batch = v.batch /\ u.status = v.status
    <3>1. v.batch \in Batches
      BY <2>1, <2>3 DEF Batch, Batches
    <3> QED
      BY <3>1, <2>3, <2>6, <1>4
  <2>8. Batched(u.batch, live)
    <3>1. DOMAIN items = 1 .. Len(items)
      BY <2>3
    <3> QED
      BY <3>1, <2>3, <2>4, <2>5, <2>6, <2>7 DEF Batched
  <2>9. RunningIds(new.items) = live /\ (new.waiting <=> u.status = "running" /\ live \ Services # {})
    BY <2>3, <2>4, <2>6, <2>7, <2>8, <1>6, ApplyShows
  <2> QED
    BY <2>7, <2>9, <1>2, <1>6
<1> QED
  BY <1>7, <1>8

\* What it says runs is the work it lists.
LEMMA EndRuns ==
  ASSUME HookTypeOK, Rests, agent = "claude", NEW v \in Derive(agent, lastStop)
  PROVE  RunningIds(v.batch.items) = lastStop.live
<1> DEFINE i == lastStop
           items == Upserts(i.live, "running", i.live \ i.services)
<1>1. /\ i \in Payloads /\ agent \in AllAgents /\ ~i.stray /\ i.event \in {"stop", "error"} \cap Events(agent)
      /\ IsFiniteSet(i.live)
  BY AgentHooksAssumption DEF Rests, HookTypeOK
<1>2. v.batch = TurnEnd(i)
  BY <1>1, TurnEndIs
<1>3. v.batch.items = items
  BY <1>2 DEF TurnEnd, Batch
<1>4. IdsOf(items) = i.live /\ \A k \in DOMAIN items : items[k].state = "running"
  BY <1>1, UpsertsAre
<1> HIDE DEF items
<1>5. RunningIds(items) = i.live
  BY <1>4 DEF RunningIds, IdsOf
<1> QED
  BY <1>3, <1>5

\* The row takes what its rail consumes, and shows a turn end that it consumes.
LEMMA ConsumeKeeps ==
  ASSUME HookTypeOK, CallersInv, TurnInv, Consume
  PROVE  TurnInv'
<1> DEFINE n == Len(queue)
<1>1. /\ UNCHANGED <<agent, kind, turn, alive, over, procs, markers, lastStop>> /\ quiet' = Unsuspected
      /\ queue # <<>> /\ queue' = Tail(queue)
  BY DEF Consume, env, files, told
<1>2. /\ n \in Nat /\ n > 0 /\ DOMAIN queue = 1 .. n /\ DOMAIN queue' = 1 .. (n - 1) /\ Head(queue) = queue[1]
      /\ \A k \in 1 .. (n - 1) : queue'[k] = queue[k + 1] /\ k + 1 \in 1 .. n /\ k + 1 # 1
  <2> DEFINE S == {queue[k] : k \in 1 .. n}
  <2>1. queue \in Seq(S)
    BY DEF HookTypeOK
  <2> HIDE DEF S
  <2> QED
    BY <2>1, <1>1
<1>3. /\ \A k \in 1 .. n : /\ queue[k].proc \in Procs /\ procs[queue[k].proc].phase = "sent"
                           /\ queue[k].upd = ToWire(procs[queue[k].proc].upd)
      /\ \A k, l \in 1 .. n : queue[k].proc = queue[l].proc => k = l
  BY <1>2 DEF TurnInv, QueueInv
<1>4. PICK p \in Procs : /\ p = queue[1].proc /\ procs[p].phase = "sent" /\ ~Delivered(p)
                       /\ queue[1].upd = ToWire(procs[p].upd)
  BY <1>2, <1>3 DEF Delivered
<1> DEFINE v == procs[p].upd
           u == ToWire(v)
           prompted == u.task # ""
           new == ApplyTasks(row.tasks, u.batch, row.status, u.status, prompted, 0)
<1>5. row' = [status |-> u.status, tasks |-> new]
  <2>1. LET w == Head(queue).upd
        IN  row' = [status |-> w.status,
                    tasks |-> ApplyTasks(row.tasks, w.batch, row.status, w.status, w.task # "", 0)]
    BY DEF Consume
  <2> QED
    BY <2>1, <1>2, <1>4
<1> HIDE DEF u, prompted, new
<1>6. row'.status = u.status /\ row'.tasks = new
  BY <1>5
<1>7. Delivered(p)' /\ \A q \in Procs \ {p} : Delivered(q)' <=> Delivered(q)
  <2>1. Delivered(p)'
    <3>1. \A k \in 1 .. (n - 1) : queue'[k].proc # p
      BY <1>2, <1>3, <1>4
    <3> QED
      BY <3>1, <1>1, <1>2, <1>4 DEF Delivered
  <2>2. ASSUME NEW q \in Procs \ {p} PROVE Delivered(q)' <=> Delivered(q)
    <3>0. queue[1].proc # q
      BY <1>4
    <3>1. (\A k \in 1 .. (n - 1) : queue'[k].proc # q) => \A k \in 1 .. n : queue[k].proc # q
      <4> SUFFICES ASSUME \A k \in 1 .. (n - 1) : queue'[k].proc # q, NEW k \in 1 .. n
                   PROVE  queue[k].proc # q
        OBVIOUS
      <4>1. CASE k = 1
        BY <3>0, <4>1
      <4>2. CASE k # 1
        <5>1. k - 1 \in 1 .. (n - 1) /\ (k - 1) + 1 = k
          BY <4>2, <1>2
        <5> QED
          BY <5>1, <1>2
      <4> QED
        BY <4>1, <4>2
    <3>2. (\A k \in 1 .. n : queue[k].proc # q) => \A k \in 1 .. (n - 1) : queue'[k].proc # q
      BY <1>2
    <3> QED
      BY <3>1, <3>2, <1>1, <1>2 DEF Delivered
  <2> QED
    BY <2>1, <2>2
<1>8. Yet(p)' = {} /\ Yet(p) = {v} /\ \A q \in Procs \ {p} : Yet(q)' = Yet(q)
  BY <1>1, <1>4, <1>7 DEF Yet
<1>9. InFlight' = InFlight /\ \A q \in InFlight' : Onward(q)
  BY <1>1 DEF InFlight, Onward, Foreground
<1>10. LoneInv' /\ NewInv' /\ OnceInv' /\ \A q \in InFlight' : \A w : Sound(q, w) => Sound(q, w)'
  BY <1>1, <1>9, HooksGoOn
<1>11. AliveInv' /\ MarkedInv'
  BY <1>1, MarksGoOn DEF TurnInv, AliveInv
<1>12. BatchInv'
  <2> SUFFICES ASSUME NEW q \in Procs, procs'[q].phase \in {"sending", "sent"}, NEW w, w = procs'[q].upd
               PROVE  Sound(q, w)'
    BY DEF BatchInv, Sound, Mine, Truthful
  <2>1. q \in InFlight' /\ Sound(q, w)
    BY <1>1 DEF InFlight, TurnInv, BatchInv
  <2> QED
    BY <2>1, <1>10
<1>13. QueueInv'
  <2>1. \A k \in 1 .. (n - 1) : /\ queue'[k].proc \in Procs /\ procs'[queue'[k].proc].phase = "sent"
                                /\ queue'[k].upd = ToWire(procs'[queue'[k].proc].upd)
    BY <1>1, <1>2, <1>3
  <2>2. ASSUME NEW k \in 1 .. (n - 1), NEW l \in 1 .. (n - 1), queue'[k].proc = queue'[l].proc PROVE k = l
    <3>1. k + 1 = l + 1
      BY <2>2, <1>2, <1>3
    <3> QED
      BY <3>1
  <2> QED
    BY <2>1, <2>2, <1>2 DEF QueueInv
<1>14. v = Update(v.status, v.msg, v.task, v.batch) /\ v.batch \in Batches /\ (agent # "claude" => v.batch = NoBatch)
  <2>1. Sound(p, v)
    BY <1>4 DEF TurnInv, BatchInv
  <2> QED
    BY <2>1 DEF Sound
<1>15. (v.batch = NoBatch => u.batch = NoBatch) /\ \A barred : Batched(v.batch, barred) => Batched(u.batch, barred)
  BY <1>14, WireKeeps DEF u
<1> DEFINE rest == UNION {RunningIds(w.batch.items) : w \in UNION {Yet(q) : q \in Procs \ {p}}}
           barred == alive \cup rest
<1>16. rest \subseteq Promised /\ Promised' = rest
  <2>1. rest \subseteq Promised
    <3>1. UNION {Yet(q) : q \in Procs \ {p}} \subseteq UNION {Yet(q) : q \in Procs}
      OBVIOUS
    <3> QED
      BY <3>1 DEF Promised
  <2>2. UNION {Yet(q) : q \in Procs}' = UNION {Yet(q) : q \in Procs \ {p}}
    <3>1. ASSUME NEW w PROVE (\E q \in Procs : w \in Yet(q)') <=> (\E q \in Procs \ {p} : w \in Yet(q))
      BY <1>8
    <3>2. UNION {Yet(q) : q \in Procs}' = UNION {Yet(q)' : q \in Procs}
      OBVIOUS
    <3>3. \A w : w \in UNION {Yet(q)' : q \in Procs} <=> w \in UNION {Yet(q) : q \in Procs \ {p}}
      BY <3>1
    <3> QED
      BY <3>2, <3>3
  <2> QED
    BY <2>1, <2>2 DEF Promised
<1> HIDE DEF rest
<1>17. RowInv'
  <2>1. Batched(v.batch, barred)
    BY <1>4, ConsumedIsTrue DEF rest
  <2>2. row.tasks.items \in Lists(alive \cup Promised) /\ (agent # "claude" => row.tasks.items = <<>>)
    BY DEF TurnInv, RowInv
  <2>3. row.tasks.items \in Lists(barred)
    <3>1. barred \subseteq alive \cup Promised
      BY <1>16
    <3> HIDE DEF barred
    <3> QED
      BY <2>2, <3>1, TruthIsKept
  <2>4. new.items \in Lists(barred)
    BY <2>1, <2>3, <1>15, ApplyKeeps DEF new
  <2>5. agent # "claude" => new.items = <<>>
    <3>1. agent # "claude" => u.batch = NoBatch /\ row.tasks.items = <<>>
      BY <2>2, <1>14, <1>15
    <3>2. row.tasks.items = <<>> => ApplyTasks(row.tasks, NoBatch, row.status, u.status, prompted, 0).items = <<>>
      BY NoneIsStored
    <3> QED
      BY <3>1, <3>2 DEF new
  <2>6. (alive \cup Promised)' = barred
    BY <1>1, <1>16
  <2>7. Services' = Services
    BY <1>1 DEF Services
  <2>8. row'.tasks.items \in Lists(alive \cup Promised)'
    <3> HIDE DEF barred
    <3> QED
      BY <2>4, <2>6, <2>7, <1>6 DEF Lists, Truthful
  <2> QED
    BY <2>5, <2>8, <1>1, <1>6 DEF RowInv
<1>18. StopInv'
  <2> SUFFICES ASSUME lastStop # NoStop PROVE StopInv'
    BY <1>1 DEF StopInv, NoStop
  <2>1. /\ Rests
        /\ \A q \in InFlight :
             IF procs[q].phase = "new" THEN Quieted(q) ELSE procs[q].upd \in Derive(agent, lastStop)
    BY DEF TurnInv, StopInv
  <2>2. Rests'
    BY <2>1, <1>1, RestGoesOn
  <2>3. v \in Derive(agent, lastStop)
    BY <2>1, <1>4 DEF InFlight
  <2>4. ASSUME Cardinality(lastStop.live) <= MaxTasks PROVE Shows'
    <3>1. RowInv
      BY DEF TurnInv
    <3>2. lastStop.live \subseteq alive \cup Promised
      <4>1. CASE agent # "claude"
        BY <4>1, <2>1 DEF Rests
      <4>2. CASE agent = "claude"
        <5>1. RunningIds(v.batch.items) = lastStop.live
          BY <4>2, <2>1, <2>3, EndRuns
        <5>2. RunningIds(v.batch.items) \subseteq Promised
          BY <1>4, <1>8 DEF Promised
        <5> QED
          BY <5>1, <5>2
      <4> QED
        BY <4>1, <4>2
    <3>3. row.tasks.items \in Lists(lastStop.live) /\ (agent # "claude" => row.tasks.items = <<>>)
      BY <3>1, <3>2, TruthIsKept DEF RowInv
    <3>4. /\ u.status = (IF lastStop.event = "error" THEN "error"
                         ELSE IF lastStop.asks THEN "pending"
                         ELSE IF WaitsOn(lastStop) THEN "running" ELSE "done")
          /\ RunningIds(new.items) = lastStop.live
          /\ new.waiting <=> u.status = "running"
      BY <2>1, <2>3, <2>4, <3>3, EndShows DEF u, new
    <3> QED
      BY <3>4, <1>1, <1>6 DEF Shows
  <2>5. \A q \in InFlight' :
          IF procs'[q].phase = "new" THEN Quieted(q)' ELSE procs'[q].upd \in Derive(agent, lastStop)
    BY <2>1, <1>1, <1>9 DEF Quieted
  <2> QED
    BY <2>2, <2>4, <2>5, <1>1 DEF StopInv
<1> QED
  BY <1>10, <1>11, <1>12, <1>13, <1>17, <1>18 DEF TurnInv

-----------------------------------------------------------------------------
(* The turn end is shown                                                   *)

\* Every step keeps the invariant.
LEMMA TurnSteps ==
  HookTypeOK /\ CallersInv /\ HookTypeOK' /\ CallersInv' /\ TurnInv /\ [HooksNext]_hookVars => TurnInv'
<1> SUFFICES ASSUME HookTypeOK, CallersInv, HookTypeOK', CallersInv', TurnInv, [HooksNext]_hookVars
             PROVE  TurnInv'
  OBVIOUS
<1>1. CASE Prompt \/ Tool \/ Ask \/ Stop \/ Reset \/ SubagentHook \/ StrayHook
  <2>1. PICK i \in Payloads :
          Fire(i) /\ (Prompts(i) \/ Works(i) \/ Ends(i) \/ Resets(i) \/ Reports(i) \/ Strays(i))
    BY <1>1, CallsSay
  <2>2. UNCHANGED <<agent, kind, sent, markers, queue, row, quiet, launched>>
    BY <2>1, FireCalls
  <2>3. PICK p \in Procs : Called(p, i) /\ OthersStay(p)
    BY <2>1, FireCalls
  <2>4. Calling(p, i)
    BY <2>1, <2>2, <2>3 DEF Calling
  <2> QED
    BY <2>4, LoneCalls, AliveCalls, NewCalls, BatchCalls, QueueCalls, RowCalls, MarkCalls, StopCalls DEF TurnInv
<1>2. CASE Answer
  <2>1. UNCHANGED <<agent, kind, alive, over, procs, markers, queue, row, quiet, lastStop>> /\ turn = "ask"
    BY <1>2 DEF Answer, files, rail, told
  <2>2. lastStop = NoStop
    BY <2>1 DEF TurnInv, StopInv, Rests
  <2>3. AliveInv'
    BY <2>1 DEF TurnInv, AliveInv
  <2> QED
    BY <2>1, <2>2, <2>3, EnvKeeps
<1>3. CASE ShellEnds
  <2>1. PICK id \in alive \ Subagents : alive' = alive \ {id} /\ over' = over \cup {id}
    BY <1>3 DEF ShellEnds
  <2>2. UNCHANGED <<agent, kind, turn, procs, markers, queue, row, quiet, lastStop>>
    BY <1>3 DEF ShellEnds, files, rail, told
  <2>3. AliveInv'
    <3>1. IsFiniteSet(alive') /\ IsFiniteSet(over')
      BY <2>1, FS_AddElement, FS_RemoveElement DEF TurnInv, AliveInv
    <3> QED
      BY <2>1, <2>2, <3>1 DEF TurnInv, AliveInv
  <2> QED
    BY <2>1, <2>2, <2>3, EnvKeeps
<1>4. CASE Flicker
  <2>1. UNCHANGED <<agent, kind, turn, alive, over, procs, markers, queue, row, lastStop>> /\ turn = "work"
    BY <1>4 DEF Flicker, env, files, told
  <2>2. lastStop = NoStop
    BY <2>1 DEF TurnInv, StopInv, Rests
  <2>3. AliveInv'
    BY <2>1 DEF TurnInv, AliveInv
  <2> QED
    BY <2>1, <2>2, <2>3, EnvKeeps
<1>5. CASE UNCHANGED hookVars
  <2>1. UNCHANGED <<agent, kind, turn, alive, over, procs, markers, queue, row, quiet, lastStop>>
    BY <1>5 DEF hookVars, env, files, rail, told
  <2>2. AliveInv'
    BY <2>1 DEF TurnInv, AliveInv
  <2> QED
    BY <2>1, <2>2, EnvKeeps
<1>6. \A p \in Procs : Hook(p) => TurnInv'
  BY IntakeKeeps, SendKeeps, FreeKeeps DEF Hook
<1> QED
  BY <1>1, <1>2, <1>3, <1>4, <1>5, <1>6, ConsumeKeeps, TickKeeps DEF HooksNext

\* It holds before the first hook.
LEMMA TurnStarts == HooksInit => TurnInv
<1> SUFFICES ASSUME HooksInit PROVE TurnInv
  OBVIOUS
<1>1. /\ alive = {} /\ over = {} /\ markers = {} /\ queue = <<>> /\ row.tasks.items = <<>> /\ lastStop = NoStop
      /\ \A p \in Procs : procs[p] = Free
  BY DEF HooksInit, NoTasks
<1>2. \A p \in Procs : procs[p].phase = "free"
  BY <1>1 DEF Free
<1>3. InFlight = {} /\ Foreground = {}
  BY <1>2 DEF InFlight, Foreground
<1>4. LoneInv /\ NewInv /\ BatchInv /\ OnceInv /\ MarkedInv /\ StopInv
  BY <1>1, <1>2, <1>3 DEF LoneInv, Mine, NewInv, BatchInv, OnceInv, MarkedInv, StopInv
<1>5. AliveInv
  BY <1>1, FS_EmptySet DEF AliveInv
<1>6. QueueInv /\ RowInv
  BY <1>1 DEF QueueInv, RowInv, Lists, Distinct
<1> QED
  BY <1>4, <1>5, <1>6 DEF TurnInv

\* Once its hooks have returned and the rail has consumed what they sent, a pane at
\* rest shows its last turn end: the question, the outcome, or the work it waits on,
\* and exactly the work the stop listed (claude::derive, background::turn_end,
\* BgTasks::apply), whatever subagents' hooks, forks, ends of shells, repeats and
\* timeouts happened in between.
THEOREM TurnEndIsShownCorrect == HooksSpec => []TurnEndIsShown
<1>1. TurnInv => TurnEndIsShown
  <2> SUFFICES ASSUME TurnInv, Settled, lastStop.event \in {"stop", "error"}, Cardinality(lastStop.live) <= MaxTasks
               PROVE  Shows
    BY DEF TurnEndIsShown, Shows
  <2>1. lastStop # NoStop
    BY PayloadIsOne DEF NoStop
  <2>2. \A p \in Procs : ~Bears(p)
    BY DEF Settled, Bears
  <2> QED
    BY <2>1, <2>2 DEF TurnInv, StopInv
<1> QED
  BY <1>1, TurnStarts, TurnSteps, HooksStart, HookTypes, CallersAndMarkers, PTL DEF HooksSpec

-----------------------------------------------------------------------------
(* A task list under any payloads                                          *)

Listed == {items \in Seq(Stored) : Distinct(items)}

\* The same task later: what was over is over, as it ended.
Final(old, new) ==
  /\ new.id = old.id
  /\ old.state \in Over => /\ new.state \in Over /\ new.end = old.end
                           /\ old.state \in Outcomes => new.state = old.state

Finals(items, more) ==
  \A k \in DOMAIN items, l \in DOMAIN more : items[k].id = more[l].id => Final(items[k], more[l])

\* The list later, each task in its place, those not told of as they were.
Grows(items, more, ids) ==
  \A k \in DOMAIN items : /\ k \in DOMAIN more /\ Final(items[k], more[k])
                          /\ items[k].id \notin ids => more[k] = items[k]

\* What is left of a list.
Part(rest, items) == \A k \in DOMAIN rest : \E l \in DOMAIN items : rest[k] = items[l]

AllRun(items) == \A k \in DOMAIN items : items[k].state = "running"

LEMMA ListedIs ==
  ASSUME NEW items \in Listed
  PROVE  /\ items \in Seq(Stored) /\ Len(items) \in Nat /\ DOMAIN items = 1 .. Len(items)
         /\ \A k \in 1 .. Len(items) : items[k] \in Stored
         /\ Distinct(items)
<1>1. items \in Seq(Stored)
  BY DEF Listed
<1> QED
  BY <1>1, LenProperties DEF Listed

\* A report revives no task and changes no outcome.
LEMMA ReviseIsFinal ==
  ASSUME NEW task \in Stored, NEW u \in Updates, u.id = task.id, NEW t \in Int
  PROVE  Revise(task, u, t) \in Stored /\ Final(task, Revise(task, u, t))
<1> DEFINE new == Revise(task, u, t)
<1>1. task = [id |-> task.id, state |-> task.state, holds |-> task.holds, start |-> task.start, end |-> task.end]
  BY DEF Stored
<1>2. /\ task.id \in TaskIds /\ task.state \in TaskStates /\ task.holds \in BOOLEAN
      /\ task.start \in Int /\ task.end \in Int
      /\ u.id \in TaskIds /\ u.state \in TaskStates /\ u.holds \in BOOLEAN
  BY DEF Stored, Updates
<1>3. CASE task.state \in Outcomes \/ (task.state \in Over /\ u.state \notin Outcomes)
  <2>1. new = task
    BY <1>3 DEF Revise
  <2> QED
    BY <2>1 DEF Final
<1>4. CASE ~(task.state \in Outcomes \/ (task.state \in Over /\ u.state \notin Outcomes))
  <2> DEFINE holds == IF u.state = "running" THEN task.holds /\ u.holds ELSE task.holds
             end == IF task.state \in Over THEN task.end ELSE t
  <2>1. new = [task EXCEPT !.holds = IF u.state = "running" THEN @ /\ u.holds ELSE @,
                           !.end = IF task.state \in Over THEN @ ELSE t,
                           !.state = u.state]
    BY <1>4 DEF Revise
  <2>2. holds \in BOOLEAN /\ end \in Int /\ (task.state \in Over => end = task.end)
    BY <1>2
  <2>3. new = [task EXCEPT !.holds = holds, !.end = end, !.state = u.state]
    BY <2>1, <1>1
  <2> HIDE DEF holds, end, new
  <2>4. new \in Stored /\ new.id = task.id /\ new.state = u.state /\ new.end = end
    BY <2>2, <2>3, <1>2 DEF Stored
  <2>5. Final(task, new)
    BY <1>4, <2>2, <2>4 DEF Final, Over
  <2> QED
    BY <2>4, <2>5 DEF new
<1> QED
  BY <1>3, <1>4

LEMMA UpsertGrows ==
  ASSUME NEW items \in Listed, NEW u \in Updates, NEW t \in Int
  PROVE  Upsert(items, u, t) \in Listed /\ Grows(items, Upsert(items, u, t), {u.id})
<1> DEFINE n == Len(items)
           more == Upsert(items, u, t)
<1>1. /\ items \in Seq(Stored) /\ n \in Nat /\ DOMAIN items = 1 .. n /\ \A k \in 1 .. n : items[k] \in Stored
      /\ Distinct(items)
  BY ListedIs
<1>2. CASE IndexOf(items, u.id) # {}
  <2>1. more = [k \in 1 .. n |-> IF items[k].id = u.id THEN Revise(items[k], u, t) ELSE items[k]]
    BY <1>1, <1>2 DEF Upsert
  <2> HIDE DEF n, more
  <2>2. ASSUME NEW k \in 1 .. n
        PROVE  /\ more[k] \in Stored /\ Final(items[k], more[k])
               /\ items[k].id \notin {u.id} => more[k] = items[k]
    <3>1. CASE items[k].id = u.id
      BY <2>1, <3>1, <1>1, ReviseIsFinal
    <3>2. CASE items[k].id # u.id
      BY <2>1, <3>2, <1>1 DEF Final
    <3> QED
      BY <3>1, <3>2
  <2>3. DOMAIN more = 1 .. n
    BY <2>1
  <2>4. more \in Seq(Stored)
    <3>1. more \in [1 .. n -> Stored]
      <4>1. more = [k \in 1 .. n |-> more[k]]
        BY <2>1
      <4> QED
        BY <2>2, <4>1
    <3> QED
      BY <3>1, <1>1, SeqDef
  <2>5. Distinct(more)
    BY <1>1, <2>2, <2>3 DEF Distinct, Final
  <2>6. Grows(items, more, {u.id})
    BY <1>1, <2>2, <2>3 DEF Grows
  <2> QED
    BY <2>4, <2>5, <2>6 DEF Listed, more
<1>3. CASE IndexOf(items, u.id) = {}
  <2> DEFINE new == [id |-> u.id, state |-> u.state, holds |-> u.holds, start |-> t, end |-> t]
  <2>1. more = Append(items, new)
    BY <1>3 DEF Upsert
  <2>2. new \in Stored /\ new.id = u.id
    BY DEF Stored, Updates
  <2>3. \A k \in 1 .. n : items[k].id # u.id
    BY <1>1, <1>3 DEF IndexOf
  <2> HIDE DEF new, more
  <2>4. /\ more \in Seq(Stored) /\ DOMAIN more = 1 .. n + 1
        /\ more[n + 1] = new /\ \A k \in 1 .. n : more[k] = items[k]
    <3>1. more \in Seq(Stored) /\ Len(more) = n + 1 /\ more[n + 1] = new /\ \A k \in 1 .. n : more[k] = items[k]
      BY <1>1, <2>1, <2>2
    <3> HIDE DEF n
    <3> QED
      BY <3>1, LenProperties
  <2> HIDE DEF n
  <2>5. \A k \in 1 .. n + 1 : k \in 1 .. n \/ k = n + 1
    BY <1>1
  <2>6. Distinct(more)
    <3> SUFFICES ASSUME NEW k \in 1 .. n + 1, NEW l \in 1 .. n + 1, more[k].id = more[l].id PROVE k = l
      BY <2>4 DEF Distinct
    <3> QED
      BY <1>1, <2>2, <2>3, <2>4, <2>5 DEF Distinct
  <2>7. Grows(items, more, {u.id})
    <3>1. \A k \in 1 .. n : k \in 1 .. n + 1
      BY <1>1
    <3> QED
      BY <1>1, <2>4, <3>1 DEF Grows, Final
  <2> QED
    BY <2>4, <2>6, <2>7 DEF Listed, more
<1> QED
  BY <1>2, <1>3

LEMMA GrowsOn ==
  ASSUME NEW a, NEW b, NEW c, NEW ids, NEW id \in ids, Grows(a, b, ids), Grows(b, c, {id})
  PROVE  Grows(a, c, ids)
<1> SUFFICES ASSUME NEW k \in DOMAIN a
             PROVE  k \in DOMAIN c /\ Final(a[k], c[k]) /\ (a[k].id \notin ids => c[k] = a[k])
  BY DEF Grows
<1>1. k \in DOMAIN b /\ Final(a[k], b[k]) /\ (a[k].id \notin ids => b[k] = a[k])
  BY DEF Grows
<1>2. k \in DOMAIN c /\ Final(b[k], c[k]) /\ (b[k].id \notin {id} => c[k] = b[k])
  BY <1>1 DEF Grows
<1>3. Final(a[k], c[k])
  BY <1>1, <1>2 DEF Final, Over
<1>4. a[k].id \notin ids => c[k] = a[k]
  BY <1>1, <1>2
<1> QED
  BY <1>2, <1>3, <1>4

\* So does a batch of reports.
LEMMA UpsertedGrows ==
  ASSUME NEW items \in Listed, NEW updates \in Seq(Updates), NEW t \in Int
  PROVE  /\ Upserted(items, updates, t) \in Listed
         /\ Grows(items, Upserted(items, updates, t), IdsOf(updates))
<1> DEFINE n == Len(updates)
           X == Listed
           F == [m \in 1 .. n |-> [s \in X |-> Upsert(s, updates[m], t)]]
           after[m \in 0 .. Len(updates)] ==
             IF m = 0 THEN items ELSE Upsert(after[m - 1], updates[m], t)
<1>1. n \in Nat /\ DOMAIN updates = 1 .. n /\ \A m \in 1 .. n : updates[m] \in Updates /\ m - 1 \in 0 .. n
  <2>1. n \in Nat /\ DOMAIN updates = 1 .. n /\ \A m \in 1 .. n : updates[m] \in Updates
    BY LenProperties
  <2> QED
    BY <2>1
<1>2. \A m \in 1 .. n, s \in X : /\ F[m][s] = Upsert(s, updates[m], t) /\ F[m][s] \in X
                                 /\ Grows(s, F[m][s], {updates[m].id})
  <2> SUFFICES ASSUME NEW m \in 1 .. n, NEW s \in X
               PROVE  /\ F[m][s] = Upsert(s, updates[m], t) /\ F[m][s] \in X
                      /\ Grows(s, F[m][s], {updates[m].id})
    OBVIOUS
  <2>1. F[m][s] = Upsert(s, updates[m], t)
    OBVIOUS
  <2>2. updates[m] \in Updates
    BY <1>1
  <2> QED
    BY <2>1, <2>2, UpsertGrows
<1>3. F \in [1 .. n -> [X -> X]]
  <2>1. F = [m \in 1 .. n |-> F[m]] /\ \A m \in 1 .. n : F[m] = [s \in X |-> F[m][s]]
    OBVIOUS
  <2> HIDE DEF F, X, n
  <2> QED
    BY <1>2, <2>1
<1>4. Upserted(items, updates, t) = after[n]
  BY DEF Upserted
<1>5. PICK g \in [0 .. n -> X] : Unfolds(g, n, items, F)
  <2> HIDE DEF F, n, X
  <2>1. items \in X
    BY DEF X
  <2> QED
    BY <1>1, <1>3, <2>1, Iterates
<1>6. after = [m \in 0 .. n |-> IF m = 0 THEN items ELSE Upsert(after[m - 1], updates[m], t)]
  <2>1. \A m \in 0 .. n : m # 0 => m \in 1 .. n
    BY <1>1
  <2>2. g = [m \in 0 .. n |-> IF m = 0 THEN items ELSE Upsert(g[m - 1], updates[m], t)]
    <3> HIDE DEF F, n, X
    <3>1. \A m \in 1 .. n : g[m] = Upsert(g[m - 1], updates[m], t)
      BY <1>1, <1>2, <1>5 DEF Unfolds
    <3> QED
      BY <1>5, <2>1, <3>1 DEF Unfolds
  <2> QED
    BY <2>2
<1> HIDE DEF after
<1>7. after[0] = items /\ \A m \in 1 .. n : after[m] = Upsert(after[m - 1], updates[m], t)
  <2>1. 0 \in 0 .. n /\ \A m \in 1 .. n : m \in 0 .. n /\ m # 0
    BY <1>1
  <2> HIDE DEF n
  <2> QED
    BY <1>6, <2>1
<1> DEFINE Good == {m \in 0 .. n : after[m] \in X /\ Grows(items, after[m], IdsOf(updates))}
<1>8. 0 .. n \subseteq Good
  <2>1. 0 \in Good
    <3>1. 0 \in 0 .. n /\ Grows(items, items, IdsOf(updates))
      BY <1>1 DEF Grows, Final
    <3> QED
      BY <1>7, <3>1
  <2>2. ASSUME NEW m \in 0 .. n - 1, m \in Good PROVE m + 1 \in Good
    <3>1. m + 1 \in 1 .. n /\ m + 1 \in 0 .. n /\ (m + 1) - 1 = m
      BY <1>1
    <3>2. after[m] \in X /\ Grows(items, after[m], IdsOf(updates))
      BY <2>2
    <3> HIDE DEF X, F, n
    <3>3. after[m + 1] = F[m + 1][after[m]]
      <4>1. after[m + 1] = Upsert(after[m], updates[m + 1], t)
        BY <1>7, <3>1
      <4> QED
        BY <1>2, <3>1, <3>2, <4>1
    <3>4. after[m + 1] \in X /\ Grows(after[m], after[m + 1], {updates[m + 1].id})
      BY <1>2, <3>1, <3>2, <3>3
    <3>5. updates[m + 1].id \in IdsOf(updates)
      BY <1>1, <3>1 DEF IdsOf
    <3>6. Grows(items, after[m + 1], IdsOf(updates))
      BY <3>2, <3>4, <3>5, GrowsOn
    <3> QED
      BY <3>1, <3>4, <3>6
  <2>3. \A m \in 0 .. n - 1 : m \in Good => m + 1 \in Good
    BY <2>2
  <2> HIDE DEF Good, n
  <2> QED
    BY <1>1, <2>1, <2>3, Reach
<1>9. after[n] \in X /\ Grows(items, after[n], IdsOf(updates))
  <2>1. n \in 0 .. n
    BY <1>1
  <2> HIDE DEF n
  <2> QED
    BY <1>8, <2>1
<1> HIDE DEF F
<1> QED
  BY <1>4, <1>9

\* What a snapshot omits ends; what was over stays as it ended.
LEMMA EndOmittedGrows ==
  ASSUME NEW items \in Listed, NEW batch, NEW t \in Int
  PROVE  /\ EndOmitted(items, batch, t) \in Listed
         /\ Grows(items, EndOmitted(items, batch, t), IdsOf(items))
<1> DEFINE n == Len(items)
           ended == EndOmitted(items, batch, t)
<1>1. /\ items \in Seq(Stored) /\ n \in Nat /\ DOMAIN items = 1 .. n /\ \A k \in 1 .. n : items[k] \in Stored
      /\ Distinct(items)
  BY ListedIs
<1>2. ended = [k \in 1 .. n |-> IF items[k].state = "running" /\ items[k].id \notin RunningIds(batch.items)
                                THEN [items[k] EXCEPT !.state = "ended", !.end = t] ELSE items[k]]
  BY <1>1 DEF EndOmitted
<1> HIDE DEF ended, n
<1>3. ASSUME NEW k \in 1 .. n
      PROVE  ended[k] \in Stored /\ Final(items[k], ended[k])
  <2>1. items[k] \in Stored /\ "ended" \in TaskStates
    BY <1>1 DEF TaskStates, Over
  <2>2. CASE items[k].state = "running" /\ items[k].id \notin RunningIds(batch.items)
    <3>1. ended[k] = [items[k] EXCEPT !.state = "ended", !.end = t]
      BY <1>2, <2>2
    <3>2. ended[k] \in Stored /\ ended[k].id = items[k].id
      BY <3>1, <2>1 DEF Stored
    <3>3. items[k].state \notin Over
      BY <2>2 DEF Over, Outcomes
    <3> QED
      BY <3>2, <3>3 DEF Final
  <2>3. CASE ~(items[k].state = "running" /\ items[k].id \notin RunningIds(batch.items))
    <3>1. ended[k] = items[k]
      BY <1>2, <2>3
    <3> QED
      BY <2>1, <3>1 DEF Final
  <2> QED
    BY <2>2, <2>3
<1>4. DOMAIN ended = 1 .. n /\ ended = [k \in 1 .. n |-> ended[k]]
  BY <1>2
<1>5. ended \in Seq(Stored)
  <2>1. ended \in [1 .. n -> Stored]
    BY <1>3, <1>4
  <2> QED
    BY <2>1, <1>1, SeqDef
<1>6. Distinct(ended)
  BY <1>1, <1>3, <1>4 DEF Distinct, Final
<1>7. Grows(items, ended, IdsOf(items))
  BY <1>1, <1>3, <1>4 DEF Grows, IdsOf
<1> QED
  BY <1>5, <1>6, <1>7 DEF Listed, ended

\* A running task is evicted from among running ones only.
LEMMA EvictTakes ==
  ASSUME NEW items \in Listed
  PROVE  LET rest == Evict(items)
         IN  /\ rest \in Listed /\ Part(rest, items)
             /\ RunningIds(items) \subseteq RunningIds(rest) \/ AllRun(rest)
<1> DEFINE n == Len(items)
           v == Victim(items)
           rest == Evict(items)
<1>1. /\ items \in Seq(Stored) /\ n \in Nat /\ DOMAIN items = 1 .. n /\ \A k \in 1 .. n : items[k] \in Stored
      /\ Distinct(items)
  BY ListedIs
<1>2. CASE ~(n > MaxTasks)
  <2>1. rest = items
    BY <1>2 DEF Evict
  <2> QED
    BY <2>1 DEF Part
<1>3. CASE n > MaxTasks
  <2> DEFINE From(k) == Past(v, k)
  <2>1. /\ v \in 1 .. n
        /\ items[v].state \in Over \/ \A k \in 1 .. n : items[k].state \notin Over
        /\ rest \in Seq(Stored) /\ DOMAIN rest = 1 .. n - 1
        /\ \A k \in 1 .. n - 1 : rest[k] = items[From(k)]
        /\ \A k \in 1 .. n - 1 : From(k) \in 1 .. n /\ From(k) # v
        /\ \A k, l \in 1 .. n - 1 : From(k) = From(l) => k = l
        /\ \A l \in 1 .. n : l # v => \E k \in 1 .. n - 1 : From(k) = l
    BY <1>1, <1>3, EvictIs
  <2> HIDE DEF n, v, rest, From
  <2>2. rest \in Listed /\ Part(rest, items)
    <3>1. Distinct(rest)
      BY <1>1, <2>1 DEF Distinct
    <3> QED
      BY <1>1, <2>1, <3>1 DEF Listed, Part
  <2>3. CASE items[v].state \in Over
    <3>1. items[v].state # "running"
      BY <2>3 DEF Over, Outcomes
    <3>2. ASSUME NEW k \in 1 .. n, items[k].state = "running" PROVE items[k].id \in RunningIds(rest)
      <4>1. PICK l \in 1 .. n - 1 : From(l) = k
        BY <2>1, <3>1, <3>2
      <4>2. rest[l] = items[k] /\ l \in DOMAIN rest
        BY <2>1, <4>1
      <4> QED
        BY <3>2, <4>2 DEF RunningIds
    <3>3. RunningIds(items) \subseteq RunningIds(rest)
      BY <1>1, <3>2 DEF RunningIds
    <3> QED
      BY <2>2, <3>3 DEF rest
  <2>4. CASE \A k \in 1 .. n : items[k].state \notin Over
    <3>1. \A k \in 1 .. n : items[k].state = "running"
      BY <1>1, <2>4 DEF Stored, TaskStates
    <3>2. AllRun(rest)
      BY <2>1, <3>1 DEF AllRun
    <3> QED
      BY <2>2, <3>2 DEF rest
  <2> QED
    BY <2>1, <2>3, <2>4
<1> QED
  BY <1>2, <1>3

LEMMA CapTakes ==
  ASSUME NEW items \in Listed, NEW n \in Nat
  PROVE  LET rest == Cap(items, n)
         IN  /\ rest \in Listed /\ Part(rest, items)
             /\ RunningIds(items) \subseteq RunningIds(rest) \/ AllRun(rest)
<1> DEFINE X == Listed
           F == [m \in 1 .. n |-> [s \in X |-> Evict(s)]]
           capped[m \in 0 .. n] == IF m = 0 THEN items ELSE Evict(capped[m - 1])
<1>1. \A m \in 1 .. n : m - 1 \in 0 .. n /\ m \in 0 .. n /\ m # 0
  OBVIOUS
<1>2. \A m \in 1 .. n, s \in X : F[m][s] = Evict(s) /\ Evict(s) \in X
  BY EvictTakes
<1>3. F \in [1 .. n -> [X -> X]]
  <2>1. F = [m \in 1 .. n |-> F[m]] /\ \A m \in 1 .. n : F[m] = [s \in X |-> F[m][s]]
    OBVIOUS
  <2> HIDE DEF F, X
  <2> QED
    BY <2>1, <1>2
<1>4. Cap(items, n) = capped[n]
  BY DEF Cap
<1>5. PICK g \in [0 .. n -> X] : Unfolds(g, n, items, F)
  <2> HIDE DEF F
  <2> QED
    BY <1>3, Iterates
<1>6. capped = [m \in 0 .. n |-> IF m = 0 THEN items ELSE Evict(capped[m - 1])]
  <2>1. \A m \in 0 .. n : m # 0 => m \in 1 .. n
    OBVIOUS
  <2>2. g = [m \in 0 .. n |-> IF m = 0 THEN items ELSE Evict(g[m - 1])]
    <3> HIDE DEF F, X
    <3>1. \A m \in 1 .. n : g[m] = Evict(g[m - 1])
      BY <1>1, <1>2, <1>5 DEF Unfolds
    <3> QED
      BY <1>5, <2>1, <3>1 DEF Unfolds
  <2> QED
    BY <2>2
<1> HIDE DEF capped, F
<1>7. capped[0] = items /\ \A m \in 1 .. n : capped[m] = Evict(capped[m - 1])
  <2>1. 0 \in 0 .. n
    OBVIOUS
  <2> QED
    BY <1>1, <1>6, <2>1
<1> DEFINE Takes(s) == /\ s \in Listed /\ Part(s, items)
                       /\ RunningIds(items) \subseteq RunningIds(s) \/ AllRun(s)
           Good == {m \in 0 .. n : Takes(capped[m])}
<1>8. 0 .. n \subseteq Good
  <2>1. 0 \in Good
    <3>1. 0 \in 0 .. n /\ Part(items, items)
      BY DEF Part
    <3> QED
      BY <1>7, <3>1
  <2>2. ASSUME NEW m \in 0 .. n - 1, m \in Good PROVE m + 1 \in Good
    <3>1. m + 1 \in 1 .. n /\ (m + 1) - 1 = m
      OBVIOUS
    <3> DEFINE s == capped[m]
    <3>2. Takes(s) /\ capped[m + 1] = Evict(s)
      BY <1>7, <2>2, <3>1
    <3> HIDE DEF s
    <3>3. /\ Evict(s) \in Listed /\ Part(Evict(s), s)
          /\ RunningIds(s) \subseteq RunningIds(Evict(s)) \/ AllRun(Evict(s))
      BY <3>2, EvictTakes
    <3>4. Part(Evict(s), items) /\ (AllRun(s) => AllRun(Evict(s)))
      BY <3>2, <3>3 DEF Part, AllRun
    <3>5. Takes(Evict(s))
      BY <3>2, <3>3, <3>4
    <3> HIDE DEF Takes
    <3> QED
      BY <1>1, <3>1, <3>2, <3>5
  <2>3. \A m \in 0 .. n - 1 : m \in Good => m + 1 \in Good
    BY <2>2
  <2> HIDE DEF Good
  <2> QED
    BY <2>1, <2>3, Reach
<1>9. Takes(capped[n])
  <2>1. n \in 0 .. n
    OBVIOUS
  <2> QED
    BY <1>8, <2>1
<1> QED
  BY <1>4, <1>9

\* Clearing the finished takes no running one.
LEMMA UnfinishedTakes ==
  ASSUME NEW items \in Listed
  PROVE  LET rest == Unfinished(items)
         IN  rest \in Listed /\ Part(rest, items) /\ RunningIds(items) \subseteq RunningIds(rest)
<1> DEFINE n == Len(items)
           rest == Unfinished(items)
<1>1. items \in Seq(Stored) /\ DOMAIN items = 1 .. n /\ Distinct(items)
  BY ListedIs
<1>2. /\ rest \in Seq(Stored) /\ Distinct(rest)
      /\ \A k \in DOMAIN rest : \E l \in 1 .. n : rest[k] = items[l]
      /\ \A l \in 1 .. n : items[l].state \notin Over => \E k \in DOMAIN rest : rest[k] = items[l]
  BY <1>1, UnfinishedIs
<1> HIDE DEF rest, n
<1>3. ASSUME NEW l \in 1 .. n, items[l].state = "running" PROVE items[l].id \in RunningIds(rest)
  <2>1. items[l].state \notin Over
    BY <1>3 DEF Over, Outcomes
  <2>2. PICK k \in DOMAIN rest : rest[k] = items[l]
    BY <1>2, <2>1
  <2> QED
    BY <1>3, <2>2 DEF RunningIds
<1>4. RunningIds(items) \subseteq RunningIds(rest)
  BY <1>1, <1>3 DEF RunningIds
<1> QED
  BY <1>1, <1>2, <1>4 DEF Listed, Part, rest

LEMMA GrownIsFinal ==
  ASSUME NEW items \in Listed, NEW more \in Listed, NEW ids, Grows(items, more, ids)
  PROVE  Finals(items, more)
<1> SUFFICES ASSUME NEW k \in DOMAIN items, NEW l \in DOMAIN more, items[k].id = more[l].id
             PROVE  Final(items[k], more[l])
  BY DEF Finals
<1>1. k \in DOMAIN more /\ Final(items[k], more[k])
  BY DEF Grows
<1>2. more[k].id = more[l].id
  BY <1>1 DEF Final
<1>3. k = l
  BY <1>1, <1>2 DEF Listed, Distinct
<1> QED
  BY <1>1, <1>3

LEMMA PartIsFinal ==
  ASSUME NEW items, NEW more, NEW rest, Finals(items, more), Part(rest, more)
  PROVE  Finals(items, rest)
<1> SUFFICES ASSUME NEW k \in DOMAIN items, NEW l \in DOMAIN rest, items[k].id = rest[l].id
             PROVE  Final(items[k], rest[l])
  BY DEF Finals
<1>1. PICK j \in DOMAIN more : rest[l] = more[j]
  BY DEF Part
<1> QED
  BY <1>1 DEF Finals

LEMMA SelfIsFinal ==
  ASSUME NEW items \in Listed
  PROVE  Finals(items, items)
BY DEF Listed, Distinct, Finals, Final

\* What a payload leaves of a list: nothing of what was over is revived or told
\* otherwise, no wait without a task that holds, and of the running tasks what the
\* cap takes it takes from among running ones.
LEMMA ApplyLeaves ==
  ASSUME NEW was, was.items \in Listed, NEW batch, batch.items \in Seq(Updates),
         NEW prev, NEW next, NEW prompted, NEW t \in Int
  PROVE  LET new == ApplyTasks(was, batch, prev, next, prompted, t)
         IN  /\ new.items \in Listed /\ Finals(was.items, new.items)
             /\ new.waiting => next = "running" /\ RunningHolds(new.items)
             /\ next # "idle" /\ ~batch.snapshot =>
                  \/ RunningIds(was.items) \subseteq RunningIds(new.items) \cup IdsOf(batch.items)
                  \/ AllRun(new.items)
<1> DEFINE new == ApplyTasks(was, batch, prev, next, prompted, t)
<1>1. CASE next = "idle"
  <2>1. new = NoTasks
    BY <1>1 DEF ApplyTasks
  <2>2. new.items = <<>> /\ new.waiting = FALSE
    BY <2>1 DEF NoTasks
  <2>3. <<>> \in Listed /\ Finals(was.items, <<>>)
    <3>1. <<>> \in Seq(Stored) /\ DOMAIN <<>> = {}
      OBVIOUS
    <3> QED
      BY <3>1 DEF Listed, Distinct, Finals
  <2> QED
    BY <1>1, <2>2, <2>3
<1>2. CASE next # "idle"
  <2> DEFINE upserted == Upserted(was.items, batch.items, t)
             merged ==
               IF ~batch.present
                 THEN IF StartsNewWork(prev, next, prompted) THEN Unfinished(was.items) ELSE was.items
               ELSE IF batch.snapshot THEN EndOmitted(upserted, batch, t)
               ELSE upserted
             kept == Cap(merged, Len(batch.items))
  <2>1. new = [items |-> kept, waiting |-> Waits(next, batch, kept)]
    BY <1>2 DEF ApplyTasks
  <2>2. new.items = kept /\ new.waiting = Waits(next, batch, kept)
    BY <2>1
  <2>3. Len(batch.items) \in Nat
    BY LenProperties
  <2>4. upserted \in Listed /\ Grows(was.items, upserted, IdsOf(batch.items))
    BY UpsertedGrows
  <2> HIDE DEF upserted
  <2>5. Finals(was.items, upserted)
    BY <2>4, GrownIsFinal
  <2>6. RunningIds(was.items) \subseteq RunningIds(upserted) \cup IdsOf(batch.items)
    <3> SUFFICES ASSUME NEW k \in DOMAIN was.items, was.items[k].state = "running",
                        was.items[k].id \notin IdsOf(batch.items)
                 PROVE  was.items[k].id \in RunningIds(upserted)
      BY DEF RunningIds
    <3>1. k \in DOMAIN upserted /\ upserted[k] = was.items[k]
      BY <2>4 DEF Grows
    <3> QED
      BY <3>1 DEF RunningIds
  <2> DEFINE Leaves(s) ==
               /\ s \in Listed /\ Finals(was.items, s)
               /\ ~batch.snapshot => RunningIds(was.items) \subseteq RunningIds(s) \cup IdsOf(batch.items)
  <2>7. Leaves(merged)
    <3>1. CASE ~batch.present /\ StartsNewWork(prev, next, prompted)
      <4>1. merged = Unfinished(was.items)
        BY <3>1
      <4>2. /\ Unfinished(was.items) \in Listed /\ Part(Unfinished(was.items), was.items)
            /\ RunningIds(was.items) \subseteq RunningIds(Unfinished(was.items))
        BY UnfinishedTakes
      <4>3. Finals(was.items, Unfinished(was.items))
        BY <4>2, SelfIsFinal, PartIsFinal
      <4> HIDE DEF merged
      <4> QED
        BY <4>1, <4>2, <4>3
    <3>2. CASE ~batch.present /\ ~StartsNewWork(prev, next, prompted)
      <4>1. merged = was.items
        BY <3>2
      <4> HIDE DEF merged
      <4> QED
        BY <4>1, SelfIsFinal
    <3>3. CASE batch.present /\ batch.snapshot
      <4> DEFINE ended == EndOmitted(upserted, batch, t)
      <4>1. merged = ended
        BY <3>3
      <4>2. ended \in Listed /\ Grows(upserted, ended, IdsOf(upserted))
        BY <2>4, EndOmittedGrows
      <4> HIDE DEF merged, ended
      <4>3. Finals(upserted, ended)
        BY <2>4, <4>2, GrownIsFinal
      <4>4. Finals(was.items, ended)
        <5> SUFFICES ASSUME NEW k \in DOMAIN was.items, NEW l \in DOMAIN ended, was.items[k].id = ended[l].id
                     PROVE  Final(was.items[k], ended[l])
          BY DEF Finals
        <5>1. k \in DOMAIN upserted /\ Final(was.items[k], upserted[k])
          BY <2>4 DEF Grows
        <5>2. Final(upserted[k], ended[l])
          BY <4>3, <5>1 DEF Finals, Final
        <5> QED
          BY <5>1, <5>2 DEF Final, Over
      <4> QED
        BY <3>3, <4>1, <4>2, <4>4
    <3>4. CASE batch.present /\ ~batch.snapshot
      <4>1. merged = upserted
        BY <3>4
      <4> HIDE DEF merged
      <4> QED
        BY <2>4, <2>5, <2>6, <4>1
    <3> QED
      BY <3>1, <3>2, <3>3, <3>4
  <2> HIDE DEF merged
  <2>8. /\ kept \in Listed /\ Part(kept, merged)
        /\ RunningIds(merged) \subseteq RunningIds(kept) \/ AllRun(kept)
    BY <2>3, <2>7, CapTakes
  <2> HIDE DEF kept
  <2>9. Finals(was.items, kept)
    BY <2>7, <2>8, PartIsFinal
  <2>10. Waits(next, batch, kept) => next = "running" /\ RunningHolds(kept)
    BY DEF Waits
  <2> QED
    BY <2>2, <2>7, <2>8, <2>9, <2>10
<1> QED
  BY <1>1, <1>2

\* The list's module and the hooks' read the same definitions of BgTasks.
LEMMA SameTasks ==
  /\ L!NoTasks = NoTasks /\ L!NoBatch = NoBatch /\ L!Updates = Updates
  /\ L!Outcomes = Outcomes /\ L!Over = Over
  /\ \A items : L!RunningIds(items) = RunningIds(items) /\ (L!RunningHolds(items) <=> RunningHolds(items))
BY DEF L!NoTasks, NoTasks, L!NoBatch, NoBatch, L!Updates, Updates, L!TaskStates, TaskStates,
       L!Over, Over, L!Outcomes, Outcomes, L!RunningIds, RunningIds, L!RunningHolds, RunningHolds

LEMMA SameApply ==
  ASSUME NEW was, NEW batch, NEW prev, NEW next, NEW prompted, NEW t
  PROVE  L!ApplyTasks(was, batch, prev, next, prompted, t) = ApplyTasks(was, batch, prev, next, prompted, t)
BY DEF L!ApplyTasks, ApplyTasks, L!Cap, Cap, L!Evict, Evict, L!Victim, Victim, L!EvictBefore, EvictBefore,
       L!Over, Over, L!Outcomes, Outcomes, L!Upserted, Upserted, L!Upsert, Upsert, L!IndexOf, IndexOf,
       L!Revise, Revise, L!Unfinished, Unfinished, L!EndOmitted, EndOmitted, L!RunningIds, RunningIds,
       L!RunningHolds, RunningHolds, L!Waits, Waits, L!StartsNewWork, StartsNewWork, L!NoTasks, NoTasks

\* The list is one, and the agent waits on what it holds.
ListInv == tasks.items \in Listed /\ now \in Nat /\ WaitsOnHolding

\* What a step may do to the list.
ListStep ==
  /\ Finals(tasks.items, tasks'.items)
  /\ status' # "idle" /\ ~last'.snapshot =>
       \A id \in RunningIds(tasks.items) \ (IdsOf(tasks'.items) \cup last'.ids) : AllRun(tasks'.items)

LEMMA ListStarts == L!Init => ListInv
<1> SUFFICES ASSUME L!Init PROVE ListInv
  OBVIOUS
<1>1. tasks.items = <<>> /\ tasks.waiting = FALSE /\ now = 0
  BY SameTasks DEF L!Init, NoTasks
<1>2. <<>> \in Seq(Stored) /\ DOMAIN <<>> = {}
  OBVIOUS
<1> QED
  BY <1>1, <1>2 DEF ListInv, Listed, Distinct, WaitsOnHolding, L!WaitsOnHolding

LEMMA ListRests ==
  ASSUME ListInv, UNCHANGED tasks
  PROVE  ListStep
<1>1. tasks' = tasks /\ tasks.items \in Listed
  BY DEF ListInv
<1>2. Finals(tasks.items, tasks'.items)
  BY <1>1, SelfIsFinal
<1>3. RunningIds(tasks.items) \subseteq IdsOf(tasks'.items)
  BY <1>1 DEF RunningIds, IdsOf
<1> QED
  BY <1>2, <1>3 DEF ListStep

LEMMA ListSteps ==
  ASSUME ListInv, L!Next
  PROVE  ListInv' /\ ListStep
<1>1. CASE L!Clock
  <2>1. tasks' = tasks /\ status' = status /\ now' = now + 1
    BY <1>1 DEF L!Clock
  <2>2. ListInv'
    BY <2>1 DEF ListInv, WaitsOnHolding, L!WaitsOnHolding
  <2> QED
    BY <2>1, <2>2, ListRests
<1>2. CASE \E next \in PayloadStatuses, batch \in L!Batches, prompted \in BOOLEAN :
             (prompted => next = "running") /\ L!Apply(next, batch, prompted)
  <2>1. PICK next \in PayloadStatuses, batch \in L!Batches, prompted \in BOOLEAN : L!Apply(next, batch, prompted)
    BY <1>2
  <2> DEFINE new == ApplyTasks(tasks, batch, status, next, prompted, now)
  <2>2. tasks' = new /\ status' = next /\ last' = L!Mention(batch) /\ now' = now
    BY <2>1, SameApply DEF L!Apply
  <2>3. batch.items \in Seq(Updates)
    <3>1. CASE batch = NoBatch
      <4>1. batch.items = <<>>
        BY <3>1 DEF NoBatch
      <4> QED
        BY <4>1
    <3>2. CASE batch # NoBatch
      <4>0. PICK n \in 0 .. MaxBatch : \E s \in [1 .. n -> {u \in L!Updates : u.state \in WireStates}] :
              batch = L!Batch(s, FALSE) \/ batch = L!Batch(s, TRUE)
        BY <3>2, SameTasks DEF L!Batches
      <4>1. PICK s \in [1 .. n -> {u \in L!Updates : u.state \in WireStates}] :
              batch = L!Batch(s, FALSE) \/ batch = L!Batch(s, TRUE)
        BY <4>0
      <4>2. batch.items = s
        BY <4>1 DEF L!Batch
      <4>3. n \in Nat
        BY CommandLineAssumption DEF L!TaskListParams
      <4>4. s \in [1 .. n -> Updates]
        BY SameTasks
      <4> QED
        BY <4>2, <4>3, <4>4, SeqDef
    <3> QED
      BY <3>1, <3>2
  <2>4. last'.ids = IdsOf(batch.items) /\ last'.snapshot = batch.snapshot
    BY <2>2 DEF L!Mention, IdsOf
  <2>5. tasks.items \in Listed /\ now \in Int
    BY DEF ListInv
  <2>6. /\ new.items \in Listed /\ Finals(tasks.items, new.items)
        /\ new.waiting => next = "running" /\ RunningHolds(new.items)
        /\ next # "idle" /\ ~batch.snapshot =>
             \/ RunningIds(tasks.items) \subseteq RunningIds(new.items) \cup IdsOf(batch.items)
             \/ AllRun(new.items)
    BY <2>3, <2>5, ApplyLeaves
  <2> HIDE DEF new
  <2>7. ListInv'
    BY <2>2, <2>6, SameTasks DEF ListInv, WaitsOnHolding, L!WaitsOnHolding
  <2>8. RunningIds(new.items) \subseteq IdsOf(new.items)
    BY DEF RunningIds, IdsOf
  <2>9. ListStep
    BY <2>2, <2>4, <2>6, <2>8 DEF ListStep
  <2> QED
    BY <2>7, <2>9
<1> QED
  BY <1>1, <1>2 DEF L!Next

LEMMA LineSteps ==
  ASSUME ListInv, [LineNext]_<<hookVars, played, list>>
  PROVE  ListInv' /\ ListStep
<1>1. CASE L!Next
  BY <1>1, ListSteps
<1>2. CASE UNCHANGED list
  <2>1. tasks' = tasks /\ status' = status /\ now' = now
    BY <1>2 DEF list
  <2>2. ListInv'
    BY <2>1 DEF ListInv, WaitsOnHolding, L!WaitsOnHolding
  <2> QED
    BY <2>1, <2>2, ListRests
<1> QED
  BY <1>1, <1>2 DEF LineNext

\* The hooks' behaviours are those of AgentHooks also where a behaviour plays the
\* list, so that what is proved of them holds in the run.
THEOREM LineImplementsHooks == LineSpec => HooksSpec
<1>1. LineInit => HooksInit
  BY DEF LineInit
<1>2. [LineNext]_<<hookVars, played, list>> => [HooksNext]_hookVars
  BY DEF LineNext
<1> QED
  BY <1>1, <1>2, PTL DEF LineSpec, HooksSpec

\* The row of a live agent stays; under any payloads its task list revives none that
\* is over, keeps the running tasks longest and waits on none it does not hold
\* (DEDUP_TTL_SECS against RUNNING_QUIET_MAX_SECS, BgTasks::apply, upsert and cap).
THEOREM WorkIsKeptCorrect == LineSpec => WorkIsKept
<1> DEFINE Truth == \A i \in DOMAIN tasks.items, j \in DOMAIN tasks'.items :
                      LET old == tasks.items[i]
                          new == tasks'.items[j]
                      IN  old.id = new.id /\ old.state \in L!Over =>
                            /\ new.state \in L!Over /\ new.end = old.end
                            /\ old.state \in L!Outcomes => new.state = old.state
           Lasts == status' # "idle" /\ ~last'.snapshot =>
                      \A id \in L!RunningIds(tasks.items) \ (L!Ids(tasks'.items) \cup last'.ids) :
                         L!Ids(tasks'.items) = L!RunningIds(tasks'.items)
<1>1. ASSUME ListInv, [LineNext]_<<hookVars, played, list>>
      PROVE  ListInv' /\ WaitsOnHolding' /\ Truth /\ Lasts
  <2>1. ListInv' /\ ListStep
    BY <1>1, LineSteps
  <2>2. WaitsOnHolding'
    BY <2>1 DEF ListInv
  <2>3. Truth
    BY <2>1, SameTasks DEF ListStep, Finals, Final
  <2>4. AllRun(tasks'.items) => L!Ids(tasks'.items) = L!RunningIds(tasks'.items)
    BY DEF AllRun, L!Ids, L!RunningIds
  <2>5. Lasts
    BY <2>1, <2>4, SameTasks DEF ListStep, IdsOf, L!Ids
  <2> QED
    BY <2>1, <2>2, <2>3, <2>5
<1> HIDE DEF Truth, Lasts
<1>2. LineSpec => [][WaitsOnHolding']_list /\ [][Truth]_list /\ [][Lasts]_list
  BY <1>1, ListStarts, PTL DEF LineSpec, LineInit
<1>3. [][Truth]_list => OutcomesAreFinal
  BY PTL DEF Truth, OutcomesAreFinal, L!OutcomesAreFinal, list, L!vars
<1>4. [][Lasts]_list => RunningIsForgottenLast
  BY DEF Lasts, RunningIsForgottenLast, L!RunningIsForgottenLast, list, L!vars
<1> QED
  BY <1>2, <1>3, <1>4, LineImplementsHooks, LiveRowIsKeptCorrect, PTL DEF WorkIsKept
=============================================================================
