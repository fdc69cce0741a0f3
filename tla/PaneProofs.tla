------------------------------- MODULE PaneProofs ------------------------------
(***************************************************************************)
(* What each operator of CommandPane and StatusPane does to the record of  *)
(* one pane, for the stores that are built of them: its type, and what     *)
(* becomes of the card.                                                    *)
(***************************************************************************)
EXTENDS CommandPane, StatusPane, TLAPS

(* A pane of the command store keeps its type under every operation.       *)

\* The pane of a fresh store is a pane record.
LEMMA FreshPaneType == FreshPane \in PaneRecords
BY CommandPaneAssumption DEF FreshPane, PaneRecords, NoObs, NoPending,
   Observations, Pendings, Unarmed, Kinds, ExitStatuses

\* The parts of a pane record have their types.
LEMMA PaneParts ==
  ASSUME NEW c \in PaneRecords
  PROVE  /\ c.obs \in Observations
         /\ c.pending \in Pendings
         /\ c.leaving \in {Unarmed} \cup (0..DebounceTicks)
         /\ c.exited \in ExitStatuses \cup {"unseen"}
         /\ c.obs.age \in 0..DoneTtlTicks
         /\ c.pending.age \in 0..DebounceTicks
BY DEF PaneRecords, Observations, Pendings

\* Both clocks can start at zero.
LEMMA EarlyAge == 0 \in 0..DoneTtlTicks /\ 0 \in 0..DebounceTicks
BY CommandPaneAssumption

\* An age that grows by one tick stays within its cap.
LEMMA OlderType ==
  ASSUME NEW cap \in Nat, NEW age \in 0..cap
  PROVE  Older(age, cap) \in 0..cap
BY DEF Older

\* A tick moves the ages within their caps.
LEMMA AgedType ==
  ASSUME NEW c \in PaneRecords
  PROVE  Aged(c) \in PaneRecords
<1> DEFINE o == [c.obs EXCEPT !.age = IF c.obs.status \in {"running", "done"}
                                        THEN Older(@, DoneTtlTicks) ELSE @]
           q == [c.pending EXCEPT !.age = IF c.pending.state = "absent"
                                            THEN @ ELSE Older(@, DebounceTicks)]
           l == IF c.leaving = Unarmed THEN Unarmed
                                       ELSE Older(c.leaving, DebounceTicks)
<1>1. o \in Observations
  <2>1. Older(c.obs.age, DoneTtlTicks) \in 0..DoneTtlTicks
    BY PaneParts, OlderType, CommandPaneAssumption
  <2> QED
    BY <2>1, PaneParts DEF Observations
<1>2. q \in Pendings
  <2>1. Older(c.pending.age, DebounceTicks) \in 0..DebounceTicks
    BY PaneParts, OlderType, CommandPaneAssumption
  <2> QED
    BY <2>1, PaneParts DEF Pendings
<1>3. l \in {Unarmed} \cup (0..DebounceTicks)
  BY PaneParts, OlderType, CommandPaneAssumption
<1>4. Aged(c) = [c EXCEPT !.obs = o, !.pending = q, !.leaving = l]
  BY DEF Aged, PaneRecords
<1> HIDE DEF o, q, l
<1> QED
  BY <1>1, <1>2, <1>3, <1>4 DEF PaneRecords

\* A promotion writes a well-formed Running row.
LEMMA PromoteType ==
  ASSUME NEW c \in PaneRecords
  PROVE  Promote(c) \in PaneRecords
<1> DEFINE o == [status |-> "running", msg |-> c.pending.cmd,
                 kind |-> c.pending.kind, code |-> "none",
                 age |-> IF c.obs.status = "running"
                              /\ c.obs.msg = c.pending.cmd
                           THEN c.obs.age ELSE 0]
<1>2. o \in Observations
  BY EarlyAge, PaneParts DEF Observations, Pendings, ExitStatuses
<1>3. NoPending \in Pendings
  BY CommandPaneAssumption DEF NoPending, Pendings, Kinds
<1>4. Promote(c) = [c EXCEPT !.pending = NoPending, !.obs = o]
  BY DEF Promote
<1> HIDE DEF o
<1> QED
  BY <1>2, <1>3, <1>4 DEF PaneRecords

\* A confirm only touches the status, the age and the armed entry.
LEMMA ConfirmDoneType ==
  ASSUME NEW c \in PaneRecords
  PROVE  ConfirmDone(c) \in PaneRecords
<1> DEFINE d == [c EXCEPT !.leaving = Unarmed]
           o == [d.obs EXCEPT !.status = "done", !.age = 0]
<1>1. d \in PaneRecords
  BY DEF PaneRecords
<1>2. ConfirmDone(c) = IF c.obs.status = "running" THEN [d EXCEPT !.obs = o]
                                                   ELSE d
  BY DEF ConfirmDone, PaneRecords
<1> HIDE DEF d
<1>3. o \in Observations
  BY <1>1, EarlyAge, PaneParts DEF Observations
<1> HIDE DEF o
<1> QED
  BY <1>1, <1>2, <1>3 DEF PaneRecords

\* So does the TTL recede.
LEMMA RecedeType ==
  ASSUME NEW c \in PaneRecords
  PROVE  Recede(c) \in PaneRecords
<1> DEFINE o == [c.obs EXCEPT !.status = "idle", !.age = 0]
<1>1. o \in Observations
  BY EarlyAge, PaneParts DEF Observations
<1>2. Recede(c) = [c EXCEPT !.obs = o]
  BY DEF Recede, PaneRecords
<1> HIDE DEF o
<1> QED
  BY <1>1, <1>2 DEF PaneRecords

\* on_timer maps pane records to pane records.
LEMMA OnTimerType ==
  ASSUME NEW c \in PaneRecords
  PROVE  OnTimer(c) \in PaneRecords
<1> DEFINE aged == Aged(c)
           promoted == IF Promotes(aged) THEN Promote(aged) ELSE aged
           confirmed == IF ConfirmDue(promoted) THEN ConfirmDone(promoted)
                                                ELSE promoted
<1>1. aged \in PaneRecords
  BY AgedType
<1>2. promoted \in PaneRecords
  BY <1>1, PromoteType
<1>3. confirmed \in PaneRecords
  BY <1>2, ConfirmDoneType
<1>4. OnTimer(c) = IF Expires(confirmed) THEN Recede(confirmed) ELSE confirmed
  BY DEF OnTimer
<1> QED
  BY <1>3, <1>4, RecedeType

\* on_command_changed maps pane records to pane records.
LEMMA OnCommandChangedType ==
  ASSUME NEW c \in PaneRecords, NEW argv \in Argv, NEW fgd \in BOOLEAN,
         NEW inter \in SUBSET Commands, NEW extras \in SUBSET Commands
  PROVE  OnCommandChanged(c, argv, fgd, inter, extras) \in PaneRecords
<1>1. ASSUME NEW d \in PaneRecords
      PROVE  /\ ArmTentativeDone(d) \in PaneRecords
             /\ [d EXCEPT !.pending = NoPending] \in PaneRecords
             /\ [d EXCEPT !.leaving = Unarmed] \in PaneRecords
  BY CommandPaneAssumption DEF ArmTentativeDone, PaneRecords, Unarmed,
     NoPending, Pendings, Kinds
<1>2. CASE MeansLeft(argv, fgd, inter)
  BY <1>1, <1>2 DEF OnCommandChanged
<1>3. CASE ~MeansLeft(argv, fgd, inter) /\ argv = Blank
  BY <1>3 DEF OnCommandChanged
<1>4. CASE ~MeansLeft(argv, fgd, inter) /\ argv # Blank
  <2> DEFINE d == IF argv \in inter THEN ArmTentativeDone(c)
                                    ELSE [c EXCEPT !.leaving = Unarmed]
             e == [state |-> IF argv \in inter THEN "quiet" ELSE "promotable",
                   cmd |-> argv, age |-> 0, kind |-> KindAtIntake(argv, extras)]
  <2>1. argv \in Commands
    BY <1>4 DEF MeansLeft, Argv
  <2>2. KindAtIntake(argv, extras) \in Kinds
    BY <2>1, CommandPaneAssumption DEF KindAtIntake, Kinds
  <2>3. e \in Pendings
    BY <2>1, <2>2, CommandPaneAssumption DEF Pendings
  <2>4. d \in PaneRecords
    BY <1>1
  <2>5. OnCommandChanged(c, argv, fgd, inter, extras)
          = [d EXCEPT !.exited = "unseen", !.pending = e]
    BY <1>4 DEF OnCommandChanged
  <2> QED
    BY <2>3, <2>4, <2>5 DEF PaneRecords
<1> QED
  BY <1>2, <1>3, <1>4

\* on_exit maps pane records to pane records.
LEMMA OnExitType ==
  ASSUME NEW c \in PaneRecords, NEW status \in ExitStatuses
  PROVE  OnExit(c, status) \in PaneRecords
BY CommandPaneAssumption DEF OnExit, ExitOutcome, PaneRecords, Observations,
   Pendings, NoPending, Kinds, Unarmed

\* set_interactive_extras maps pane records to pane records.
LEMMA OnInteractiveExtrasType ==
  ASSUME NEW c \in PaneRecords, NEW inter \in SUBSET Commands
  PROVE  OnInteractiveExtras(c, inter) \in PaneRecords
<1>1. Rejudged(c, inter) \in PaneRecords
  BY DEF Rejudged, PaneRecords, Pendings
<1>2. ASSUME NEW d \in PaneRecords PROVE Demote(d) \in PaneRecords
  <2> DEFINE o == [d.obs EXCEPT !.status = "idle"]
             n == IF d.obs.age < DebounceTicks THEN d.obs.age ELSE DebounceTicks
             q == IF d.pending.state # "absent" THEN d.pending
                  ELSE [state |-> "quiet", cmd |-> d.obs.msg,
                        kind |-> d.obs.kind, age |-> n]
  <2>1. o \in Observations
    BY PaneParts DEF Observations
  <2>2. n \in 0..DebounceTicks
    BY PaneParts, CommandPaneAssumption
  <2>3. q \in Pendings
    <3> HIDE DEF n
    <3> QED
      BY <2>2, PaneParts DEF Observations, Pendings
  <2>4. Demote(d) = [d EXCEPT !.obs = o, !.pending = q]
    BY DEF Demote, PaneRecords
  <2> HIDE DEF o, q
  <2> QED
    BY <2>1, <2>3, <2>4 DEF PaneRecords
<1> QED
  BY <1>1, <1>2 DEF OnInteractiveExtras

\* set_remote_extras maps pane records to pane records.
LEMMA OnRemoteExtrasType ==
  ASSUME NEW c \in PaneRecords, NEW extras \in SUBSET Commands
  PROVE  OnRemoteExtras(c, extras) \in PaneRecords
<1>1. ASSUME NEW cmd, NEW kind \in Kinds PROVE Rekind(cmd, kind, extras) \in Kinds
  BY DEF Rekind, Kinds
<1> QED
  BY <1>1 DEF OnRemoteExtras, PaneRecords, Observations, Pendings

-----------------------------------------------------------------------------
(* What becomes of the card.                                               *)

\* What a tick hands to the ledger are observations.
LEMMA TimerRecededType ==
  ASSUME NEW c \in PaneRecords
  PROVE  TimerReceded(c) \subseteq Observations
<1> DEFINE aged == Aged(c)
           promoted == IF Promotes(aged) THEN Promote(aged) ELSE aged
           confirmed == IF ConfirmDue(promoted) THEN ConfirmDone(promoted)
                                                ELSE promoted
<1>1. aged \in PaneRecords /\ confirmed \in PaneRecords
  BY AgedType, PromoteType, ConfirmDoneType
<1>2. TimerReceded(c) \subseteq {aged.obs, confirmed.obs}
  BY DEF TimerReceded
<1> HIDE DEF aged, confirmed
<1> QED
  BY <1>1, <1>2, PaneParts

\* CommandChanged never touches the observation.
LEMMA CommandChangedKeepsRow ==
  ASSUME NEW c \in PaneRecords, NEW argv, NEW fgd, NEW inter, NEW extras
  PROVE  OnCommandChanged(c, argv, fgd, inter, extras).obs = c.obs
BY DEF OnCommandChanged, ArmTentativeDone, PaneRecords

\* A config change of the interactive list leaves or idles a row.
LEMMA InteractiveExtrasKeepOrIdle ==
  ASSUME NEW c \in PaneRecords, NEW inter
  PROVE  \/ OnInteractiveExtras(c, inter).obs = c.obs
         \/ /\ OnInteractiveExtras(c, inter).obs.status = "idle"
            /\ c.obs.status = "running"
<1>1. Rejudged(c, inter) \in PaneRecords /\ Rejudged(c, inter).obs = c.obs
  BY DEF Rejudged, PaneRecords, Pendings
<1>2. ASSUME NEW d \in PaneRecords PROVE Demote(d).obs.status = "idle"
  BY DEF Demote, PaneRecords, Observations
<1> QED
  BY <1>1, <1>2 DEF OnInteractiveExtras, DemotedBy

\* One of the remote list changes only kinds.
LEMMA RemoteExtrasKeepCard ==
  ASSUME NEW c \in PaneRecords, NEW extras
  PROVE  SameCard(c.obs, OnRemoteExtras(c, extras).obs)
BY DEF OnRemoteExtras, PaneRecords, Observations, SameCard

\* A tick hands over exactly the completions it takes off the card.
LEMMA TimerHandsOff ==
  ASSUME NEW c \in PaneRecords
  PROVE  /\ IsCompletion(c.obs) /\ ~SameCard(c.obs, OnTimer(c).obs)
              => \E r \in TimerReceded(c) : SameCard(c.obs, r)
         /\ \A r \in TimerReceded(c) : IsCompletion(c.obs) /\ SameCard(c.obs, r)
<1> DEFINE aged == Aged(c)
           promoted == IF Promotes(aged) THEN Promote(aged) ELSE aged
           confirmed == IF ConfirmDue(promoted) THEN ConfirmDone(promoted)
                                                ELSE promoted
<1>1. /\ aged \in PaneRecords /\ promoted \in PaneRecords
      /\ confirmed \in PaneRecords
  BY AgedType, PromoteType, ConfirmDoneType
<1>2. SameCard(c.obs, aged.obs)
  BY DEF Aged, PaneRecords, Observations, SameCard
<1>3. OnTimer(c) = IF Expires(confirmed) THEN Recede(confirmed) ELSE confirmed
  BY DEF OnTimer
<1>4. TimerReceded(c) =
        (IF Promotes(aged) /\ IsCompletion(c.obs) THEN {aged.obs} ELSE {})
          \cup (IF Expires(confirmed) THEN {confirmed.obs} ELSE {})
  BY DEF TimerReceded
<1> HIDE DEF confirmed
<1>5. /\ Promotes(aged) => promoted.obs.status = "running"
      /\ ~Promotes(aged) => promoted = aged
  <2> HIDE DEF aged
  <2> QED
    BY <1>1 DEF Promote, PaneRecords
<1> HIDE DEF aged, promoted
<1>6. /\ promoted.obs.status = "running" =>
           confirmed.obs.status = "running" \/ confirmed.obs.age = 0
      /\ promoted.obs.status # "running" => confirmed.obs = promoted.obs
  BY <1>1 DEF confirmed, ConfirmDone, PaneRecords, Observations
<1>7. Expires(confirmed) => /\ promoted.obs.status # "running"
                            /\ IsCompletion(confirmed.obs)
  BY <1>6, CommandPaneAssumption DEF Expires, IsCompletion, Completions
<1>8. /\ IsCompletion(c.obs) => c.obs.status # "running"
      /\ IsCompletion(aged.obs) <=> IsCompletion(c.obs)
  BY <1>2 DEF IsCompletion, Completions, SameCard
<1>9. CASE Promotes(aged)
  <2>1. ~Expires(confirmed)
    BY <1>5, <1>7, <1>9
  <2> QED
    BY <1>2, <1>4, <1>9, <2>1
<1>10. CASE ~Promotes(aged)
  <2>1. CASE Expires(confirmed)
    BY <1>2, <1>4, <1>5, <1>6, <1>7, <1>8, <1>10, <2>1
  <2>2. CASE ~Expires(confirmed)
    <3>1. IsCompletion(c.obs) => SameCard(c.obs, OnTimer(c).obs)
      BY <1>2, <1>3, <1>5, <1>6, <1>8, <1>10, <2>2 DEF SameCard
    <3> QED
      BY <1>4, <1>10, <2>2, <3>1
  <2> QED
    BY <2>1, <2>2
<1> QED
  BY <1>9, <1>10

\* An exit hands over the completion it displaces, and nothing else.
LEMMA ExitHandsOff ==
  ASSUME NEW c \in PaneRecords, NEW status \in ExitStatuses
  PROVE  /\ IsCompletion(c.obs) /\ ~SameCard(c.obs, OnExit(c, status).obs)
              => c.obs \in ExitReceded(c, status)
         /\ \A r \in ExitReceded(c, status) : IsCompletion(c.obs) /\ r = c.obs
<1>1. ~ExitApplies(c, status) => OnExit(c, status).obs = c.obs
  BY DEF OnExit, PaneRecords
<1> QED
  BY <1>1 DEF ExitReceded, SameCard

-----------------------------------------------------------------------------
(* One pane of the status store.                                           *)

\* A status record, but for the type of its task list.
Shaped(s) ==
  s \in [row : [status : PushedStatuses \cup {"absent"}, msg : Messages, kind : AgentKinds,
                age : 0..GraceTicks, stamp : 0..StampCap, ack : BOOLEAN, tasks : {s.row.tasks}],
         suspect : {Unsuspected} \cup (0..GraceTicks)]

\* The parts of a status record have their types.
LEMMA ShapedParts ==
  ASSUME NEW s, Shaped(s)
  PROVE  /\ s.row.status \in PushedStatuses \cup {"absent"}
         /\ s.row.msg \in Messages /\ s.row.kind \in AgentKinds
         /\ s.suspect \in {Unsuspected} \cup (0..GraceTicks)
         /\ GraceTicks \in Nat \ {0}
BY StatusPaneAssumption DEF Shaped

\* A pane nothing was pushed to.
LEMMA FreshShaped == Shaped(FreshStatus) /\ ~Tracked(FreshStatus)
BY StatusPaneAssumption
   DEF Shaped, FreshStatus, Tracked, NoRow, PushedStatuses, AgentKinds, StampCap, Unsuspected

\* A cancelled grace clock leaves the row.
LEMMA CancelFacts ==
  ASSUME NEW s, Shaped(s)
  PROVE  /\ Shaped(CancelSuspect(s)) /\ CancelSuspect(s).row = s.row
         /\ CancelSuspect(s).suspect = Unsuspected
<1>1. CancelSuspect(s).row = s.row /\ CancelSuspect(s).suspect = Unsuspected
  BY DEF CancelSuspect, Shaped
<1> QED
  BY <1>1 DEF CancelSuspect, Shaped

\* An idled row is still one.
LEMMA IdleFacts ==
  ASSUME NEW s, Shaped(s)
  PROVE  /\ Shaped(ForceIdle(s)) /\ ForceIdle(s).row.status = "idle"
         /\ ForceIdle(s).row.stamp = 0 /\ ForceIdle(s).suspect = s.suspect
<1> DEFINE r == [NoRow EXCEPT !.status = "idle", !.kind = s.row.kind]
<1>1. ForceIdle(s).row = r /\ ForceIdle(s).suspect = s.suspect
  BY DEF ForceIdle, Shaped
<1>2. r \in [status : PushedStatuses \cup {"absent"}, msg : Messages, kind : AgentKinds,
             age : 0..GraceTicks, stamp : 0..StampCap, ack : BOOLEAN, tasks : {r.tasks}]
  <2> DEFINE Rows0 == [status : PushedStatuses \cup {"absent"}, msg : Messages, kind : AgentKinds,
                       age : 0..GraceTicks, stamp : 0..StampCap, ack : BOOLEAN, tasks : {NoTasks}]
  <2>1. 0 \in 0..GraceTicks /\ 0 \in 0..StampCap /\ "idle" \in PushedStatuses
        /\ s.row.kind \in AgentKinds /\ "agent" \in AgentKinds /\ NoMsg \in Messages
    BY ShapedParts, StatusPaneAssumption DEF StampCap, PushedStatuses, AgentKinds
  <2>2. NoRow \in Rows0
    BY <2>1 DEF NoRow
  <2>3. r \in Rows0
    BY <2>1, <2>2
  <2> HIDE DEF r
  <2> QED
    BY <2>3
<1>3. r.status = "idle" /\ r.stamp = 0
  BY DEF NoRow
<1> HIDE DEF r
<1>4. ForceIdle(s) = [row |-> r, suspect |-> s.suspect]
  BY <1>1 DEF ForceIdle, Shaped
<1> QED
  BY <1>2, <1>3, <1>4, ShapedParts DEF Shaped

\* A payload makes the row it says.
LEMMA ApplyFacts ==
  ASSUME NEW s, Shaped(s), NEW p \in Payloads, NEW batch, NEW now
  PROVE  /\ Shaped(ApplyPayload(s, p, batch, now))
         /\ Tracked(ApplyPayload(s, p, batch, now))
         /\ ApplyPayload(s, p, batch, now).row.status = p.status
         /\ ApplyPayload(s, p, batch, now).row.msg = p.msg
         /\ ApplyPayload(s, p, batch, now).row.kind = p.kind
         /\ ApplyPayload(s, p, batch, now).row.stamp =
              (IF Stamped(p.status) /\ Identical(s, p) THEN s.row.stamp ELSE 0)
         /\ ApplyPayload(s, p, batch, now).suspect = Unsuspected
<1> DEFINE t == ApplyPayload(s, p, batch, now)
           tasks == ApplyTasks(s.row.tasks, batch, s.row.status, p.status, p.prompted, now)
           age == IF s.row.status = p.status THEN s.row.age ELSE 0
           stamp == IF Stamped(p.status) /\ Identical(s, p) THEN s.row.stamp ELSE 0
<1>1. /\ t = [row |-> [status |-> p.status, msg |-> p.msg, kind |-> p.kind, age |-> age,
                       stamp |-> stamp, ack |-> p.ack, tasks |-> tasks],
              suspect |-> Unsuspected]
  BY DEF ApplyPayload
<1>2. age \in 0..GraceTicks /\ stamp \in 0..StampCap
  BY StatusPaneAssumption DEF Shaped, StampCap
<1>3. /\ p.status \in PushedStatuses /\ p.msg \in Messages /\ p.kind \in AgentKinds
      /\ p.ack \in BOOLEAN
  BY DEF Payloads
<1> HIDE DEF t, tasks, age, stamp
<1> QED
  BY <1>1, <1>2, <1>3 DEF Shaped, Tracked, PushedStatuses, t, stamp

\* A tick ages a row; what a card reads of it stays.
LEMMA OlderFacts ==
  ASSUME NEW s, Shaped(s)
  PROVE  /\ Shaped(RowOlder(s))
         /\ RowOlder(s).row.status = s.row.status
         /\ RowOlder(s).row.msg = s.row.msg
         /\ RowOlder(s).row.kind = s.row.kind
         /\ RowOlder(s).row.stamp =
              (IF Stamped(s.row.status) /\ s.row.stamp < StampCap THEN s.row.stamp + 1
                                                                  ELSE s.row.stamp)
         /\ RowOlder(s).suspect =
              (IF s.suspect = Unsuspected \/ s.suspect = GraceTicks THEN s.suspect
                                                                    ELSE s.suspect + 1)
<1> DEFINE t == RowOlder(s)
           age == IF ~Tracked(s) \/ s.row.age = GraceTicks THEN s.row.age ELSE s.row.age + 1
           stamp == IF Stamped(s.row.status) /\ s.row.stamp < StampCap THEN s.row.stamp + 1
                                                                       ELSE s.row.stamp
           suspect == IF s.suspect = Unsuspected \/ s.suspect = GraceTicks THEN s.suspect
                                                                           ELSE s.suspect + 1
<1> DEFINE r1 == [s.row EXCEPT !.age = age]
           r2 == [r1 EXCEPT !.stamp = stamp]
<1>1. t = [row |-> r2, suspect |-> suspect]
  <2>1. s = [row |-> s.row, suspect |-> s.suspect] /\ r1.stamp = s.row.stamp
    BY DEF Shaped
  <2>2. RowOlder(s) = [[[s EXCEPT !.row = r1] EXCEPT !.row = r2] EXCEPT !.suspect = suspect]
    BY <2>1 DEF RowOlder
  <2> HIDE DEF r1, r2, suspect
  <2> QED
    BY <2>1, <2>2
<1>2. age \in 0..GraceTicks /\ stamp \in 0..StampCap
      /\ suspect \in {Unsuspected} \cup (0..GraceTicks)
  BY StatusPaneAssumption DEF Shaped, StampCap, Unsuspected
<1> HIDE DEF age, stamp, suspect
<1>3. /\ r2.status = s.row.status /\ r2.msg = s.row.msg /\ r2.kind = s.row.kind
      /\ r2.tasks = s.row.tasks /\ r2.stamp = stamp
      /\ r2 \in [status : PushedStatuses \cup {"absent"}, msg : Messages, kind : AgentKinds,
                 age : 0..GraceTicks, stamp : 0..StampCap, ack : BOOLEAN, tasks : {s.row.tasks}]
  BY <1>2 DEF Shaped
<1> HIDE DEF r1, r2
<1>4. t.row = r2 /\ t.suspect = suspect
  BY <1>1
<1> HIDE DEF t
<1>5. Shaped(t)
  BY <1>1, <1>2, <1>3, <1>4 DEF Shaped
<1> QED
  BY <1>3, <1>4, <1>5 DEF t, stamp, suspect

\* What a card reads of a pushed row.
SameRow(s, t) ==
  t.row.status = s.row.status /\ t.row.msg = s.row.msg /\ t.row.kind = s.row.kind

\* An exit clears what does not rest, and reports just that.
LEMMA ExitClears ==
  ASSUME NEW s, Shaped(s)
  PROVE  /\ Shaped(ClearOnExit(s)) /\ (Tracked(ClearOnExit(s)) <=> Tracked(s))
         /\ ExitCleared(s) = {} => SameRow(s, ClearOnExit(s))
         /\ ExitCleared(s) \subseteq {s.row}
         /\ Completed(s.row) => ExitCleared(s) = {s.row}
<1>1. Shaped(CancelSuspect(s)) /\ CancelSuspect(s).row = s.row
  BY CancelFacts
<1>2. Shaped(ForceIdle(CancelSuspect(s))) /\ ForceIdle(CancelSuspect(s)).row.status = "idle"
  BY <1>1, IdleFacts
<1> QED
  BY <1>1, <1>2 DEF ClearOnExit, ExitCleared, Rests, Tracked, Completed, SameRow

\* So does the prompt, but for a running row.
LEMMA PromptClears ==
  ASSUME NEW s, Shaped(s)
  PROVE  /\ Shaped(ClearOnPromptReturn(s)) /\ (Tracked(ClearOnPromptReturn(s)) <=> Tracked(s))
         /\ PromptReceded(s) = {} => SameRow(s, ClearOnPromptReturn(s))
         /\ PromptReceded(s) \subseteq {s.row}
         /\ Completed(s.row) => PromptReceded(s) = {s.row}
<1>1. Shaped(ForceIdle(s)) /\ ForceIdle(s).row.status = "idle"
  BY IdleFacts
<1>2. CASE s.row.status = "running"
  <2> DEFINE t == [s EXCEPT !.suspect = IF s.suspect = Unsuspected THEN 0 ELSE s.suspect]
  <2>1. ClearOnPromptReturn(s) = t
    BY <1>2 DEF ClearOnPromptReturn
  <2>2. t.row = s.row /\ Shaped(t)
    BY StatusPaneAssumption DEF Shaped
  <2> QED
    BY <1>2, <2>1, <2>2 DEF PromptReceded, Tracked, Completed, SameRow
<1>3. CASE s.row.status # "running"
  BY <1>1, <1>3 DEF ClearOnPromptReturn, PromptReceded, Rests, Tracked, Completed, SameRow
<1> QED
  BY <1>2, <1>3

\* A tick changes a row only where it says that the clock ran out.
LEMMA ExpiryClears ==
  ASSUME NEW s, Shaped(s)
  PROVE  /\ Shaped(ExpireStaleRunning(s)) /\ (Tracked(ExpireStaleRunning(s)) <=> Tracked(s))
         /\ ~StaleCleared(s) => SameRow(s, ExpireStaleRunning(s))
         /\ StaleCleared(s) => s.row.status = "running"
<1> DEFINE t == RowOlder(s)
<1>1. Shaped(t) /\ SameRow(s, t)
  BY OlderFacts DEF SameRow
<1>2. ~(t.suspect < GraceTicks) <=> t.suspect >= GraceTicks
  BY <1>1, ShapedParts DEF Unsuspected
<1>3. ExpireStaleRunning(s) =
        IF t.suspect < GraceTicks THEN t
        ELSE IF t.row.status = "running" THEN ForceIdle(CancelSuspect(t)) ELSE CancelSuspect(t)
  BY DEF ExpireStaleRunning
<1>4. StaleCleared(s) <=> t.suspect >= GraceTicks /\ s.row.status = "running"
  BY DEF StaleCleared
<1> HIDE DEF t
<1>5. Shaped(CancelSuspect(t)) /\ CancelSuspect(t).row = t.row
  BY <1>1, CancelFacts
<1>6. Shaped(ForceIdle(CancelSuspect(t))) /\ ForceIdle(CancelSuspect(t)).row.status = "idle"
  BY <1>5, IdleFacts
<1> QED
  BY <1>1, <1>2, <1>3, <1>4, <1>5, <1>6 DEF Tracked, SameRow
==============================================================================
