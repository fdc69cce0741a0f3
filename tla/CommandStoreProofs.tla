-------------------------- MODULE CommandStoreProofs --------------------------
(***************************************************************************)
(* Proofs about the command store, for every set of panes, of commands and *)
(* of configurations, and every debounce and TTL.  First that each         *)
(* operator keeps the books of one pane (PaneInv), then the store, then    *)
(* the store as an implementation of PaneLife, the rows that the stores of *)
(* several instances and their one snapshot file have in common, and the   *)
(* completion ring those instances merge into the same file.               *)
(***************************************************************************)
EXTENDS CommandLife, MCSnapshotFile, PaneProofs, SequenceTheorems, FiniteSetTheorems

-----------------------------------------------------------------------------
(* PaneInv is kept by every operation, given what it does to `shown'.      *)

\* A pane with nothing booked keeps every promise.
LEMMA FreshPaneInv ==
  ASSUME NEW s PROVE PaneInv(FreshPane, s)
BY DEF PaneInv, FreshPane, NoObs, NoPending, Unarmed

\* A tick, against a foreground that ages with it.
LEMMA OnTimerInv ==
  ASSUME NEW c \in PaneRecords, NEW s \in Foregrounds, PaneInv(c, s)
  PROVE  PaneInv(OnTimer(c),
                 IF s.cmd = NoCmd THEN s
                 ELSE [s EXCEPT !.age = Older(@, DebounceTicks)])
<1> DEFINE t == IF s.cmd = NoCmd THEN s
                ELSE [s EXCEPT !.age = Older(@, DebounceTicks)]
           aged == Aged(c)
           promoted == IF Promotes(aged) THEN Promote(aged) ELSE aged
           confirmed == IF ConfirmDue(promoted) THEN ConfirmDone(promoted)
                                                ELSE promoted
<1>1. aged \in PaneRecords /\ promoted \in PaneRecords
                           /\ confirmed \in PaneRecords
  BY AgedType, PromoteType, ConfirmDoneType
<1>2. PaneInv(aged, t)
  <2>1. /\ aged.obs.status = c.obs.status /\ aged.obs.msg = c.obs.msg
        /\ aged.pending.state = c.pending.state
        /\ aged.pending.cmd = c.pending.cmd
        /\ aged.pending.state # "absent" =>
             aged.pending.age = Older(c.pending.age, DebounceTicks)
        /\ aged.leaving = Unarmed <=> c.leaving = Unarmed
        /\ aged.exited = c.exited
    BY PaneParts, CommandPaneAssumption
    DEF Aged, Older, Unarmed, PaneRecords, Observations, Pendings
  <2>2. t.cmd = s.cmd /\ (s.cmd # NoCmd => t.age = Older(s.age, DebounceTicks))
    BY DEF Foregrounds
  <2>3. s.age \in 0..DebounceTicks /\ c.pending.age \in 0..DebounceTicks
    BY PaneParts DEF Foregrounds
  <2>4. c.pending.age <= s.age =>
          Older(c.pending.age, DebounceTicks) <= Older(s.age, DebounceTicks)
    BY <2>3, CommandPaneAssumption DEF Older
  <2>5. s.age = DebounceTicks => Older(s.age, DebounceTicks) = DebounceTicks
    BY CommandPaneAssumption DEF Older
  <2> HIDE DEF aged, t
  <2> QED
    BY <2>1, <2>2, <2>4, <2>5, CommandPaneAssumption DEF PaneInv
<1>3. PaneInv(promoted, t)
  <2>1. CASE Promotes(aged)
    <3>1. t.age = DebounceTicks /\ t.cmd = aged.pending.cmd
                                /\ t.cmd \in Commands
      <4>1. t.age \in 0..DebounceTicks
        BY OlderType, CommandPaneAssumption DEF Foregrounds
      <4> HIDE DEF aged, t
      <4> QED
        BY <1>1, <1>2, <2>1, <4>1, PaneParts, CommandPaneAssumption
        DEF PaneInv, Promotes
    <3>2. /\ promoted.obs.status = "running"
          /\ promoted.obs.msg = aged.pending.cmd
          /\ promoted.pending = NoPending
          /\ promoted.leaving = aged.leaving
          /\ promoted.exited = "unseen"
      <4> HIDE DEF aged
      <4> QED
        BY <1>1, <1>2, <2>1 DEF Promote, Promotes, PaneRecords, PaneInv
    <3> HIDE DEF promoted, aged, t
    <3> QED
      BY <3>1, <3>2 DEF PaneInv, NoPending
  <2>2. CASE ~Promotes(aged)
    BY <1>2, <2>2
  <2> QED
    BY <2>1, <2>2
<1>4. PaneInv(confirmed, t)
  <2> HIDE DEF promoted, t
  <2>1. CASE ConfirmDue(promoted)
    <3>1. /\ confirmed.leaving = Unarmed
          /\ confirmed.pending = promoted.pending
          /\ confirmed.obs.status # "running"
          /\ confirmed.exited = promoted.exited
      BY <1>1, <2>1 DEF ConfirmDone, PaneRecords, Observations
    <3> QED
      BY <1>3, <3>1 DEF PaneInv
  <2>2. CASE ~ConfirmDue(promoted)
    BY <1>3, <2>2
  <2> QED
    BY <2>1, <2>2
<1>5. OnTimer(c) = IF Expires(confirmed) THEN Recede(confirmed) ELSE confirmed
  BY DEF OnTimer
<1> HIDE DEF confirmed, t
<1>6. Expires(confirmed) => PaneInv(Recede(confirmed), t)
  <2>1. /\ Recede(confirmed).leaving = confirmed.leaving
        /\ Recede(confirmed).pending = confirmed.pending
        /\ Recede(confirmed).obs.status = "idle"
        /\ Recede(confirmed).exited = confirmed.exited
    BY <1>1 DEF Recede, PaneRecords, Observations
  <2> QED
    BY <1>4, <2>1 DEF PaneInv, Expires
<1>7. PaneInv(OnTimer(c), t)
  BY <1>4, <1>5, <1>6
<1> QED
  BY <1>7 DEF t

\* A CommandChanged report, against the foreground it shows.
LEMMA OnCommandChangedInv ==
  ASSUME NEW c \in PaneRecords, NEW s \in Foregrounds, PaneInv(c, s),
         NEW argv \in Argv, NEW fgd \in BOOLEAN,
         NEW inter \in SUBSET Commands, NEW extras \in SUBSET Commands,
         NEW t \in Foregrounds,
         MeansLeft(argv, fgd, inter) => t = NothingShown,
         ~MeansLeft(argv, fgd, inter) /\ argv = Blank => t = s,
         ~MeansLeft(argv, fgd, inter) /\ argv # Blank => t.cmd = argv
  PROVE  PaneInv(OnCommandChanged(c, argv, fgd, inter, extras), t)
<1>1. CASE MeansLeft(argv, fgd, inter)
  <2> DEFINE d == [c EXCEPT !.pending = NoPending]
             e == ArmTentativeDone(d)
  <2>1. /\ d.pending = NoPending /\ d.obs = c.obs /\ d.leaving = c.leaving
        /\ d.exited = c.exited
        /\ d \in PaneRecords
    BY CommandPaneAssumption DEF PaneRecords, NoPending, Pendings, Kinds
  <2> HIDE DEF d
  <2>2. /\ e.pending = NoPending /\ e.obs = d.obs /\ e.exited = d.exited
        /\ e.leaving # Unarmed => e.obs.status = "running"
        /\ e.obs.status = "running" => e.leaving # Unarmed
    BY <2>1 DEF ArmTentativeDone, PaneRecords, Unarmed, PaneInv
  <2>3. e = OnCommandChanged(c, argv, fgd, inter, extras)
    BY <1>1 DEF OnCommandChanged, d
  <2> HIDE DEF e
  <2> QED
    BY <2>1, <2>2, <2>3 DEF PaneInv, NoPending
<1>2. CASE ~MeansLeft(argv, fgd, inter) /\ argv = Blank
  BY <1>2 DEF OnCommandChanged
<1>3. CASE ~MeansLeft(argv, fgd, inter) /\ argv # Blank
  <2> DEFINE d == IF argv \in inter THEN ArmTentativeDone(c)
                                    ELSE [c EXCEPT !.leaving = Unarmed]
             q == [state |-> IF argv \in inter THEN "quiet" ELSE "promotable",
                   cmd |-> argv, age |-> 0, kind |-> KindAtIntake(argv, extras)]
             e == [d EXCEPT !.exited = "unseen", !.pending = q]
  <2>1. argv \in Commands
    BY <1>3 DEF MeansLeft, Argv
  <2>2. /\ d \in PaneRecords
        /\ d.obs = c.obs
        /\ d.leaving # Unarmed => d.obs.status = "running"
    BY CommandPaneAssumption DEF ArmTentativeDone, PaneRecords, Unarmed, PaneInv
  <2>3. q.state # "absent" /\ q.cmd = argv /\ q.age = 0
    OBVIOUS
  <2> HIDE DEF d, q
  <2>4. /\ e.pending = q /\ e.obs = d.obs /\ e.leaving = d.leaving
        /\ e.exited = "unseen"
    BY <2>2 DEF PaneRecords
  <2>5. e = OnCommandChanged(c, argv, fgd, inter, extras)
    BY <1>3 DEF OnCommandChanged, d, q
  <2>6. t.age \in Nat
    BY CommandPaneAssumption DEF Foregrounds
  <2> HIDE DEF e
  <2> QED
    BY <1>3, <2>1, <2>2, <2>3, <2>4, <2>5, <2>6 DEF PaneInv
<1> QED
  BY <1>1, <1>2, <1>3

\* An exit empties the foreground and leaves a row that does not run.
LEMMA OnExitInv ==
  ASSUME NEW c \in PaneRecords, NEW s, PaneInv(c, s),
         NEW status \in ExitStatuses
  PROVE  PaneInv(OnExit(c, status), NothingShown)
<1>1. CASE ExitApplies(c, status)
  <2>1. /\ OnExit(c, status).pending = NoPending
        /\ OnExit(c, status).leaving = Unarmed
        /\ OnExit(c, status).obs.status = ExitOutcome(status)
    BY <1>1 DEF OnExit
  <2> QED
    BY <2>1 DEF PaneInv, NoPending, ExitOutcome
<1>2. CASE ~ExitApplies(c, status)
  <2>1. c.pending.state = "absent" /\ c.obs.status # "running"
    BY <1>2, CommandPaneAssumption DEF ExitApplies, ReplayOverIdle, ReplayOverSame, ExitOutcome,
       PaneInv, ExitStatuses
  <2>2. /\ OnExit(c, status).pending = c.pending
        /\ OnExit(c, status).leaving = c.leaving
        /\ OnExit(c, status).obs = c.obs
    BY <1>2 DEF OnExit, PaneRecords
  <2> QED
    BY <2>1, <2>2 DEF PaneInv
<1> QED
  BY <1>1, <1>2

\* A config change: a demoted row becomes the pending of the foreground.
LEMMA OnInteractiveExtrasInv ==
  ASSUME NEW c \in PaneRecords, NEW s \in Foregrounds, PaneInv(c, s),
         NEW inter \in SUBSET Commands
  PROVE  PaneInv(OnInteractiveExtras(c, inter), s)
<1> DEFINE d == Rejudged(c, inter)
<1>1. /\ d \in PaneRecords
      /\ d.obs = c.obs /\ d.leaving = c.leaving /\ d.exited = c.exited
      /\ d.pending.cmd = c.pending.cmd /\ d.pending.age = c.pending.age
      /\ d.pending.state = "absent" <=> c.pending.state = "absent"
  BY DEF Rejudged, PaneRecords, Pendings
<1> HIDE DEF d
<1>2. PaneInv(d, s)
  BY <1>1 DEF PaneInv
<1>3. CASE DemotedBy(d, inter)
  <2> DEFINE n == IF d.obs.age < DebounceTicks THEN d.obs.age ELSE DebounceTicks
             q == IF d.pending.state # "absent" THEN d.pending
                  ELSE [state |-> "quiet", cmd |-> d.obs.msg,
                        kind |-> d.obs.kind, age |-> n]
             e == Demote(d)
  <2>1. n <= DebounceTicks
    BY <1>1, PaneParts, CommandPaneAssumption
  <2>2. /\ e.obs.status = "idle" /\ e.leaving = Unarmed
        /\ e.exited = d.exited /\ e.pending = q
    BY <1>1, <1>3 DEF Demote, DemotedBy, PaneRecords, Observations
  <2>3. d.obs.msg \in Commands /\ d.exited = "unseen"
    BY <1>2, <1>3 DEF DemotedBy, PaneInv
  <2>4. d.pending.state = "absent" => d.obs.msg = s.cmd /\ n <= s.age
    <3> HIDE DEF n
    <3> QED
      BY <1>2, <1>3, <2>1 DEF PaneInv, DemotedBy
  <2>5. q.state # "absent" /\ q.cmd = s.cmd /\ q.cmd \in Commands
                           /\ q.age <= s.age
    <3> HIDE DEF n
    <3> QED
      BY <1>2, <2>3, <2>4 DEF PaneInv
  <2> HIDE DEF q, e
  <2>6. PaneInv(e, s)
    BY <2>2, <2>3, <2>5 DEF PaneInv
  <2> QED
    BY <1>3, <2>6 DEF OnInteractiveExtras, d, e
<1>4. CASE ~DemotedBy(d, inter)
  BY <1>2, <1>4 DEF OnInteractiveExtras, d
<1> QED
  BY <1>3, <1>4

\* Kinds play no part in the promises.
LEMMA OnRemoteExtrasInv ==
  ASSUME NEW c \in PaneRecords, NEW s, PaneInv(c, s),
         NEW extras \in SUBSET Commands
  PROVE  PaneInv(OnRemoteExtras(c, extras), s)
<1> DEFINE d == OnRemoteExtras(c, extras)
<1>1. /\ d.obs.status = c.obs.status /\ d.obs.msg = c.obs.msg
      /\ d.leaving = c.leaving /\ d.exited = c.exited
      /\ d.pending.state = c.pending.state /\ d.pending.cmd = c.pending.cmd
      /\ d.pending.age = c.pending.age
  BY DEF OnRemoteExtras, PaneRecords, Observations, Pendings
<1> QED
  BY <1>1 DEF PaneInv

-----------------------------------------------------------------------------
(* The store.                                                              *)

\* Every call keeps the store's type.
LEMMA TypeStep == TypeOK /\ [Next]_vars => TypeOK'
<1> SUFFICES ASSUME TypeOK, [Next]_vars PROVE TypeOK'
  OBVIOUS
<1>1. CASE Timer
  <2>1. panes' \in [Panes -> PaneRecords]
    BY <1>1, OnTimerType DEF Timer, TypeOK
  <2>2. shown' \in [Panes -> Foregrounds]
    <3>1. \A s \in Foregrounds :
            [s EXCEPT !.age = Older(@, DebounceTicks)] \in Foregrounds
      BY OlderType, CommandPaneAssumption DEF Foregrounds
    <3> QED
      BY <1>1, <3>1 DEF Timer, TypeOK
  <2>3. receded' \in [Panes -> SUBSET Observations]
    BY <1>1, TimerRecededType DEF Timer, TypeOK
  <2> QED
    BY <1>1, <2>1, <2>2, <2>3 DEF Timer, TypeOK
<1>2. ASSUME NEW p \in Panes, NEW argv \in Argv, NEW fgd \in BOOLEAN,
             CommandChanged(p, argv, fgd)
      PROVE  TypeOK'
  <2>1. panes' \in [Panes -> PaneRecords]
    BY <1>2, OnCommandChangedType DEF CommandChanged, TypeOK
  <2>2. Shows(p, argv, fgd) \in Foregrounds
    BY EarlyAge DEF Shows, TypeOK, Foregrounds, NothingShown, MeansLeft, Argv
  <2> QED
    BY <1>2, <2>1, <2>2 DEF CommandChanged, TypeOK, Quiet, config
<1>3. ASSUME NEW p \in Panes, NEW status \in ExitStatuses,
             PaneExited(p, status)
      PROVE  TypeOK'
  <2>1. panes' \in [Panes -> PaneRecords]
    BY <1>3, OnExitType DEF PaneExited, TypeOK
  <2>2. receded' \in [Panes -> SUBSET Observations]
    <3>1. ExitReceded(panes[p], status) \subseteq Observations
      BY PaneParts DEF ExitReceded, TypeOK
    <3> QED
      BY <1>3, <3>1 DEF PaneExited
  <2>3. NothingShown \in Foregrounds
    BY EarlyAge DEF NothingShown, Foregrounds
  <2> QED
    BY <1>3, <2>1, <2>2, <2>3 DEF PaneExited, TypeOK, config
<1>4. ASSUME NEW live \in SUBSET Panes, Prune(live)
      PROVE  TypeOK'
  <2>1. panes' \in [Panes -> PaneRecords]
    BY <1>4, FreshPaneType DEF Prune, TypeOK
  <2>2. receded' \in [Panes -> SUBSET Observations]
    BY <1>4, PaneParts DEF Prune, TypeOK
  <2>3. NothingShown \in Foregrounds
    BY EarlyAge DEF NothingShown, Foregrounds
  <2> QED
    BY <1>4, <2>1, <2>2, <2>3 DEF Prune, TypeOK, config
<1>5. ASSUME NEW extras \in InteractiveExtras, SetInteractiveExtras(extras)
      PROVE  TypeOK'
  <2>1. interactive' \in SUBSET Commands
    BY <1>5, CommandPaneAssumption, CommandStoreAssumption
    DEF SetInteractiveExtras
  <2>2. panes' \in [Panes -> PaneRecords]
    BY <1>5, <2>1, OnInteractiveExtrasType DEF SetInteractiveExtras, TypeOK
  <2> QED
    BY <1>5, <2>1, <2>2 DEF SetInteractiveExtras, TypeOK
<1>6. ASSUME NEW extras \in RemoteExtras, SetRemoteExtras(extras)
      PROVE  TypeOK'
  <2>1. remote' \in SUBSET Commands
    BY <1>6, CommandStoreAssumption DEF SetRemoteExtras
  <2>2. panes' \in [Panes -> PaneRecords]
    BY <1>6, <2>1, OnRemoteExtrasType DEF SetRemoteExtras, TypeOK
  <2> QED
    BY <1>6, <2>1, <2>2 DEF SetRemoteExtras, TypeOK
<1>7. CASE UNCHANGED vars
  BY <1>7 DEF vars, TypeOK
<1> QED
  BY <1>1, <1>2, <1>3, <1>4, <1>5, <1>6, <1>7 DEF Next, Report, Configure

\* The store keeps its type.
THEOREM TypeCorrect == Spec => []TypeOK
<1>1. Init => TypeOK
  <2>1. NothingShown \in Foregrounds
    BY EarlyAge DEF NothingShown, Foregrounds
  <2>2. DefaultInteractive \in SUBSET Commands
    BY CommandPaneAssumption
  <2> QED
    BY <2>1, <2>2, FreshPaneType DEF Init, TypeOK
<1> QED
  BY <1>1, TypeStep, PTL DEF Spec

\* Every step keeps every pane's promises to its foreground.
LEMMA BooksStep ==
  TypeOK /\ BooksMatchForeground /\ [Next]_vars => BooksMatchForeground'
<1> SUFFICES ASSUME TypeOK, BooksMatchForeground, [Next]_vars,
                    NEW q \in Panes
             PROVE  PaneInv(panes[q], shown[q])'
  BY DEF BooksMatchForeground
<1>0. /\ panes[q] \in PaneRecords /\ shown[q] \in Foregrounds
      /\ PaneInv(panes[q], shown[q])
      /\ interactive \in SUBSET Commands /\ remote \in SUBSET Commands
  BY DEF TypeOK, BooksMatchForeground
<1>1. CASE Timer
  BY <1>0, <1>1, OnTimerInv DEF Timer
<1>2. ASSUME NEW p \in Panes, NEW argv \in Argv, NEW fgd \in BOOLEAN,
             CommandChanged(p, argv, fgd)
      PROVE  PaneInv(panes[q], shown[q])'
  <2>1. CASE q = p
    <3> DEFINE t == Shows(p, argv, fgd)
    <3>1. t \in Foregrounds
      BY EarlyAge DEF Shows, TypeOK, Foregrounds, NothingShown, MeansLeft, Argv
    <3>2. /\ MeansLeft(argv, fgd, interactive) => t = NothingShown
          /\ ~MeansLeft(argv, fgd, interactive) /\ argv = Blank => t = shown[q]
          /\ ~MeansLeft(argv, fgd, interactive) /\ argv # Blank => t.cmd = argv
      BY <2>1 DEF Shows
    <3>3. /\ panes'[q] =
               OnCommandChanged(panes[q], argv, fgd, interactive, remote)
          /\ shown'[q] = t
      BY <1>2, <2>1 DEF CommandChanged, TypeOK
    <3> HIDE DEF t
    <3> QED
      BY <1>0, <3>1, <3>2, <3>3, OnCommandChangedInv
  <2>2. CASE q # p
    BY <1>0, <1>2, <2>2 DEF CommandChanged, TypeOK
  <2> QED
    BY <2>1, <2>2
<1>3. ASSUME NEW p \in Panes, NEW status \in ExitStatuses,
             PaneExited(p, status)
      PROVE  PaneInv(panes[q], shown[q])'
  <2>1. CASE q = p
    BY <1>0, <1>3, <2>1, OnExitInv DEF PaneExited, TypeOK
  <2>2. CASE q # p
    BY <1>0, <1>3, <2>2 DEF PaneExited, TypeOK
  <2> QED
    BY <2>1, <2>2
<1>4. ASSUME NEW live \in SUBSET Panes, Prune(live)
      PROVE  PaneInv(panes[q], shown[q])'
  BY <1>0, <1>4, FreshPaneInv DEF Prune
<1>5. ASSUME NEW extras \in InteractiveExtras, SetInteractiveExtras(extras)
      PROVE  PaneInv(panes[q], shown[q])'
  <2>1. interactive' \in SUBSET Commands
    BY <1>5, CommandPaneAssumption, CommandStoreAssumption
    DEF SetInteractiveExtras
  <2> QED
    BY <1>0, <1>5, <2>1, OnInteractiveExtrasInv DEF SetInteractiveExtras
<1>6. ASSUME NEW extras \in RemoteExtras, SetRemoteExtras(extras)
      PROVE  PaneInv(panes[q], shown[q])'
  <2>1. remote' \in SUBSET Commands
    BY <1>6, CommandStoreAssumption DEF SetRemoteExtras
  <2> QED
    BY <1>0, <1>6, <2>1, OnRemoteExtrasInv DEF SetRemoteExtras
<1>7. CASE UNCHANGED vars
  BY <1>0, <1>7 DEF vars
<1> QED
  BY <1>1, <1>2, <1>3, <1>4, <1>5, <1>6, <1>7 DEF Next, Report, Configure

\* The bookkeeping of every pane matches its foreground, always.
THEOREM BooksCorrect == Spec => []BooksMatchForeground
<1>1. Init => BooksMatchForeground
  BY FreshPaneInv DEF Init, BooksMatchForeground
<1> QED
  BY <1>1, BooksStep, TypeCorrect, PTL DEF Spec

\* No debounce ever promotes a command that left or exited.
THEOREM PendingCorrect == Spec => []PendingIsForeground
<1>1. BooksMatchForeground => PendingIsForeground
  BY DEF BooksMatchForeground, PaneInv, PendingIsForeground
<1> QED
  BY <1>1, BooksCorrect, PTL

\* No stuck spinner: a Running row at the prompt has its confirm armed.
THEOREM LeftRunningCorrect == Spec => []LeftRunningIsArmed
<1>1. BooksMatchForeground => LeftRunningIsArmed
  BY CommandPaneAssumption
  DEF BooksMatchForeground, PaneInv, LeftRunningIsArmed
<1> QED
  BY <1>1, BooksCorrect, PTL

\* A confirm can only ever fire on a Running row.
THEOREM ArmedRowsCorrect == Spec => []ArmedRowsRun
<1>1. BooksMatchForeground => ArmedRowsRun
  BY DEF BooksMatchForeground, PaneInv, ArmedRowsRun
<1> QED
  BY <1>1, BooksCorrect, PTL

-----------------------------------------------------------------------------
(* Steps: what a call may do to a row.                                     *)

\* A tick makes a row Running, or changes what runs, only by a promotion.
LEMMA TimerTurnsRunning ==
  ASSUME NEW c \in PaneRecords,
         OnTimer(c).obs.status = "running",
         c.obs.status # "running" \/ c.obs.msg # OnTimer(c).obs.msg
  PROVE  Promotes(Aged(c)) /\ OnTimer(c).obs.msg = c.pending.cmd
<1> DEFINE aged == Aged(c)
           promoted == IF Promotes(aged) THEN Promote(aged) ELSE aged
           confirmed == IF ConfirmDue(promoted) THEN ConfirmDone(promoted)
                                                ELSE promoted
<1>1. /\ aged \in PaneRecords /\ promoted \in PaneRecords
      /\ confirmed \in PaneRecords
  BY AgedType, PromoteType, ConfirmDoneType
<1>2. /\ aged.obs.status = c.obs.status /\ aged.obs.msg = c.obs.msg
      /\ aged.pending.cmd = c.pending.cmd
  BY DEF Aged, PaneRecords, Observations, Pendings
<1>3. OnTimer(c) = IF Expires(confirmed) THEN Recede(confirmed) ELSE confirmed
  BY DEF OnTimer
<1> HIDE DEF confirmed
<1>4. OnTimer(c) = confirmed
  BY <1>1, <1>3 DEF Recede, PaneRecords, Observations
<1>5. confirmed.obs = promoted.obs
  <2> HIDE DEF promoted
  <2> QED
    BY <1>1, <1>4 DEF confirmed, ConfirmDone, PaneRecords, Observations
<1> HIDE DEF aged
<1>6. Promotes(aged)
  BY <1>2, <1>4, <1>5
<1>7. promoted.obs.msg = aged.pending.cmd
  BY <1>1, <1>6 DEF Promote, PaneRecords
<1> HIDE DEF promoted
<1> QED
  BY <1>2, <1>4, <1>5, <1>6, <1>7 DEF aged

\* A command is shown Running only after a full debounce window in the
\* foreground, whatever the configuration does meanwhile.
THEOREM DebounceCorrect == Spec => RunningSurvivedDebounce
<1> DEFINE Survived ==
      \A p \in Panes : TurnsRunning(p) => /\ panes'[p].obs.msg = shown[p].cmd
                                          /\ shown'[p].age >= DebounceTicks
<1>1. TypeOK /\ BooksMatchForeground /\ [Next]_vars => [Survived]_vars
  <2> SUFFICES ASSUME TypeOK, BooksMatchForeground, Next,
                      NEW p \in Panes, TurnsRunning(p)
               PROVE  /\ panes'[p].obs.msg = shown[p].cmd
                      /\ shown'[p].age >= DebounceTicks
    OBVIOUS
  <2>0. /\ panes[p] \in PaneRecords /\ shown[p] \in Foregrounds
        /\ PaneInv(panes[p], shown[p])
        /\ interactive \in SUBSET Commands /\ remote \in SUBSET Commands
    BY DEF TypeOK, BooksMatchForeground
  <2>1. CASE Timer
    <3> DEFINE t == IF shown[p].cmd = NoCmd THEN shown[p]
                    ELSE [shown[p] EXCEPT !.age = Older(@, DebounceTicks)]
    <3>1. panes'[p] = OnTimer(panes[p]) /\ shown'[p] = t
      BY <2>1 DEF Timer
    <3>2. /\ Promotes(Aged(panes[p]))
          /\ panes'[p].obs.msg = panes[p].pending.cmd
      BY <2>0, <3>1, TimerTurnsRunning DEF TurnsRunning
    <3>3. /\ panes[p].pending.state = "promotable"
          /\ Older(panes[p].pending.age, DebounceTicks) >= DebounceTicks
      BY <2>0, <3>2 DEF Promotes, Aged, PaneRecords, Pendings
    <3>4. /\ panes[p].pending.cmd = shown[p].cmd
          /\ panes[p].pending.cmd \in Commands
          /\ panes[p].pending.age <= shown[p].age
      BY <2>0, <3>3 DEF PaneInv
    <3>5. t.age = Older(shown[p].age, DebounceTicks)
      BY <2>0, <3>4, CommandPaneAssumption DEF Foregrounds
    <3>6. /\ panes[p].pending.age \in 0..DebounceTicks
          /\ shown[p].age \in 0..DebounceTicks
      BY <2>0, PaneParts DEF Foregrounds
    <3> HIDE DEF t
    <3>7. t.age >= DebounceTicks
      BY <3>3, <3>4, <3>5, <3>6, CommandPaneAssumption DEF Older
    <3> QED
      BY <3>1, <3>2, <3>4, <3>7
  <2>2. ASSUME NEW q \in Panes, NEW argv \in Argv, NEW fgd \in BOOLEAN,
               CommandChanged(q, argv, fgd)
        PROVE  FALSE
    <3>1. \/ panes'[p] = panes[p]
          \/ panes'[p] = OnCommandChanged(panes[p], argv, fgd, interactive,
                                          remote)
      BY <2>2 DEF CommandChanged, TypeOK
    <3>2. panes'[p].obs = panes[p].obs
      BY <2>0, <3>1, CommandChangedKeepsRow
    <3> QED
      BY <3>2 DEF TurnsRunning
  <2>3. ASSUME NEW q \in Panes, NEW status \in ExitStatuses,
               PaneExited(q, status)
        PROVE  FALSE
    <3>1. panes'[p] = panes[p] \/ panes'[p] = OnExit(panes[p], status)
      BY <2>3 DEF PaneExited, TypeOK
    <3>2. OnExit(panes[p], status).obs.status = "running" =>
            OnExit(panes[p], status).obs = panes[p].obs
      BY <2>0 DEF OnExit, ExitOutcome, PaneRecords
    <3> QED
      BY <3>1, <3>2 DEF TurnsRunning
  <2>4. ASSUME NEW live \in SUBSET Panes, Prune(live)
        PROVE  FALSE
    BY <2>4 DEF Prune, TurnsRunning, FreshPane, NoObs
  <2>5. ASSUME NEW extras \in InteractiveExtras, SetInteractiveExtras(extras)
        PROVE  FALSE
    <3>1. panes'[p] = OnInteractiveExtras(panes[p], interactive')
      BY <2>5 DEF SetInteractiveExtras
    <3> QED
      BY <2>0, <3>1, InteractiveExtrasKeepOrIdle DEF TurnsRunning
  <2>6. ASSUME NEW extras \in RemoteExtras, SetRemoteExtras(extras)
        PROVE  FALSE
    <3>1. panes'[p] = OnRemoteExtras(panes[p], remote')
      BY <2>6 DEF SetRemoteExtras
    <3> QED
      BY <2>0, <3>1, RemoteExtrasKeepCard DEF TurnsRunning, SameCard
  <2> QED
    BY <2>1, <2>2, <2>3, <2>4, <2>5, <2>6 DEF Next, Report, Configure
<1> QED
  BY <1>1, TypeCorrect, BooksCorrect, PTL DEF Spec, RunningSurvivedDebounce

\* Every call hands over what it takes off a card, and nothing else.
LEMMA HandOffStep == TypeOK /\ Next => \A p \in Panes : HandsOver(p)
<1> SUFFICES ASSUME TypeOK, Next, NEW p \in Panes PROVE HandsOver(p)
  OBVIOUS
<1> USE DEF HandsOver
<1>0. /\ panes[p] \in PaneRecords
      /\ interactive \in SUBSET Commands /\ remote \in SUBSET Commands
  BY DEF TypeOK
<1>1. CASE Timer
  <2>1. panes'[p] = OnTimer(panes[p]) /\ receded'[p] = TimerReceded(panes[p])
    BY <1>1 DEF Timer
  <2> QED
    BY <1>0, <2>1, TimerHandsOff
<1>2. ASSUME NEW q \in Panes, NEW argv \in Argv, NEW fgd \in BOOLEAN,
             CommandChanged(q, argv, fgd)
      PROVE  HandsOver(p)
  <2>1. \/ panes'[p] = panes[p]
        \/ panes'[p] = OnCommandChanged(panes[p], argv, fgd, interactive,
                                        remote)
    BY <1>2 DEF CommandChanged, TypeOK
  <2>2. panes'[p].obs = panes[p].obs
    BY <1>0, <2>1, CommandChangedKeepsRow
  <2>3. receded'[p] = {}
    BY <1>2 DEF CommandChanged, Quiet
  <2> QED
    BY <2>2, <2>3 DEF SameCard
<1>3. ASSUME NEW q \in Panes, NEW status \in ExitStatuses,
             PaneExited(q, status)
      PROVE  HandsOver(p)
  <2>1. CASE p = q
    <3>1. /\ panes'[p] = OnExit(panes[p], status)
          /\ receded'[p] = ExitReceded(panes[p], status)
      BY <1>3, <2>1 DEF PaneExited, TypeOK
    <3> QED
      BY <1>0, <3>1, ExitHandsOff DEF SameCard
  <2>2. CASE p # q
    BY <1>3, <2>2 DEF PaneExited, TypeOK, SameCard
  <2> QED
    BY <2>1, <2>2
<1>4. ASSUME NEW live \in SUBSET Panes, Prune(live)
      PROVE  HandsOver(p)
  BY <1>4 DEF Prune, SameCard
<1>5. ASSUME NEW extras \in InteractiveExtras, SetInteractiveExtras(extras)
      PROVE  HandsOver(p)
  <2>1. /\ panes'[p] = OnInteractiveExtras(panes[p], interactive')
        /\ receded'[p] = {}
    BY <1>5 DEF SetInteractiveExtras
  <2> QED
    BY <1>0, <2>1, InteractiveExtrasKeepOrIdle
    DEF SameCard, IsCompletion, Completions
<1>6. ASSUME NEW extras \in RemoteExtras, SetRemoteExtras(extras)
      PROVE  HandsOver(p)
  <2>1. /\ panes'[p] = OnRemoteExtras(panes[p], remote')
        /\ receded'[p] = {}
    BY <1>6 DEF SetRemoteExtras
  <2> QED
    BY <1>0, <2>1, RemoteExtrasKeepCard DEF SameCard
<1> QED
  BY <1>1, <1>2, <1>3, <1>4, <1>5, <1>6 DEF Next, Report, Configure

\* No completion vanishes: the call that takes one off a card returns it, so
\* RadarState can ledger it; and nothing else is ever returned.
THEOREM HandOffCorrect == Spec => CompletionsAreHandedOff
<1>1. TypeOK /\ [Next]_vars => [\A p \in Panes : HandsOver(p)]_vars
  BY HandOffStep
<1> QED
  BY <1>1, TypeCorrect, PTL DEF Spec, CompletionsAreHandedOff

-----------------------------------------------------------------------------
(* The store implements PaneLife, also across the restarts of its          *)
(* instance.  First how each operation moves one pane's card, then that    *)
(* every call is a PaneLife step; the store's books come along as far as   *)
(* the first reload.                                                       *)

\* How one call may move a pane's observation, if it moves its card at all.
Moved(o, n) ==
  \/ SameCard(o, n)
  \/ n.status = "running" /\ n.code = "none"
  \/ IsCompletion(n)
  \/ /\ o.status \in {"running", "done"}
     /\ n.status = "idle" /\ n.msg = o.msg /\ n.code = o.code
  \/ n.status = "absent"

\* A receding card changes in its status alone.
LEMMA RecedeMoves ==
  ASSUME NEW c \in PaneRecords
  PROVE  /\ Recede(c).obs.status = "idle"
         /\ Recede(c).obs.msg = c.obs.msg
         /\ Recede(c).obs.code = c.obs.code
<1> DEFINE o == [c.obs EXCEPT !.status = "idle", !.age = 0]
<1>1. Recede(c).obs = o
  BY DEF Recede, PaneRecords
<1>2. c.obs \in Observations
  BY PaneParts
<1> QED
  BY <1>1, <1>2 DEF Observations

\* A tick starts a run, confirms one, lets a success rest, or moves no card.
LEMMA TimerMoves ==
  ASSUME NEW c \in PaneRecords
  PROVE  Moved(c.obs, OnTimer(c).obs)
<1> DEFINE aged == Aged(c)
           promoted == IF Promotes(aged) THEN Promote(aged) ELSE aged
           confirmed == IF ConfirmDue(promoted) THEN ConfirmDone(promoted)
                                                ELSE promoted
<1>1. /\ aged \in PaneRecords /\ promoted \in PaneRecords
      /\ confirmed \in PaneRecords
  BY AgedType, PromoteType, ConfirmDoneType
<1>2. SameCard(c.obs, aged.obs)
  BY DEF Aged, PaneRecords, Observations, SameCard
<1>3. OnTimer(c) = IF Expires(confirmed) THEN Recede(confirmed) ELSE confirmed
  BY DEF OnTimer
<1> HIDE DEF confirmed
<1>4. \/ promoted.obs.status = "running" /\ promoted.obs.code = "none"
      \/ promoted = aged
  <2> HIDE DEF aged
  <2> QED
    BY <1>1 DEF Promote, PaneRecords
<1> HIDE DEF aged, promoted
<1>5. \/ confirmed.obs.status = "done" /\ confirmed.obs.age = 0
      \/ confirmed.obs = promoted.obs
  BY <1>1 DEF confirmed, ConfirmDone, PaneRecords, Observations
<1>6. CASE Expires(confirmed)
  <2>1. /\ confirmed.obs.status = "done" /\ confirmed.obs.age # 0
        /\ confirmed.obs = aged.obs
    BY <1>4, <1>5, <1>6, CommandPaneAssumption DEF Expires
  <2>2. /\ OnTimer(c).obs.status = "idle"
        /\ OnTimer(c).obs.msg = confirmed.obs.msg
        /\ OnTimer(c).obs.code = confirmed.obs.code
    BY <1>1, <1>3, <1>6, RecedeMoves
  <2> QED
    BY <1>2, <2>1, <2>2 DEF Moved, SameCard
<1>7. CASE ~Expires(confirmed)
  BY <1>2, <1>3, <1>4, <1>5, <1>7
  DEF Moved, SameCard, IsCompletion, Completions
<1> QED
  BY <1>6, <1>7

\* An exit shows an outcome or nothing new.
LEMMA ExitMoves ==
  ASSUME NEW c \in PaneRecords, NEW status \in ExitStatuses
  PROVE  Moved(c.obs, OnExit(c, status).obs)
BY DEF OnExit, ExitOutcome, PaneRecords, Moved, SameCard, IsCompletion,
   Completions

\* A change of the interactive list lets a run rest or moves no card.
LEMMA InteractiveExtrasMove ==
  ASSUME NEW c \in PaneRecords, NEW inter
  PROVE  Moved(c.obs, OnInteractiveExtras(c, inter).obs)
<1>1. Rejudged(c, inter) \in PaneRecords /\ Rejudged(c, inter).obs = c.obs
  BY DEF Rejudged, PaneRecords, Pendings
<1>2. ASSUME NEW d \in PaneRecords, d.obs.status = "running"
      PROVE  Moved(d.obs, Demote(d).obs)
  BY <1>2 DEF Demote, PaneRecords, Observations, Moved
<1> QED
  BY <1>1, <1>2 DEF OnInteractiveExtras, DemotedBy, Moved, SameCard

\* No call moves a card in any other way.
LEMMA StepMoves ==
  TypeOK /\ Next => \A p \in Panes : Moved(panes[p].obs, panes'[p].obs)
<1> SUFFICES ASSUME TypeOK, Next, NEW p \in Panes
             PROVE  Moved(panes[p].obs, panes'[p].obs)
  OBVIOUS
<1>0. panes[p] \in PaneRecords
  BY DEF TypeOK
<1>1. ASSUME panes'[p].obs = panes[p].obs
      PROVE  Moved(panes[p].obs, panes'[p].obs)
  BY <1>1 DEF Moved, SameCard
<1>2. CASE Timer
  BY <1>0, <1>2, TimerMoves DEF Timer
<1>3. ASSUME NEW q \in Panes, NEW argv \in Argv, NEW fgd \in BOOLEAN,
             CommandChanged(q, argv, fgd)
      PROVE  Moved(panes[p].obs, panes'[p].obs)
  <2>1. \/ panes'[p] = panes[p]
        \/ panes'[p] = OnCommandChanged(panes[p], argv, fgd, interactive,
                                        remote)
    BY <1>3 DEF CommandChanged, TypeOK
  <2> QED
    BY <1>0, <1>1, <2>1, CommandChangedKeepsRow
<1>4. ASSUME NEW q \in Panes, NEW status \in ExitStatuses,
             PaneExited(q, status)
      PROVE  Moved(panes[p].obs, panes'[p].obs)
  <2>1. panes'[p] = panes[p] \/ panes'[p] = OnExit(panes[p], status)
    BY <1>4 DEF PaneExited, TypeOK
  <2> QED
    BY <1>0, <1>1, <1>4, <2>1, ExitMoves
<1>5. ASSUME NEW live \in SUBSET Panes, Prune(live)
      PROVE  Moved(panes[p].obs, panes'[p].obs)
  BY <1>5 DEF Prune, FreshPane, NoObs, Moved, SameCard
<1>6. ASSUME NEW extras \in InteractiveExtras, SetInteractiveExtras(extras)
      PROVE  Moved(panes[p].obs, panes'[p].obs)
  BY <1>0, <1>6, InteractiveExtrasMove DEF SetInteractiveExtras
<1>7. ASSUME NEW extras \in RemoteExtras, SetRemoteExtras(extras)
      PROVE  Moved(panes[p].obs, panes'[p].obs)
  BY <1>0, <1>7, RemoteExtrasKeepCard DEF SetRemoteExtras, Moved
<1> QED
  BY <1>2, <1>3, <1>4, <1>5, <1>6, <1>7 DEF Next, Report, Configure

-----------------------------------------------------------------------------
(* The refinement: a call is a PaneLife step.                              *)

\* Equal cards are the same card.
LEMMA SameCardIsEqual ==
  ASSUME NEW o, NEW n
  PROVE  CardOf(o) = CardOf(n) <=> SameCard(o, n)
BY DEF CardOf, SameCard

\* An observation shows a card.
LEMMA CardType ==
  ASSUME NEW o \in Observations
  PROVE  /\ CardOf(o) \in Life!Cards
         /\ CardOf(o).status \in Life!Outcomes <=> IsCompletion(o)
BY DEF CardOf, Observations, ExitStatuses, Life!Cards, Life!Outcomes,
   IsCompletion, Completions

\* A move that hands over what it displaces is a move of the card's life.
LEMMA MovesLive ==
  ASSUME NEW o \in Observations, NEW n \in Observations,
         NEW r \in SUBSET Observations,
         Moved(o, n),
         IsCompletion(o) /\ ~SameCard(o, n) => \E x \in r : SameCard(o, x),
         \A x \in r : IsCompletion(o) /\ SameCard(o, x)
  PROVE  Life!Moves(CardOf(o), CardOf(n), {CardOf(x) : x \in r})
<1> DEFINE old == CardOf(o)
           new == CardOf(n)
           out == {CardOf(x) : x \in r}
<1>1. out \subseteq {old}
  BY SameCardIsEqual
<1>2. out # {} => old.status \in Life!Outcomes
  BY CardType
<1>3. old # new => out = Life!Displaced(old)
  <2>1. CASE IsCompletion(o) /\ old # new
    <3>1. \E x \in r : CardOf(x) = old
      BY <2>1, SameCardIsEqual
    <3> QED
      BY <1>1, <2>1, <3>1, CardType DEF Life!Displaced
  <2>2. CASE ~IsCompletion(o)
    BY <1>2, <2>2, <1>1, CardType DEF Life!Displaced
  <2> QED
    BY <2>1, <2>2
<1>4. /\ old = [status |-> o.status, name |-> o.msg, code |-> o.code]
      /\ new = [status |-> n.status, name |-> n.msg, code |-> n.code]
  BY DEF CardOf
<1>5. CASE old = new
  <2>1. CASE out = {}
    BY <1>5, <2>1 DEF Life!Moves, Life!Stay
  <2>2. CASE out # {}
    <3>1. out = Life!Displaced(old)
      BY <1>1, <1>2, <2>2 DEF Life!Displaced
    <3> QED
      BY <1>2, <1>5, <2>2, <3>1 DEF Life!Moves, Life!Finish
  <2> QED
    BY <2>1, <2>2
<1>6. CASE old # new
  <2>1. out = Life!Displaced(old) /\ ~SameCard(o, n)
    BY <1>3, <1>6, SameCardIsEqual
  <2>2. CASE n.status = "running" /\ n.code = "none"
    BY <1>4, <1>6, <2>1, <2>2 DEF Life!Moves, Life!Begin
  <2>3. CASE IsCompletion(n)
    <3>1. new.status \in Life!Outcomes
      BY <2>3, CardType
    <3> QED
      BY <2>1, <3>1 DEF Life!Moves, Life!Finish
  <2>4. CASE /\ o.status \in {"running", "done"}
             /\ n.status = "idle" /\ n.msg = o.msg /\ n.code = o.code
    <3>1. new = [old EXCEPT !.status = "idle"]
      BY <1>4, <2>4
    <3>2. CASE o.status = "running"
      BY <1>4, <2>1, <3>1, <3>2
      DEF Life!Moves, Life!Demote, Life!Displaced, Life!Outcomes
    <3>3. CASE o.status = "done"
      BY <1>4, <2>1, <3>1, <3>3
      DEF Life!Moves, Life!Recede, Life!Displaced, Life!Outcomes
    <3> QED
      BY <2>4, <3>2, <3>3
  <2>5. CASE n.status = "absent"
    BY <1>4, <2>1, <2>5 DEF Life!Moves, Life!Forget
  <2> QED
    BY <2>1, <2>2, <2>3, <2>4, <2>5 DEF Moved
<1> QED
  BY <1>5, <1>6

\* The store keeps its type across reloads.
THEOREM LifeTypeCorrect == LifeSpec => []TypeOK
<1>1. LifeInit => TypeOK
  <2>1. NothingShown \in Foregrounds
    BY EarlyAge DEF NothingShown, Foregrounds
  <2>2. DefaultInteractive \in SUBSET Commands
    BY CommandPaneAssumption
  <2> QED
    BY <2>1, <2>2, FreshPaneType DEF LifeInit, Init, TypeOK
<1>2. TypeOK /\ [LifeNext]_lifeVars => TypeOK'
  <2> SUFFICES ASSUME TypeOK, [LifeNext]_lifeVars PROVE TypeOK'
    OBVIOUS
  <2>1. CASE [Next]_vars
    BY <2>1, TypeStep
  <2>2. CASE Rehydrate
    <3>1. ASSUME NEW p \in Panes PROVE panes'[p] \in PaneRecords
      <4> DEFINE o == IF panes[p].obs.status = "done"
                        THEN [panes[p].obs EXCEPT !.age = 0]
                        ELSE panes[p].obs
      <4>1. panes'[p] = [FreshPane EXCEPT !.obs = o]
        BY <2>2 DEF Rehydrate
      <4>2. o \in Observations
        BY EarlyAge, PaneParts DEF TypeOK, Observations
      <4> HIDE DEF o
      <4> QED
        BY <4>1, <4>2, FreshPaneType DEF PaneRecords
    <3>2. panes' \in [Panes -> PaneRecords]
      BY <2>2, <3>1 DEF Rehydrate
    <3> QED
      BY <2>2, <3>2 DEF Rehydrate, Quiet, TypeOK
  <2>3. [Next]_vars \/ Rehydrate
    BY DEF LifeNext, lifeVars, vars
  <2> QED
    BY <2>1, <2>2, <2>3
<1> QED
  BY <1>1, <1>2, PTL DEF LifeSpec

\* Until the first reload the books match every pane's foreground.
THEOREM LifeBooksCorrect == LifeSpec => []BooksMatchUntilReload
<1>1. LifeInit => BooksMatchUntilReload
  BY FreshPaneInv DEF LifeInit, Init, BooksMatchUntilReload, BooksMatchForeground
<1>2. TypeOK /\ BooksMatchUntilReload /\ [LifeNext]_lifeVars
        => BooksMatchUntilReload'
  <2> SUFFICES ASSUME TypeOK, BooksMatchUntilReload, [LifeNext]_lifeVars,
                      ~restarts'
               PROVE  BooksMatchForeground'
    BY DEF BooksMatchUntilReload
  <2>1. ~restarts /\ [Next]_vars
    BY DEF LifeNext, lifeVars, vars
  <2> QED
    BY <2>1, BooksStep DEF BooksMatchUntilReload
<1> QED
  BY <1>1, <1>2, LifeTypeCorrect, PTL DEF LifeSpec

\* Every behaviour of the store, reloads included, is a behaviour of PaneLife:
\* failures stay, successes recede, outcomes are filed as they leave.
THEOREM LifeCorrect == LifeSpec => ImplementsPaneLife
<1> DEFINE cards == [p \in Panes |-> CardOf(panes[p].obs)]
           files == [p \in Panes |-> {CardOf(o) : o \in receded[p]}]
<1>1. LifeInit => Life!Init
  <2> SUFFICES ASSUME LifeInit PROVE Life!Init
    OBVIOUS
  <2>1. NoObs \in Observations
    BY FreshPaneType, PaneParts DEF FreshPane
  <2>2. /\ CardOf(NoObs) \in Life!Cards
        /\ CardOf(NoObs).status = "absent"
    BY <2>1, CardType DEF CardOf, NoObs
  <2>3. /\ cards = [p \in Panes |-> CardOf(NoObs)]
        /\ files = [p \in Panes |-> {}]
    BY DEF LifeInit, Init, FreshPane
  <2> QED
    BY <2>2, <2>3 DEF Life!Init
<1>2. TypeOK /\ TypeOK' /\ [LifeNext]_lifeVars => [Life!Next]_(Life!vars)
  <2> SUFFICES ASSUME TypeOK, TypeOK', LifeNext \/ UNCHANGED lifeVars
               PROVE  [Life!Next]_(Life!vars)
    OBVIOUS
  <2>1. CASE Next \/ Rehydrate
    <3>1. ASSUME NEW p \in Panes
          PROVE  /\ cards'[p] \in Life!Cards
                 /\ files'[p] \in SUBSET Life!Cards
                 /\ Life!Moves(cards[p], cards'[p], files'[p])
      <4>1. /\ panes[p].obs \in Observations /\ panes'[p].obs \in Observations
            /\ receded'[p] \in SUBSET Observations
        BY PaneParts DEF TypeOK
      <4>2. /\ cards'[p] = CardOf(panes'[p].obs)
            /\ cards[p] = CardOf(panes[p].obs)
            /\ files'[p] = {CardOf(o) : o \in receded'[p]}
        OBVIOUS
      <4>3. CASE Next
        <5>1. Moved(panes[p].obs, panes'[p].obs) /\ HandsOver(p)
          BY <4>3, StepMoves, HandOffStep
        <5> QED
          BY <4>1, <4>2, <5>1, MovesLive, CardType DEF HandsOver
      <4>4. CASE Rehydrate
        <5>1. SameCard(panes[p].obs, panes'[p].obs) /\ receded'[p] = {}
          BY <4>1, <4>4, FreshPaneType
          DEF Rehydrate, Quiet, FreshPane, SameCard, Observations
        <5> QED
          BY <4>1, <4>2, <5>1, MovesLive, CardType DEF Moved
      <4> QED
        BY <2>1, <4>3, <4>4
    <3>2. /\ cards' \in [Panes -> Life!Cards]
          /\ files' \in [Panes -> SUBSET Life!Cards]
      BY <3>1
    <3> QED
      BY <3>1, <3>2 DEF Life!Next
  <2>2. CASE UNCHANGED lifeVars
    BY <2>2 DEF lifeVars, vars, Life!vars
  <2> QED
    BY <2>1, <2>2 DEF LifeNext
<1> QED
  BY <1>1, <1>2, LifeTypeCorrect, PTL DEF LifeSpec, ImplementsPaneLife, Life!Spec

-----------------------------------------------------------------------------
(* Completions, over reloads: a Done that is confirmed has left, and a      *)
(* repeated exit is silent.                                                 *)

\* After an exit with status `st' no run is in flight, and the row is idle or
\* shows that very exit.
ExitSettled(c, st) ==
  st # "unseen" =>
    /\ c.pending.state = "absent"
    /\ \/ c.obs.status = "idle"
       \/ c.obs.status = ExitOutcome(st) /\ c.obs.code = st

\* Until a new command opens in a pane, its row is settled by the exit it was
\* last sent and by the one its store remembers; a confirm is armed only over
\* a prompt or an interactive program.  The two exits differ once an exit over
\* an idle row was let pass, so the row has to be settled by both.
LifeInv ==
  \A p \in Panes :
    /\ ExitSettled(panes[p], panes[p].exited)
    /\ ExitSettled(panes[p], lastExit[p])
    /\ restarts /\ panes[p].leaving # Unarmed =>
         shown[p].cmd = NoCmd \/ shown[p].cmd \in interactive


\* A tick settles whatever was settled: only a Done row moves, to Idle.
LEMMA TimerSettled ==
  ASSUME NEW c \in PaneRecords, NEW st, ExitSettled(c, st)
  PROVE  ExitSettled(OnTimer(c), st)
<1> DEFINE aged == Aged(c)
           confirmed == IF ConfirmDue(aged) THEN ConfirmDone(aged) ELSE aged
<1> SUFFICES ASSUME st # "unseen" PROVE ExitSettled(OnTimer(c), st)
  BY DEF ExitSettled
<1>1. c.pending.state = "absent" /\ c.obs.status # "running"
  BY DEF ExitSettled, ExitOutcome
<1>2. /\ aged \in PaneRecords
      /\ aged.pending.state = "absent" /\ aged.obs.status = c.obs.status
      /\ aged.obs.code = c.obs.code
  BY <1>1, AgedType DEF Aged, PaneRecords, Pendings, Observations
<1> HIDE DEF aged
<1>3. /\ confirmed \in PaneRecords
      /\ confirmed.pending.state = "absent"
      /\ confirmed.obs.status = c.obs.status /\ confirmed.obs.code = c.obs.code
  BY <1>1, <1>2, ConfirmDoneType DEF ConfirmDone, PaneRecords
<1> HIDE DEF confirmed
<1>4. OnTimer(c) = IF Expires(confirmed) THEN Recede(confirmed) ELSE confirmed
  BY <1>2 DEF OnTimer, Promotes, aged, confirmed
<1>5. CASE Expires(confirmed)
  <2>1. /\ Recede(confirmed).obs.status = "idle"
        /\ Recede(confirmed).pending.state = "absent"
    BY <1>3 DEF Recede, PaneRecords, Observations
  <2> QED
    BY <1>4, <1>5, <2>1 DEF ExitSettled
<1>6. CASE ~Expires(confirmed)
  BY <1>3, <1>4, <1>6 DEF ExitSettled
<1> QED
  BY <1>5, <1>6

\* A report that opens no command settles whatever was settled.
LEMMA ReportSettled ==
  ASSUME NEW c \in PaneRecords, NEW st, ExitSettled(c, st),
         NEW argv, NEW fgd, NEW inter, NEW extras,
         MeansLeft(argv, fgd, inter) \/ argv = Blank
  PROVE  ExitSettled(OnCommandChanged(c, argv, fgd, inter, extras), st)
<1> DEFINE d == [c EXCEPT !.pending = NoPending]
<1>1. d.pending.state = "absent" /\ d.obs = c.obs
  BY DEF PaneRecords, NoPending
<1>2. ASSUME st # "unseen" PROVE ArmTentativeDone(d) = d
  BY <1>1, <1>2 DEF ExitSettled, ExitOutcome, ArmTentativeDone
<1> HIDE DEF d
<1>3. CASE MeansLeft(argv, fgd, inter)
  <2>1. OnCommandChanged(c, argv, fgd, inter, extras) = ArmTentativeDone(d)
    BY <1>3 DEF OnCommandChanged, d
  <2> QED
    BY <1>1, <1>2, <2>1 DEF ExitSettled
<1>4. CASE ~MeansLeft(argv, fgd, inter)
  BY <1>4 DEF OnCommandChanged
<1> QED
  BY <1>3, <1>4

\* An exit settles the row by itself, and by the exit the store remembers.
LEMMA ExitSettles ==
  ASSUME NEW c \in PaneRecords, NEW status \in ExitStatuses,
         ExitSettled(c, c.exited)
  PROVE  /\ ExitSettled(OnExit(c, status), status)
         /\ ExitSettled(OnExit(c, status), OnExit(c, status).exited)
<1> DEFINE e == OnExit(c, status)
<1>1. CASE ExitApplies(c, status)
  <2>1. /\ e.pending.state = "absent" /\ e.obs.code = status
        /\ e.obs.status = ExitOutcome(status) /\ e.exited = status
    BY <1>1 DEF OnExit, NoPending
  <2> QED
    BY <2>1 DEF ExitSettled
<1>2. CASE ~ExitApplies(c, status) /\ c.exited # status /\ ~ReplayOverIdle(c)
  <2>1. /\ e = [c EXCEPT !.exited = status]
        /\ ReplayOverSame(c, status)
    BY <1>2 DEF OnExit, ExitApplies
  <2>2. e.exited = status /\ e.obs = c.obs /\ e.pending = c.pending
    BY <2>1 DEF PaneRecords
  <2> QED
    BY <2>1, <2>2 DEF ExitSettled, ReplayOverSame
<1>3. CASE c.exited = status
  <2>1. e = c
    BY <1>3 DEF OnExit, ExitApplies
  <2> QED
    BY <1>3, <2>1
<1>4. CASE c.exited # status /\ ReplayOverIdle(c)
  <2>1. e = c
    BY <1>4 DEF OnExit, ExitApplies
  <2> QED
    BY <1>4, <2>1 DEF ReplayOverIdle, ExitSettled
<1> QED
  BY <1>1, <1>2, <1>3, <1>4

\* A change of configuration moves no settled row.
LEMMA ExtrasSettled ==
  ASSUME NEW c \in PaneRecords, NEW st, ExitSettled(c, st), NEW extras
  PROVE  /\ ExitSettled(OnInteractiveExtras(c, extras), st)
         /\ ExitSettled(OnRemoteExtras(c, extras), st)
<1> SUFFICES ASSUME st # "unseen"
             PROVE  /\ ExitSettled(OnInteractiveExtras(c, extras), st)
                    /\ ExitSettled(OnRemoteExtras(c, extras), st)
  BY DEF ExitSettled
<1>1. c.pending.state = "absent" /\ c.obs.status # "running"
  BY DEF ExitSettled, ExitOutcome
<1>2. OnInteractiveExtras(c, extras) = c
  BY <1>1 DEF OnInteractiveExtras, Rejudged, DemotedBy
<1>3. /\ OnRemoteExtras(c, extras).pending.state = c.pending.state
      /\ OnRemoteExtras(c, extras).obs.status = c.obs.status
      /\ OnRemoteExtras(c, extras).obs.code = c.obs.code
  BY DEF OnRemoteExtras, PaneRecords, Observations, Pendings
<1> QED
  BY <1>2, <1>3 DEF ExitSettled

\* The exits a store remembers, and its armed confirms, pane by pane.
LEMMA BookkeepingMoves ==
  ASSUME NEW c \in PaneRecords, NEW argv, NEW fgd, NEW inter, NEW extras
  PROVE  /\ OnTimer(c).exited = c.exited
         /\ OnTimer(c).leaving # Unarmed => c.leaving # Unarmed
         /\ OnTimer(c).obs.status = "done" /\ c.obs.status # "done"
              => c.leaving # Unarmed
         /\ OnInteractiveExtras(c, inter).exited = c.exited
         /\ OnInteractiveExtras(c, inter).leaving = c.leaving
         /\ OnRemoteExtras(c, extras).exited = c.exited
         /\ OnRemoteExtras(c, extras).leaving = c.leaving
<1>1. /\ OnInteractiveExtras(c, inter).exited = c.exited
      /\ OnInteractiveExtras(c, inter).leaving = c.leaving
  BY DEF OnInteractiveExtras, Rejudged, Demote, PaneRecords
<1>2. /\ OnRemoteExtras(c, extras).exited = c.exited
      /\ OnRemoteExtras(c, extras).leaving = c.leaving
  BY DEF OnRemoteExtras, PaneRecords
<1> DEFINE aged == Aged(c)
           promoted == IF Promotes(aged) THEN Promote(aged) ELSE aged
           confirmed == IF ConfirmDue(promoted) THEN ConfirmDone(promoted)
                                                ELSE promoted
           t == OnTimer(c)
<1>3. /\ aged \in PaneRecords /\ promoted \in PaneRecords
      /\ confirmed \in PaneRecords
  BY AgedType, PromoteType, ConfirmDoneType
<1>4. /\ aged.exited = c.exited /\ aged.obs.status = c.obs.status
      /\ aged.leaving # Unarmed => c.leaving # Unarmed
  BY DEF Aged, PaneRecords, Observations
<1> HIDE DEF aged
<1>5. /\ promoted.exited = c.exited
      /\ promoted.leaving = aged.leaving
      /\ promoted.obs.status \in {c.obs.status, "running"}
  BY <1>3, <1>4 DEF Promote, PaneRecords
<1> HIDE DEF promoted
<1>6. ConfirmDue(promoted) => promoted.leaving # Unarmed
  BY CommandPaneAssumption DEF ConfirmDue, Unarmed
<1>7. /\ confirmed.exited = c.exited
      /\ confirmed.leaving # Unarmed => promoted.leaving # Unarmed
      /\ confirmed.obs.status # promoted.obs.status
           => promoted.leaving # Unarmed
  BY <1>3, <1>5, <1>6 DEF ConfirmDone, PaneRecords, Observations
<1>8. t = IF Expires(confirmed) THEN Recede(confirmed) ELSE confirmed
  BY DEF OnTimer, aged, promoted, confirmed
<1> HIDE DEF confirmed, t
<1>9. /\ t.exited = confirmed.exited /\ t.leaving = confirmed.leaving
      /\ t.obs.status \in {confirmed.obs.status, "idle"}
  BY <1>3, <1>8 DEF Recede, PaneRecords, Observations
<1>10. /\ t.exited = c.exited
       /\ t.leaving # Unarmed => c.leaving # Unarmed
       /\ t.obs.status = "done" /\ c.obs.status # "done" => c.leaving # Unarmed
  BY <1>4, <1>5, <1>7, <1>9
<1> QED
  BY <1>1, <1>2, <1>10 DEF t


\* Every call of a store that lives on or is reloaded keeps LifeInv.
LEMMA LifeInvStep == TypeOK /\ LifeInv /\ [LifeNext]_lifeVars => LifeInv'
<1> SUFFICES ASSUME TypeOK, LifeInv, [LifeNext]_lifeVars PROVE LifeInv'
  OBVIOUS
<1> DEFINE Settled(c, last) == ExitSettled(c, c.exited) /\ ExitSettled(c, last)
           Leaves(c, s, inter) ==
             c.leaving # Unarmed => s.cmd = NoCmd \/ s.cmd \in inter
<1>1. ASSUME NEW p \in Panes
      PROVE  /\ panes[p] \in PaneRecords
             /\ Settled(panes[p], lastExit[p])
             /\ restarts => Leaves(panes[p], shown[p], interactive)
  BY <1>1 DEF TypeOK, LifeInv
<1>2. /\ restarts' = restarts
      /\ restarts => interactive \subseteq interactive'
  BY DEF LifeNext, lifeVars, vars
<1>3. SUFFICES ASSUME NEW p \in Panes
               PROVE  /\ Settled(panes'[p], lastExit'[p])
                      /\ restarts => Leaves(panes'[p], shown'[p], interactive')
  BY <1>2 DEF LifeInv
<1>4. CASE Timer
  <2>1. /\ panes'[p] = OnTimer(panes[p])
        /\ lastExit' = lastExit /\ interactive' = interactive
        /\ shown'[p].cmd = shown[p].cmd
    BY <1>4 DEF Timer, TypeOK, Foregrounds
  <2> QED
    BY <1>1, <2>1, TimerSettled, BookkeepingMoves
<1>5. ASSUME NEW q \in Panes, NEW argv \in Argv, NEW fgd \in BOOLEAN,
             CommandChanged(q, argv, fgd)
      PROVE  /\ Settled(panes'[p], lastExit'[p])
             /\ restarts => Leaves(panes'[p], shown'[p], interactive')
  <2> DEFINE left == MeansLeft(argv, fgd, interactive)
  <2>1. interactive' = interactive
    BY <1>5 DEF CommandChanged, config
  <2>2. CASE p # q
    <3>1. /\ panes'[p] = panes[p] /\ lastExit'[p] = lastExit[p]
          /\ shown'[p] = shown[p]
      BY <1>5, <2>2 DEF CommandChanged, TypeOK
    <3> QED
      BY <1>1, <2>1, <3>1
  <2>3. CASE p = q
    <3> DEFINE e == OnCommandChanged(panes[p], argv, fgd, interactive, remote)
    <3>1. /\ panes'[p] = e /\ shown'[p] = Shows(p, argv, fgd)
          /\ lastExit'[p] = IF left \/ argv = Blank THEN lastExit[p]
                                                    ELSE "unseen"
      BY <1>5, <2>3 DEF CommandChanged, TypeOK
    <3>2. CASE left \/ argv = Blank
      <4>1. e.exited = panes[p].exited
        BY <1>1, <3>2
        DEF OnCommandChanged, ArmTentativeDone, PaneRecords
      <4>2. Settled(e, lastExit[p])
        <5> HIDE DEF e
        <5>1. ASSUME NEW st, ExitSettled(panes[p], st) PROVE ExitSettled(e, st)
          BY <1>1, <3>2, <5>1, ReportSettled DEF e
        <5> QED
          BY <1>1, <4>1, <5>1
      <4>3. shown'[p].cmd = NoCmd \/ (e = panes[p] /\ shown'[p] = shown[p])
        BY <3>1, <3>2 DEF Shows, OnCommandChanged, NothingShown
      <4> QED
        BY <1>1, <2>1, <3>1, <3>2, <4>2, <4>3
    <3>3. CASE ~left /\ argv # Blank
      <4>1. e.exited = "unseen"
        BY <1>1, <3>3 DEF OnCommandChanged, ArmTentativeDone, PaneRecords
      <4>2. e.leaving # Unarmed => argv \in interactive
        BY <1>1, <3>3 DEF OnCommandChanged, ArmTentativeDone, PaneRecords
      <4>3. shown'[p].cmd = argv
        BY <3>1, <3>3 DEF Shows
      <4> QED
        BY <2>1, <3>1, <3>3, <4>1, <4>2, <4>3 DEF ExitSettled
    <3> QED
      BY <3>2, <3>3
  <2> QED
    BY <2>2, <2>3
<1>6. ASSUME NEW q \in Panes, NEW status \in ExitStatuses,
             PaneExited(q, status)
      PROVE  /\ Settled(panes'[p], lastExit'[p])
             /\ restarts => Leaves(panes'[p], shown'[p], interactive')
  <2>1. CASE p # q
    BY <1>1, <1>6, <2>1 DEF PaneExited, TypeOK, config
  <2>2. CASE p = q
    <3>1. /\ panes'[p] = OnExit(panes[p], status) /\ lastExit'[p] = status
          /\ shown'[p].cmd = NoCmd
      BY <1>6, <2>2 DEF PaneExited, TypeOK, NothingShown
    <3> QED
      BY <1>1, <3>1, ExitSettles
  <2> QED
    BY <2>1, <2>2
<1>7. ASSUME NEW live \in SUBSET Panes, Prune(live)
      PROVE  /\ Settled(panes'[p], lastExit'[p])
             /\ restarts => Leaves(panes'[p], shown'[p], interactive')
  <2>1. CASE p \in live
    BY <1>1, <1>7, <2>1 DEF Prune, config
  <2>2. CASE p \notin live
    BY <1>7, <2>2 DEF Prune, FreshPane, ExitSettled
  <2> QED
    BY <2>1, <2>2
<1>8. ASSUME NEW extras, SetInteractiveExtras(extras)
      PROVE  /\ Settled(panes'[p], lastExit'[p])
             /\ restarts => Leaves(panes'[p], shown'[p], interactive')
  <2>1. /\ panes'[p] = OnInteractiveExtras(panes[p], interactive')
        /\ lastExit' = lastExit /\ shown' = shown
    BY <1>8 DEF SetInteractiveExtras
  <2> QED
    BY <1>1, <1>2, <2>1, ExtrasSettled, BookkeepingMoves
<1>9. ASSUME NEW extras, SetRemoteExtras(extras)
      PROVE  /\ Settled(panes'[p], lastExit'[p])
             /\ restarts => Leaves(panes'[p], shown'[p], interactive')
  <2>1. /\ panes'[p] = OnRemoteExtras(panes[p], remote')
        /\ lastExit' = lastExit /\ shown' = shown
        /\ interactive' = interactive
    BY <1>9 DEF SetRemoteExtras
  <2> QED
    BY <1>1, <2>1, ExtrasSettled, BookkeepingMoves
<1>10. CASE Rehydrate
  <2>1. /\ panes'[p].exited = "unseen" /\ panes'[p].leaving = Unarmed
        /\ panes'[p].pending.state = "absent"
        /\ lastExit' = lastExit
    BY <1>10 DEF Rehydrate, FreshPane, NoPending
  <2>2. /\ panes'[p].obs.status = panes[p].obs.status
        /\ panes'[p].obs.code = panes[p].obs.code
    BY <1>1, <1>10 DEF Rehydrate, FreshPane, PaneRecords, Observations
  <2> QED
    BY <1>1, <2>1, <2>2 DEF ExitSettled
<1>11. CASE UNCHANGED lifeVars
  BY <1>1, <1>11 DEF lifeVars, vars
<1> HIDE DEF Settled, Leaves
<1> QED
  BY <1>4, <1>5, <1>6, <1>7, <1>8, <1>9, <1>10, <1>11
  DEF LifeNext, Next, Report, Configure

\* The settled rows, over reloads and exits in any order.
THEOREM LifeInvCorrect == LifeSpec => []LifeInv
<1>1. LifeInit => LifeInv
  BY DEF LifeInit, Init, LifeInv, FreshPane, ExitSettled
<1> QED
  BY <1>1, LifeInvStep, LifeTypeCorrect, PTL DEF LifeSpec

\* A Done the store confirms is of a command that left the foreground, and the
\* exit of a held pane, which Zellij repeats with every manifest, changes a row
\* and ledgers an outcome once, reloads in between included.
THEOREM CompletionsAreTrueCorrect == LifeSpec => CompletionsAreTrue
<1>1. TypeOK /\ LifeInv /\ [LifeNext]_lifeVars =>
        [restarts =>
           \A p \in Panes :
             panes'[p].obs.status = "done" /\ panes[p].obs.status # "done"
               => \/ shown'[p].cmd # panes'[p].obs.msg
                  \/ shown'[p].cmd = NoCmd
                  \/ shown'[p].cmd \in interactive]_lifeVars
  <2> SUFFICES ASSUME TypeOK, LifeInv, LifeNext, restarts, NEW p \in Panes,
                      panes'[p].obs.status = "done",
                      panes[p].obs.status # "done"
               PROVE  shown'[p].cmd = NoCmd \/ shown'[p].cmd \in interactive
    OBVIOUS
  <2>1. panes[p] \in PaneRecords
    BY DEF TypeOK
  <2>2. CASE Timer
    <3>1. panes'[p] = OnTimer(panes[p]) /\ shown'[p].cmd = shown[p].cmd
      BY <2>2 DEF Timer, TypeOK, Foregrounds
    <3> QED
      BY <2>1, <3>1, BookkeepingMoves DEF LifeInv
  <2>3. ASSUME NEW q \in Panes, NEW argv \in Argv, NEW fgd \in BOOLEAN,
               CommandChanged(q, argv, fgd)
        PROVE  FALSE
    <3>1. panes'[p].obs = panes[p].obs
      BY <2>1, <2>3, CommandChangedKeepsRow DEF CommandChanged, TypeOK
    <3> QED
      BY <3>1
  <2>4. ASSUME NEW q \in Panes, NEW status \in ExitStatuses,
               PaneExited(q, status)
        PROVE  shown'[p].cmd = NoCmd
    BY <2>4 DEF PaneExited, TypeOK, NothingShown
  <2>5. ASSUME NEW live \in SUBSET Panes, Prune(live) PROVE FALSE
    BY <2>5 DEF Prune, FreshPane, NoObs
  <2>6. ASSUME NEW extras, SetInteractiveExtras(extras) PROVE FALSE
    BY <2>1, <2>6, InteractiveExtrasKeepOrIdle DEF SetInteractiveExtras
  <2>7. ASSUME NEW extras, SetRemoteExtras(extras) PROVE FALSE
    BY <2>1, <2>7, RemoteExtrasKeepCard DEF SetRemoteExtras, SameCard
  <2>8. CASE Rehydrate
    BY <2>1, <2>8 DEF Rehydrate, FreshPane, PaneRecords, Observations
  <2> QED
    BY <2>2, <2>3, <2>4, <2>5, <2>6, <2>7, <2>8
    DEF LifeNext, Next, Report, Configure
<1>2. TypeOK /\ LifeInv =>
        [\A p \in Panes, status \in ExitStatuses :
           PaneExited(p, status) /\ lastExit[p] = status
             => panes'[p].obs = panes[p].obs /\ receded'[p] = {}]_vars
  <2> SUFFICES ASSUME TypeOK, LifeInv, NEW p \in Panes,
                      NEW status \in ExitStatuses,
                      PaneExited(p, status), lastExit[p] = status
               PROVE  panes'[p].obs = panes[p].obs /\ receded'[p] = {}
    OBVIOUS
  <2>1. status # "unseen"
    BY CommandPaneAssumption DEF ExitStatuses
  <2>2. ~ExitApplies(panes[p], status)
    BY <2>1 DEF LifeInv, ExitSettled, ExitApplies, ReplayOverIdle, ReplayOverSame
  <2>3. panes'[p] = OnExit(panes[p], status)
    BY DEF PaneExited, TypeOK
  <2>4. OnExit(panes[p], status).obs = panes[p].obs
    BY <2>2 DEF OnExit, TypeOK, PaneRecords
  <2>5. receded'[p] = {}
    BY <2>2 DEF PaneExited, ExitReceded
  <2> QED
    BY <2>3, <2>4, <2>5
<1> QED
  BY <1>1, <1>2, LifeTypeCorrect, LifeInvCorrect, PTL
  DEF LifeSpec, CompletionsAreTrue, ConfirmedDoneHasLeft, ReplayedExitIsSilent

-----------------------------------------------------------------------------
(* The rows of a pane in every instance, and the file they share           *)

\* Nothing is known of an exit that did not happen, and none happens in a pane
\* that does not stay open.
RowsTyped ==
  /\ cmd = [i \in Instances |-> cmd[i]]
  /\ \A i \in Instances : cmd[i] \in PaneRecords
  /\ loaded \subseteq Instances /\ loaded # {} /\ disk \in Observations
  /\ fg \in Commands \cup {NoCmd} /\ held \in ExitStatuses \cup {"unseen"}
  /\ heard \subseteq loaded
  /\ held = "unseen" => knows = {}
  /\ fg # NoCmd => held = "unseen"
  /\ ~holding => held = "unseen"

\* The file shows what the last writer still shows, whoever else wrote before.
FileIsSomebodys == ~holding => \E w \in loaded : Rows!SameRow(cmd[w].obs, disk)

\* The command an instance heard start is pending or runs, and no confirm can end
\* it: a confirm that is armed is of the row under an interactive program.
Underway(c) ==
  /\ c.exited = "unseen"
  /\ \/ c.pending.state = "quiet"
     \/ c.leaving = Unarmed /\ (c.pending.state = "promotable" \/ c.obs.status = "running")

\* The row was settled by the exit s.
FailedBy(c, s) ==
  /\ c.exited = s /\ c.obs.status = "error"
  /\ c.pending.state = "absent" /\ c.leaving = Unarmed

HeardToTheEnd ==
  \A i \in heard :
    /\ holding /\ i \notin knows => Underway(cmd[i])
    /\ i \in knows /\ held \in FailCodes => FailedBy(cmd[i], held)

RowsInv == RowsTyped /\ FileIsSomebodys /\ HeardToTheEnd

\* The rows are kept by the store of one pane.
LEMMA SameStore ==
  /\ Rows!NoObs = NoObs /\ Rows!FreshPane = FreshPane /\ Rows!Observations = Observations
  /\ Rows!ExitStatuses = ExitStatuses
  /\ \A c : /\ Rows!OnTimer(c) = OnTimer(c) /\ (Rows!TimerChanged(c) <=> TimerChanged(c))
  /\ \A c, s : /\ Rows!OnExit(c, s) = OnExit(c, s)
               /\ Rows!ExitReceded(c, s) = ExitReceded(c, s)
  /\ \A c, argv, f, inter, extras :
       Rows!OnCommandChanged(c, argv, f, inter, extras) = OnCommandChanged(c, argv, f, inter, extras)
<1>1. /\ Rows!NoObs = NoObs /\ Rows!FreshPane = FreshPane /\ Rows!Observations = Observations
      /\ Rows!ExitStatuses = ExitStatuses /\ Rows!Unarmed = Unarmed /\ Rows!NoPending = NoPending
  BY DEF Rows!NoObs, NoObs, Rows!FreshPane, FreshPane, Rows!NoPending, NoPending, Rows!Unarmed,
         Unarmed, Rows!Observations, Observations, Rows!Kinds, Kinds, Rows!ExitStatuses, ExitStatuses
<1>2. ASSUME NEW c
      PROVE  /\ Rows!Aged(c) = Aged(c) /\ Rows!Promote(c) = Promote(c)
             /\ Rows!ConfirmDone(c) = ConfirmDone(c) /\ Rows!Recede(c) = Recede(c)
             /\ (Rows!Promotes(c) <=> Promotes(c)) /\ (Rows!ConfirmDue(c) <=> ConfirmDue(c))
             /\ (Rows!Expires(c) <=> Expires(c)) /\ Rows!ArmTentativeDone(c) = ArmTentativeDone(c)
  BY <1>1 DEF Rows!Aged, Aged, Rows!Older, Older, Rows!Promote, Promote, Rows!ConfirmDone, ConfirmDone,
         Rows!Recede, Recede, Rows!Promotes, Promotes, Rows!ConfirmDue, ConfirmDue,
         Rows!Expires, Expires, Rows!ArmTentativeDone, ArmTentativeDone
<1>3. ASSUME NEW c
      PROVE  Rows!OnTimer(c) = OnTimer(c) /\ (Rows!TimerChanged(c) <=> TimerChanged(c))
  BY <1>2 DEF Rows!OnTimer, OnTimer, Rows!TimerChanged, TimerChanged
<1>4. ASSUME NEW c, NEW s
      PROVE  Rows!OnExit(c, s) = OnExit(c, s) /\ Rows!ExitReceded(c, s) = ExitReceded(c, s)
  <2>1. /\ Rows!ExitOutcome(s) = ExitOutcome(s) /\ (Rows!IsCompletion(c.obs) <=> IsCompletion(c.obs))
        /\ (Rows!ReplayOverIdle(c) <=> ReplayOverIdle(c))
    BY DEF Rows!ExitOutcome, ExitOutcome, Rows!IsCompletion, IsCompletion, Rows!Completions, Completions,
           Rows!ReplayOverIdle, ReplayOverIdle
  <2>2. Rows!ExitApplies(c, s) <=> ExitApplies(c, s)
    BY <2>1 DEF Rows!ExitApplies, ExitApplies, Rows!ReplayOverSame, ReplayOverSame
  <2> QED
    BY <1>1, <2>1, <2>2 DEF Rows!OnExit, OnExit, Rows!ExitReceded, ExitReceded
<1>5. ASSUME NEW c, NEW argv, NEW f, NEW inter, NEW extras
      PROVE  Rows!OnCommandChanged(c, argv, f, inter, extras) = OnCommandChanged(c, argv, f, inter, extras)
  <2>1. /\ Rows!MeansLeft(argv, f, inter) <=> MeansLeft(argv, f, inter)
        /\ Rows!KindAtIntake(argv, extras) = KindAtIntake(argv, extras)
    BY DEF Rows!MeansLeft, MeansLeft, Rows!KindAtIntake, KindAtIntake
  <2>2. CASE MeansLeft(argv, f, inter)
    <3> DEFINE d == [c EXCEPT !.pending = NoPending]
    <3>1. Rows!ArmTentativeDone(d) = ArmTentativeDone(d)
      BY <1>2
    <3> QED
      BY <1>1, <2>1, <2>2, <3>1 DEF Rows!OnCommandChanged, OnCommandChanged
  <2>3. CASE ~MeansLeft(argv, f, inter)
    <3>1. Rows!ArmTentativeDone(c) = ArmTentativeDone(c)
      BY <1>2
    <3> QED
      BY <1>1, <2>1, <2>3, <3>1 DEF Rows!OnCommandChanged, OnCommandChanged
  <2> QED
    BY <2>2, <2>3
<1> QED
  BY <1>1, <1>3, <1>4, <1>5

\* A tick that reports no change leaves the row, and any other leaves one.
LEMMA TimerRow ==
  ASSUME NEW c \in PaneRecords
  PROVE  /\ ~TimerChanged(c) => OnTimer(c).obs.status = c.obs.status /\ OnTimer(c).obs.msg = c.obs.msg
                                /\ OnTimer(c).obs.code = c.obs.code
         /\ TimerChanged(c) => OnTimer(c).obs.status # "absent"
<1> DEFINE aged == Aged(c)
           promoted == IF Promotes(aged) THEN Promote(aged) ELSE aged
           confirmed == IF ConfirmDue(promoted) THEN ConfirmDone(promoted) ELSE promoted
<1>1. /\ aged \in PaneRecords /\ promoted \in PaneRecords /\ confirmed \in PaneRecords
      /\ OnTimer(c) = IF Expires(confirmed) THEN Recede(confirmed) ELSE confirmed
      /\ TimerChanged(c) <=> \/ Promotes(aged) /\ promoted.obs # aged.obs
                             \/ ConfirmDue(promoted) /\ promoted.obs.status = "running"
                             \/ Expires(confirmed)
  BY AgedType, PromoteType, ConfirmDoneType DEF OnTimer, TimerChanged
<1>2. aged.obs.status = c.obs.status /\ aged.obs.msg = c.obs.msg /\ aged.obs.code = c.obs.code
  BY DEF Aged, PaneRecords, Observations
<1>3. Promotes(aged) => promoted.obs.status = "running"
  BY <1>1 DEF Promote, PaneRecords
<1>4. /\ ConfirmDue(promoted) /\ promoted.obs.status = "running" => confirmed.obs.status = "done"
      /\ ~(ConfirmDue(promoted) /\ promoted.obs.status = "running") => confirmed.obs = promoted.obs
  BY <1>1 DEF ConfirmDone, PaneRecords, Observations
<1>5. Expires(confirmed) => Recede(confirmed).obs.status = "idle"
  BY <1>1 DEF Recede, PaneRecords, Observations
<1>6. ~Promotes(aged) => promoted = aged
  OBVIOUS
<1> HIDE DEF aged, promoted, confirmed
<1> QED
  BY <1>1, <1>2, <1>3, <1>4, <1>5, <1>6

\* The command an instance heard start is neither confirmed nor expired.
LEMMA TimerUnderway ==
  ASSUME NEW c \in PaneRecords, Underway(c)
  PROVE  Underway(OnTimer(c))
<1> DEFINE aged == Aged(c)
           promoted == IF Promotes(aged) THEN Promote(aged) ELSE aged
           confirmed == IF ConfirmDue(promoted) THEN ConfirmDone(promoted) ELSE promoted
<1>1. /\ aged \in PaneRecords /\ promoted \in PaneRecords /\ confirmed \in PaneRecords
      /\ OnTimer(c) = IF Expires(confirmed) THEN Recede(confirmed) ELSE confirmed
  BY AgedType, PromoteType, ConfirmDoneType DEF OnTimer
<1>2. Underway(aged)
  BY DEF Underway, Aged, PaneRecords, Observations, Pendings
<1>3. /\ promoted.exited = "unseen"
      /\ \/ promoted.pending.state = "quiet"
         \/ promoted.leaving = Unarmed /\ (promoted.pending.state = "promotable" \/ promoted.obs.status = "running")
  BY <1>1, <1>2 DEF Underway, Promotes, Promote, PaneRecords, Pendings, Observations
<1> HIDE DEF promoted
<1>4. Underway(confirmed) /\ (confirmed.pending.state # "quiet" /\ confirmed.pending.state # "promotable"
                                => confirmed.obs.status = "running")
  BY <1>1, <1>3, CommandPaneAssumption DEF Underway, ConfirmDue, ConfirmDone, Unarmed, PaneRecords, Pendings, Observations
<1> HIDE DEF confirmed
<1> QED
  BY <1>1, <1>4 DEF Underway, Expires, Recede, PaneRecords, Observations

\* A failure stays until something else starts.
LEMMA TimerFailed ==
  ASSUME NEW c \in PaneRecords, NEW s, FailedBy(c, s)
  PROVE  FailedBy(OnTimer(c), s)
<1>1. Aged(c) \in PaneRecords /\ FailedBy(Aged(c), s)
  <2>1. Aged(c) \in PaneRecords
    BY AgedType
  <2>2. /\ Aged(c).exited = c.exited /\ Aged(c).obs.status = c.obs.status
        /\ Aged(c).pending.state = c.pending.state
        /\ c.leaving = Unarmed => Aged(c).leaving = Unarmed
    BY DEF Aged, PaneRecords, Observations, Pendings
  <2> QED
    BY <2>1, <2>2 DEF FailedBy
<1> DEFINE a == Aged(c)
<1> HIDE DEF a
<1>2. ~Promotes(a) /\ ~ConfirmDue(a) /\ ~Expires(a)
  BY <1>1, CommandPaneAssumption DEF FailedBy, Promotes, ConfirmDue, Expires, Unarmed, a
<1>3. OnTimer(c) = a
  BY <1>2 DEF OnTimer, a
<1> QED
  BY <1>1, <1>3 DEF a

\* A foreground command that starts is under way, whatever ran before.
LEMMA StartIsUnderway ==
  ASSUME NEW c \in PaneRecords, NEW argv \in Commands
  PROVE  Underway(OnCommandChanged(c, argv, TRUE, DefaultInteractive, {}))
<1>1. ~MeansLeft(argv, TRUE, DefaultInteractive) /\ argv # Blank
  BY CommandPaneAssumption DEF MeansLeft
<1> QED
  BY <1>1 DEF OnCommandChanged, Underway, ArmTentativeDone, PaneRecords, Pendings

\* A failure settles the row of the command it ends, and says so once.
LEMMA ExitFails ==
  ASSUME NEW c \in PaneRecords, NEW s \in FailCodes, Underway(c) \/ FailedBy(c, s)
  PROVE  FailedBy(OnExit(c, s), s)
<1>1. s # "unseen"
  BY CommandPaneAssumption
<1>2. CASE Underway(c)
  <2>1. ExitApplies(c, s)
    BY <1>1, <1>2 DEF Underway, ExitApplies, ReplayOverIdle, ReplayOverSame, ExitOutcome, PaneRecords, Pendings
  <2> QED
    BY <2>1 DEF OnExit, FailedBy, ExitOutcome, NoPending, PaneRecords
<1>3. CASE FailedBy(c, s)
  BY <1>3 DEF OnExit, ExitApplies, FailedBy, PaneRecords
<1> QED
  BY <1>2, <1>3

\* A session starts without a row and without a file.
LEMMA RowsInit == Rows!Init => RowsInv
<1> SUFFICES ASSUME Rows!Init PROVE RowsInv
  OBVIOUS
<1>1. /\ cmd = [i \in Instances |-> FreshPane] /\ loaded \in SUBSET Instances /\ loaded # {}
      /\ disk = NoObs /\ fg = NoCmd /\ held = "unseen" /\ knows = {} /\ heard = {}
  <2>1. Rows!FreshPane = FreshPane /\ Rows!NoObs = NoObs
    BY SameStore
  <2> QED
    BY <2>1 DEF Rows!Init
<1>2. FreshPane \in PaneRecords /\ NoObs \in Observations /\ FreshPane.obs = NoObs
  BY FreshPaneType DEF FreshPane, PaneRecords
<1>3. "unseen" \notin FailCodes
  BY CommandPaneAssumption
<1>4. RowsTyped
  BY <1>1, <1>2 DEF RowsTyped
<1>5. FileIsSomebodys
  BY <1>1, <1>2 DEF FileIsSomebodys, Rows!SameRow
<1> QED
  BY <1>1, <1>4, <1>5 DEF RowsInv, HeardToTheEnd

\* Every instance there has the command; it ends nobody's row yet.
LEMMA RowsCommandChanged ==
  ASSUME RowsInv, NEW argv \in Commands \cup Shells, Rows!CommandChanged(argv)
  PROVE  RowsInv'
<1> DEFINE started(c) == OnCommandChanged(c, argv, TRUE, DefaultInteractive, {})
<1>1. /\ argv \in Shells => ~holding
      /\ cmd' = [i \in Instances |-> IF i \in loaded THEN started(cmd[i]) ELSE cmd[i]]
      /\ fg' = IF argv \in Commands THEN argv ELSE NoCmd
      /\ held' = "unseen" /\ knows' = {} /\ heard' = loaded
      /\ loaded' = loaded /\ disk' = disk /\ holding' = holding
  BY SameStore DEF Rows!CommandChanged
<1>2. \A i \in Instances : cmd[i] \in PaneRecords /\ started(cmd[i]) \in PaneRecords
                           /\ started(cmd[i]).obs = cmd[i].obs
  <2>1. /\ argv \in Argv /\ TRUE \in BOOLEAN
        /\ DefaultInteractive \in SUBSET Commands /\ {} \in SUBSET Commands
    BY CommandPaneAssumption DEF Argv
  <2>2. \A i \in Instances : cmd[i] \in PaneRecords
    BY DEF RowsInv, RowsTyped
  <2>3. ASSUME NEW i \in Instances
        PROVE  /\ cmd[i] \in PaneRecords
               /\ OnCommandChanged(cmd[i], argv, TRUE, DefaultInteractive, {}) \in PaneRecords
               /\ OnCommandChanged(cmd[i], argv, TRUE, DefaultInteractive, {}).obs = cmd[i].obs
    <3>1. cmd[i] \in PaneRecords
      BY <2>2
    <3>2. OnCommandChanged(cmd[i], argv, TRUE, DefaultInteractive, {}) \in PaneRecords
      BY <2>1, <3>1, OnCommandChangedType
    <3>3. OnCommandChanged(cmd[i], argv, TRUE, DefaultInteractive, {}).obs = cmd[i].obs
      BY <3>1 DEF OnCommandChanged, ArmTentativeDone, PaneRecords
    <3> QED
      BY <3>1, <3>2, <3>3
  <2> QED
    BY <2>3
<1>3. \A i \in Instances : argv \in Commands => Underway(started(cmd[i]))
  BY StartIsUnderway DEF RowsInv, RowsTyped
<1> HIDE DEF started
<1>4. RowsTyped'
  BY <1>1, <1>2 DEF RowsInv, RowsTyped
<1>5. \A i \in Instances : cmd'[i].obs = cmd[i].obs
  BY <1>1, <1>2
<1>6. FileIsSomebodys'
  BY <1>1, <1>5 DEF RowsInv, RowsTyped, FileIsSomebodys, Rows!SameRow
<1>7. HeardToTheEnd'
  BY <1>1, <1>3 DEF RowsInv, RowsTyped, HeardToTheEnd
<1> QED
  BY <1>4, <1>6, <1>7 DEF RowsInv

\* An exit is heard of by nobody yet.
LEMMA RowsCommandExits ==
  ASSUME RowsInv, NEW status \in ExitStatuses, Rows!CommandExits(status)
  PROVE  RowsInv'
<1>1. /\ holding /\ fg # NoCmd /\ fg' = NoCmd /\ held' = status
      /\ cmd' = cmd /\ loaded' = loaded /\ disk' = disk /\ holding' = holding
      /\ knows' = knows /\ heard' = heard
  BY DEF Rows!CommandExits
<1>2. knows = {} /\ status # "unseen"
  BY <1>1, CommandPaneAssumption DEF RowsInv, RowsTyped, ExitStatuses
<1> QED
  BY <1>1, <1>2 DEF RowsInv, RowsTyped, FileIsSomebodys, HeardToTheEnd, Rows!SameRow

\* A manifest tells an instance of a held pane's exit, and settles its row.
LEMMA RowsManifest ==
  ASSUME RowsInv, NEW i \in Instances, Rows!Manifest(i)
  PROVE  RowsInv'
<1> DEFINE left == OnExit(cmd[i], held)
<1>1. /\ i \in loaded /\ held # "unseen" /\ cmd' = [cmd EXCEPT ![i] = left]
      /\ disk' = (IF ExitReceded(cmd[i], held) # {} THEN Rows!Persisted(cmd'[i].obs) ELSE disk)
      /\ knows' = knows \cup {i} /\ loaded' = loaded
      /\ holding' = holding /\ fg' = fg /\ held' = held /\ heard' = heard
  <2>1. /\ Rows!OnExit(cmd[i], held) = left
        /\ Rows!ExitReceded(cmd[i], held) = ExitReceded(cmd[i], held)
    BY SameStore
  <2> HIDE DEF left
  <2> QED
    BY <2>1 DEF Rows!Manifest, Rows!environment
<1>2. holding /\ held \in ExitStatuses /\ left \in PaneRecords /\ cmd[i] \in PaneRecords
  BY <1>1, OnExitType DEF RowsInv, RowsTyped
<1>3. cmd'[i] = left /\ \A j \in Instances \ {i} : cmd'[j] = cmd[j]
  BY <1>1 DEF RowsInv, RowsTyped
<1>4. i \in heard /\ held \in FailCodes => FailedBy(left, held)
  BY <1>2, ExitFails DEF RowsInv, HeardToTheEnd
<1>5. disk' \in Observations
  BY <1>1, <1>2, <1>3 DEF Rows!Persisted, RowsInv, RowsTyped, PaneRecords
<1> HIDE DEF left
<1>6. RowsTyped'
  BY <1>1, <1>2, <1>3, <1>5 DEF RowsInv, RowsTyped
<1>7. HeardToTheEnd'
  BY <1>1, <1>3, <1>4 DEF RowsInv, RowsTyped, HeardToTheEnd
<1> QED
  BY <1>1, <1>2, <1>6, <1>7 DEF RowsInv, FileIsSomebodys

\* A timer's edge is written, and what is not written is not seen.
LEMMA RowsTimer ==
  ASSUME RowsInv, NEW i \in Instances, Rows!Timer(i)
  PROVE  RowsInv'
<1> DEFINE ticked == OnTimer(cmd[i])
<1>1. /\ i \in loaded /\ cmd' = [cmd EXCEPT ![i] = ticked]
      /\ disk' = (IF TimerChanged(cmd[i]) THEN Rows!Persisted(cmd'[i].obs) ELSE disk)
      /\ loaded' = loaded /\ holding' = holding /\ fg' = fg /\ held' = held
      /\ heard' = heard /\ knows' = knows
  <2>1. Rows!OnTimer(cmd[i]) = ticked /\ (Rows!TimerChanged(cmd[i]) <=> TimerChanged(cmd[i]))
    BY SameStore
  <2> HIDE DEF ticked
  <2> QED
    BY <2>1 DEF Rows!Timer, Rows!environment
<1>2. ticked \in PaneRecords /\ cmd[i] \in PaneRecords
  BY OnTimerType DEF RowsInv, RowsTyped
<1>3. cmd'[i] = ticked /\ \A j \in Instances \ {i} : cmd'[j] = cmd[j]
  BY <1>1 DEF RowsInv, RowsTyped
<1>4. /\ ~TimerChanged(cmd[i]) => Rows!SameRow(ticked.obs, cmd[i].obs)
      /\ TimerChanged(cmd[i]) => ticked.obs.status # "absent"
  BY <1>2, TimerRow DEF Rows!SameRow
<1>5. /\ Underway(cmd[i]) => Underway(ticked)
      /\ \A s : FailedBy(cmd[i], s) => FailedBy(ticked, s)
  BY <1>2, TimerUnderway, TimerFailed
<1>6. ticked.obs \in Observations
  BY <1>2 DEF PaneRecords
<1> HIDE DEF ticked
<1>7. /\ TimerChanged(cmd[i]) => disk' = ticked.obs
      /\ ~TimerChanged(cmd[i]) => disk' = disk
  BY <1>1, <1>3, <1>4 DEF Rows!Persisted
<1>8. RowsTyped'
  BY <1>1, <1>2, <1>3, <1>6, <1>7 DEF RowsInv, RowsTyped
<1>9. FileIsSomebodys'
  <2> SUFFICES ASSUME ~holding PROVE \E w \in loaded : Rows!SameRow(cmd'[w].obs, disk')
    BY <1>1 DEF FileIsSomebodys, Rows!SameRow
  <2>1. CASE TimerChanged(cmd[i])
    BY <1>1, <1>3, <1>7, <2>1 DEF Rows!SameRow
  <2>2. CASE ~TimerChanged(cmd[i])
    <3>1. PICK w \in loaded : Rows!SameRow(cmd[w].obs, disk)
      BY DEF RowsInv, FileIsSomebodys
    <3>2. w \in Instances
      BY DEF RowsInv, RowsTyped
    <3> QED
      BY <1>3, <1>4, <1>7, <2>2, <3>1, <3>2 DEF Rows!SameRow
  <2> QED
    BY <2>1, <2>2
<1>10. HeardToTheEnd'
  BY <1>1, <1>3, <1>5 DEF RowsInv, RowsTyped, HeardToTheEnd
<1> QED
  BY <1>8, <1>9, <1>10 DEF RowsInv

\* A write for another pane shows what its writer shows.
LEMMA RowsWrite ==
  ASSUME RowsInv, NEW i \in Instances, Rows!WriteForOtherPane(i)
  PROVE  RowsInv'
<1>1. /\ i \in loaded /\ disk' = Rows!Persisted(cmd[i].obs)
      /\ cmd' = cmd /\ loaded' = loaded /\ holding' = holding /\ fg' = fg /\ held' = held
      /\ heard' = heard /\ knows' = knows
  BY DEF Rows!WriteForOtherPane, Rows!environment
<1>2. disk' = disk \/ disk' = cmd[i].obs
  BY <1>1 DEF Rows!Persisted
<1>3. cmd[i].obs \in Observations
  BY DEF RowsInv, RowsTyped, PaneRecords
<1> QED
  BY <1>1, <1>2, <1>3 DEF RowsInv, RowsTyped, FileIsSomebodys, HeardToTheEnd, Rows!SameRow

\* Who loads shows the file, and heard of nothing.
LEMMA RowsLoad ==
  ASSUME RowsInv, NEW i \in Instances, Rows!Load(i)
  PROVE  RowsInv'
<1> DEFINE seed == [disk EXCEPT !.age = IF disk.status = "done" THEN 0 ELSE @]
           fresh == [FreshPane EXCEPT !.obs = seed]
<1>1. /\ i \notin loaded /\ loaded' = loaded \cup {i} /\ cmd' = [cmd EXCEPT ![i] = fresh]
      /\ disk' = disk /\ holding' = holding /\ fg' = fg /\ held' = held
      /\ heard' = heard /\ knows' = knows
  BY SameStore DEF Rows!Load, Rows!environment
<1>2. seed \in Observations
  BY EarlyAge DEF RowsInv, RowsTyped, Observations
<1> HIDE DEF seed
<1>3. fresh \in PaneRecords
  BY <1>2, FreshPaneType DEF PaneRecords
<1> HIDE DEF fresh
<1>4. cmd'[i] = fresh /\ \A j \in Instances \ {i} : cmd'[j] = cmd[j]
  BY <1>1 DEF RowsInv, RowsTyped
<1>5. RowsTyped'
  BY <1>1, <1>3, <1>4 DEF RowsInv, RowsTyped
<1>6. FileIsSomebodys'
  BY <1>1, <1>4 DEF RowsInv, RowsTyped, FileIsSomebodys, Rows!SameRow
<1>7. HeardToTheEnd'
  BY <1>1, <1>4 DEF RowsInv, RowsTyped, HeardToTheEnd
<1> QED
  BY <1>5, <1>6, <1>7 DEF RowsInv

\* Every step of the rows, or of the rings.
LEMMA RowsMove == RowsInv /\ [FileNext]_fileVars => RowsInv'
<1> SUFFICES ASSUME RowsInv, [FileNext]_fileVars PROVE RowsInv'
  OBVIOUS
<1>1. CASE UNCHANGED rows
  BY <1>1 DEF rows, RowsInv, RowsTyped, FileIsSomebodys, HeardToTheEnd, Rows!SameRow
<1>2. CASE Rows!Next
  BY <1>2, RowsCommandChanged, RowsCommandExits, RowsManifest, RowsTimer, RowsWrite, RowsLoad, SameStore
     DEF Rows!Next
<1> QED
  BY <1>1, <1>2 DEF FileNext, RingStep, RowsStep, fileVars

\* The file shows what one of the loaded instances shows, and a failure stays
\* with everyone who heard the command start.
THEOREM RowsCorrect == FileSpec => []RowsInv
<1>1. FileInit => RowsInv
  BY RowsInit DEF FileInit
<1> QED
  BY <1>1, RowsMove, PTL DEF FileSpec

\* Instances that agree and are settled agree with the file, and every instance
\* that heard a held pane's command start shows its failure.
THEOREM InstancesAgreeCorrect == FileSpec => []InstancesAgree
<1>1. RowsInv => SnapshotCatchesUp
  <2> SUFFICES ASSUME RowsInv, ~holding,
                      \A i, j \in loaded : Rows!SameRow(cmd[i].obs, cmd[j].obs),
                      NEW i \in loaded
               PROVE  Rows!SameRow(cmd[i].obs, disk)
    BY DEF SnapshotCatchesUp, Rows!SnapshotCatchesUp
  <2>1. PICK w \in loaded : Rows!SameRow(cmd[w].obs, disk)
    BY DEF RowsInv, FileIsSomebodys
  <2> QED
    BY <2>1 DEF Rows!SameRow
<1>2. RowsInv => FailureIsShownByAll
  BY DEF RowsInv, HeardToTheEnd, FailedBy, FailureIsShownByAll, Rows!FailureIsShownByAll
<1> QED
  BY RowsCorrect, <1>1, <1>2, PTL DEF InstancesAgree

-----------------------------------------------------------------------------
(* The completion ledger.  First least numbers and iteration.              *)

\* A set of numbers has a least: otherwise the counts of those below each, of
\* which no two are equal, do not fit.
LEMMA Least ==
  ASSUME NEW n \in Nat, NEW S \in SUBSET (0..n), S # {}
  PROVE  \E x \in S : \A y \in S : x <= y
<1> DEFINE Below(x) == {y \in S : y < x}
           c == Cardinality(S)
           count == [x \in S |-> Cardinality(Below(x))]
<1>0. IsFiniteSet(S)
  <2>1. IsFiniteSet(0..n)
    BY FS_Interval
  <2> QED
    BY <2>1, FS_Subset
<1>1. c \in Nat
  BY <1>0, FS_CardinalityType
<1>2. ASSUME NEW x \in S
      PROVE  IsFiniteSet(Below(x)) /\ Cardinality(Below(x)) \in 0 .. c - 1
  <2>1. Below(x) \in SUBSET S /\ Below(x) # S
    BY DEF Below
  <2> HIDE DEF Below
  <2>2. IsFiniteSet(Below(x)) /\ Cardinality(Below(x)) <= c /\ Cardinality(Below(x)) # c
    BY <1>0, <2>1, FS_Subset
  <2>3. Cardinality(Below(x)) \in Nat
    BY <2>2, FS_CardinalityType
  <2> QED
    BY <1>1, <2>2, <2>3
<1>3. ASSUME NEW x \in S, NEW y \in S, y < x
      PROVE  Cardinality(Below(y)) # Cardinality(Below(x))
  <2>1. S \subseteq Int
    OBVIOUS
  <2>2. \A z \in S : z < y => z < x
    BY <1>3, <2>1
  <2>3. ~(y < y)
    BY <2>1
  <2>4. Below(y) \in SUBSET Below(x) /\ Below(y) # Below(x)
    <3>1. Below(y) \in SUBSET Below(x)
      BY <2>2
    <3>2. y \in Below(x) /\ y \notin Below(y)
      BY <1>3, <2>3
    <3> QED
      BY <3>1, <3>2
  <2> HIDE DEF Below
  <2> QED
    BY <1>2, <2>4, FS_Subset
<1> SUFFICES ASSUME \A x \in S : \E y \in S : y < x PROVE FALSE
  OBVIOUS
<1>4. ASSUME NEW x \in S PROVE count[x] \in 1 .. c - 1
  <2>1. Below(x) # {}
    BY DEF Below
  <2> HIDE DEF Below
  <2>2. Cardinality(Below(x)) # 0
    BY <1>2, <2>1, FS_EmptySet
  <2> QED
    BY <1>1, <1>2, <2>2
<1> HIDE DEF Below
<1>5. count \in [S -> 1 .. c - 1]
  BY <1>4
<1>6. IsFiniteSet(1 .. c - 1) /\ Cardinality(1 .. c - 1) < c
  <2>1. c # 0
    BY <1>0, FS_EmptySet
  <2> HIDE DEF c
  <2>2. 1 \in Int /\ c - 1 \in Int
    BY <1>1
  <2>3. IsFiniteSet(1 .. c - 1) /\ Cardinality(1 .. c - 1) = IF 1 > c - 1 THEN 0 ELSE (c - 1) - 1 + 1
    BY <2>2, FS_Interval
  <2> QED
    BY <1>1, <2>1, <2>3
<1>7. PICK x \in S, y \in S : x # y /\ count[x] = count[y]
  <2> DEFINE T == 1 .. c - 1
  <2>1. count \in [S -> T] /\ IsFiniteSet(T) /\ Cardinality(T) < Cardinality(S)
    BY <1>5, <1>6
  <2> HIDE DEF count, T
  <2> QED
    BY <1>0, <2>1, FS_PigeonHole
<1> QED
  BY <1>3, <1>7

\* A set of numbers that has 0, and with each the next, has them all.
LEMMA Reach ==
  ASSUME NEW n \in Nat, NEW S, 0 \in S, \A k \in 0 .. n - 1 : k \in S => k + 1 \in S
  PROVE  0 .. n \subseteq S
<1> DEFINE M == {k \in 0 .. n : k \notin S}
<1> SUFFICES ASSUME M # {} PROVE FALSE
  OBVIOUS
<1>1. PICK x \in M : \A y \in M : x <= y
  BY Least
<1>2. x \in 0 .. n /\ x # 0 /\ x - 1 \in 0 .. n - 1 /\ x - 1 \notin M
  BY <1>1
<1> QED
  BY <1>1, <1>2

\* g iterates F from base.
Unfolds(g, n, base, F) == g[0] = base /\ \A m \in 1 .. n : g[m] = F[m][g[m - 1]]

\* A function given by its value at 0 and a step is the function it says it is.
LEMMA Iterates ==
  ASSUME NEW n \in Nat, NEW X, NEW base \in X, NEW F \in [1 .. n -> [X -> X]]
  PROVE  \E g \in [0 .. n -> X] : Unfolds(g, n, base, F)
<1> DEFINE Upto(k, g) == g[0] = base /\ \A m \in 1 .. k : g[m] = F[m][g[m - 1]]
           S == {k \in 0 .. n : \E g \in [0 .. n -> X] : Upto(k, g)}
<1>1. 0 \in S
  <2> DEFINE g == [m \in 0 .. n |-> base]
  <2>1. g \in [0 .. n -> X] /\ Upto(0, g)
    OBVIOUS
  <2>2. 0 \in 0 .. n
    OBVIOUS
  <2> HIDE DEF g, Upto
  <2> QED
    BY <2>1, <2>2
<1>2. ASSUME NEW k \in 0 .. n - 1, k \in S PROVE k + 1 \in S
  <2>1. PICK g \in [0 .. n -> X] : Upto(k, g)
    BY <1>2
  <2> DEFINE h == [m \in 0 .. n |-> IF m = k + 1 THEN F[k + 1][g[k]] ELSE g[m]]
  <2>2. g[k] \in X /\ k + 1 \in 1 .. n /\ F[k + 1][g[k]] \in X
    OBVIOUS
  <2>3. h \in [0 .. n -> X]
    BY <2>2
  <2>4. ASSUME NEW m \in 1 .. k + 1 PROVE h[m] = F[m][h[m - 1]]
    <3>1. m \in 0 .. n /\ m - 1 \in 0 .. n /\ m - 1 # k + 1
      OBVIOUS
    <3>2. CASE m = k + 1
      BY <3>1, <3>2
    <3>3. CASE m # k + 1
      <4>1. m \in 1 .. k
        BY <3>3
      <4> QED
        BY <2>1, <3>1, <3>3, <4>1
    <3> QED
      BY <3>2, <3>3
  <2>5. h[0] = base
    BY <2>1
  <2> HIDE DEF h
  <2>6. Upto(k + 1, h)
    BY <2>4, <2>5
  <2> QED
    BY <2>3, <2>6
<1>3. n \in S
  <2> HIDE DEF S
  <2>1. \A k \in 0 .. n - 1 : k \in S => k + 1 \in S
    BY <1>2
  <2>2. 0 .. n \subseteq S
    BY <1>1, <2>1, Reach
  <2> QED
    BY <2>2
<1> QED
  BY <1>3 DEF Unfolds

-----------------------------------------------------------------------------
(* Sorting                                                                 *)

Descends(s) == \A i, j \in DOMAIN s : i < j => s[i].at >= s[j].at

\* No two entries of one event.
Apart(s) == \A i, j \in DOMAIN s : i # j => ~Ring!IsSameEvent(s[i], s[j])

Sorted == {s \in Seq(Ring!Entries) : Descends(s)}

\* What is so of every ring.
LEMMA RingFacts ==
  ASSUME Ring!LedgerAssumption, NEW s \in Seq(Ring!Entries)
  PROVE  /\ Len(s) \in Nat /\ DOMAIN s = 1 .. Len(s)
         /\ \A i \in 1 .. Len(s) : s[i] \in Ring!Entries /\ s[i].at \in Nat /\ s[i].at <= MaxNow
<1>1. Len(s) \in Nat /\ DOMAIN s = 1 .. Len(s) /\ \A i \in 1 .. Len(s) : s[i] \in Ring!Entries
  BY LenProperties
<1>2. \A e \in Ring!Entries : e.at \in Nat /\ e.at <= MaxNow
  BY DEF Ring!Entries, Ring!LedgerAssumption
<1> QED
  BY <1>1, <1>2

\* Two entries are of one event either way round, and each is of its own.
LEMMA SameIsSymmetric ==
  ASSUME Ring!LedgerAssumption, NEW a \in Ring!Entries, NEW b \in Ring!Entries
  PROVE  /\ Ring!IsSameEvent(a, b) <=> Ring!IsSameEvent(b, a)
         /\ Ring!IsSameEvent(a, a)
  BY DEF Ring!IsSameEvent, Ring!Distance, Ring!Entries, Ring!LedgerAssumption

\* A descending sequence has a place for any entry.
LEMMA Place ==
  ASSUME Ring!LedgerAssumption, NEW s \in Sorted, NEW e \in Ring!Entries
  PROVE  \E n \in 0 .. Len(s) :
            /\ \A i \in 1 .. n : s[i].at >= e.at
            /\ \A i \in (n + 1) .. Len(s) : s[i].at < e.at
<1> DEFINE M == {n \in 0 .. Len(s) : \A i \in (n + 1) .. Len(s) : s[i].at < e.at}
<1>1. /\ s \in Seq(Ring!Entries) /\ Len(s) \in Nat /\ DOMAIN s = 1 .. Len(s)
      /\ \A i \in 1 .. Len(s) : s[i] \in Ring!Entries /\ s[i].at \in Nat
      /\ e.at \in Nat
  <2>1. s \in Seq(Ring!Entries)
    BY DEF Sorted
  <2>2. e.at \in Nat
    BY DEF Ring!Entries, Ring!LedgerAssumption
  <2> QED
    BY <2>1, <2>2, RingFacts
<1>2. Len(s) \in M
  BY <1>1
<1>3. PICK n \in M : \A k \in M : n <= k
  BY <1>1, <1>2, Least
<1>4. ASSUME NEW i \in 1 .. n PROVE s[i].at >= e.at
  <2>1. i \in 1 .. Len(s) /\ i - 1 \in 0 .. Len(s) /\ ~(n <= i - 1)
    BY <1>1
  <2>2. PICK j \in i .. Len(s) : ~(s[j].at < e.at)
    BY <1>3, <2>1
  <2>3. s[i].at >= s[j].at
    <3>1. i = j \/ i < j
      BY <2>1, <2>2
    <3> QED
      BY <1>1, <2>1, <2>2, <3>1 DEF Sorted, Descends
  <2> QED
    BY <1>1, <2>1, <2>2, <2>3
<1> QED
  BY <1>4

\* What `Ring!Placed' makes of a descending sequence.
LEMMA Placing ==
  ASSUME Ring!LedgerAssumption, NEW s \in Sorted, NEW e \in Ring!Entries
  PROVE  /\ Ring!Placed(s, e) \in Sorted
         /\ Len(Ring!Placed(s, e)) = Len(s) + 1
         /\ Ring!Lines(Ring!Placed(s, e)) = Ring!Lines(s) \cup {e}
         /\ Apart(s) /\ ~Ring!Holds(s, e) => Apart(Ring!Placed(s, e))
<1> DEFINE place == CHOOSE n \in 0 .. Len(s) :
                      /\ \A i \in 1 .. n : s[i].at >= e.at
                      /\ \A i \in (n + 1) .. Len(s) : s[i].at < e.at
           front == SubSeq(s, 1, place)
           back == SubSeq(s, place + 1, Len(s))
           t == front \o <<e>> \o back
           Old(i) == IF i <= place THEN i ELSE i - 1
<1>1. /\ s \in Seq(Ring!Entries) /\ Len(s) \in Nat /\ DOMAIN s = 1 .. Len(s)
      /\ \A i \in 1 .. Len(s) : s[i] \in Ring!Entries /\ s[i].at \in Nat
      /\ e.at \in Nat
  <2>1. s \in Seq(Ring!Entries)
    BY DEF Sorted
  <2>2. e.at \in Nat
    BY DEF Ring!Entries, Ring!LedgerAssumption
  <2> QED
    BY <2>1, <2>2, RingFacts
<1>2. /\ place \in 0 .. Len(s)
      /\ \A i \in 1 .. place : s[i].at >= e.at
      /\ \A i \in (place + 1) .. Len(s) : s[i].at < e.at
  BY Place
<1>3. Ring!Placed(s, e) = t
  BY DEF Ring!Placed
<1> HIDE DEF place
<1>4. /\ front \in Seq(Ring!Entries) /\ Len(front) = place
      /\ \A i \in 1 .. place : front[i] = s[i]
  BY <1>1, <1>2
<1>5. /\ back \in Seq(Ring!Entries) /\ Len(back) = Len(s) - place
      /\ \A i \in 1 .. Len(s) - place : back[i] = s[place + i]
  <2>1. /\ place + 1 \in Int /\ Len(s) \in Int /\ Len(s) - (place + 1) + 1 = Len(s) - place
        /\ \A i \in 1 .. Len(s) - place : place + 1 + i - 1 = place + i
        /\ (IF place + 1 <= Len(s) THEN Len(s) - (place + 1) + 1 ELSE 0) = Len(s) - place
        /\ \A i \in place + 1 .. Len(s) : s[i] \in Ring!Entries
    <3>1. place \in Int /\ Len(s) \in Int /\ 0 <= place /\ place <= Len(s)
      BY <1>1, <1>2
    <3>2. \A i \in place + 1 .. Len(s) : i \in 1 .. Len(s)
      BY <3>1
    <3>3. \A i \in place + 1 .. Len(s) : s[i] \in Ring!Entries
      BY <1>1, <3>2
    <3> QED
      BY <3>1, <3>3
  <2>2. /\ back \in Seq(Ring!Entries)
        /\ Len(back) = IF place + 1 <= Len(s) THEN Len(s) - (place + 1) + 1 ELSE 0
        /\ \A i \in 1 .. Len(s) - (place + 1) + 1 : back[i] = s[place + 1 + i - 1]
    BY <2>1, SubSeqProperties
  <2> QED
    BY <2>1, <2>2
<1> HIDE DEF front, back
<1>6. /\ t \in Seq(Ring!Entries) /\ Len(t) = Len(s) + 1 /\ DOMAIN t = 1 .. Len(s) + 1
      /\ t[place + 1] = e
      /\ \A i \in 1 .. Len(s) + 1 : i # place + 1 => t[i] = s[Old(i)]
  <2> DEFINE top == front \o <<e>>
  <2>1. <<e>> \in Seq(Ring!Entries) /\ Len(<<e>>) = 1 /\ <<e>>[1] = e
    OBVIOUS
  <2>2. /\ top \in Seq(Ring!Entries) /\ Len(top) = place + 1
        /\ \A i \in 1 .. place + 1 : top[i] = IF i <= place THEN s[i] ELSE e
    <3>1. /\ top \in Seq(Ring!Entries) /\ Len(top) = place + 1
          /\ \A i \in 1 .. place + 1 : top[i] = IF i <= place THEN front[i] ELSE <<e>>[i - place]
      BY <1>4, <2>1, ConcatProperties
    <3>2. \A i \in 1 .. place + 1 : ~(i <= place) => i - place = 1
      BY <1>2
    <3>3. \A i \in 1 .. place + 1 : i <= place => i \in 1 .. place
      BY <1>2
    <3> HIDE DEF top
    <3> QED
      BY <1>4, <2>1, <3>1, <3>2, <3>3
  <2> HIDE DEF top
  <2>3. /\ t \in Seq(Ring!Entries) /\ Len(t) = place + 1 + (Len(s) - place)
        /\ \A i \in 1 .. place + 1 + (Len(s) - place) :
             t[i] = IF i <= place + 1 THEN top[i] ELSE back[i - (place + 1)]
    BY <1>5, <2>2, ConcatProperties DEF top
  <2>4. place + 1 + (Len(s) - place) = Len(s) + 1
    BY <1>1, <1>2
  <2> HIDE DEF t
  <2>5. ASSUME NEW i \in 1 .. Len(s) + 1, i # place + 1 PROVE t[i] = s[Old(i)]
    <3>1. CASE i <= place
      <4>1. i \in 1 .. place + 1 /\ i <= place + 1 /\ Old(i) = i
        BY <1>1, <1>2, <3>1
      <4>2. top[i] = s[i]
        BY <2>2, <3>1, <4>1
      <4> HIDE DEF Old
      <4> QED
        BY <2>3, <2>4, <4>1, <4>2
    <3>2. CASE ~(i <= place)
      <4>1. /\ ~(i <= place + 1) /\ i - (place + 1) \in 1 .. Len(s) - place
            /\ place + (i - (place + 1)) = i - 1
        BY <1>1, <1>2, <2>5, <3>2
      <4> QED
        BY <1>5, <2>3, <2>4, <3>2, <4>1
    <3> QED
      BY <3>1, <3>2
  <2>6. t[place + 1] = e
    BY <1>1, <1>2, <2>2, <2>3, <2>4
  <2> QED
    BY <2>3, <2>4, <2>5, <2>6, LenProperties
<1> HIDE DEF t
<1>7. \A i \in 1 .. Len(s) + 1 : i # place + 1 => Old(i) \in 1 .. Len(s)
  BY <1>1, <1>2
<1>8. Ring!Lines(t) = Ring!Lines(s) \cup {e}
  <2>1. ASSUME NEW i \in 1 .. Len(s) PROVE \E j \in 1 .. Len(s) + 1 : t[j] = s[i]
    <3>1. CASE i <= place
      BY <1>1, <1>2, <1>6, <3>1
    <3>2. CASE ~(i <= place)
      <4>1. i + 1 \in 1 .. Len(s) + 1 /\ i + 1 # place + 1 /\ Old(i + 1) = i
        BY <1>1, <1>2, <3>2
      <4> QED
        BY <1>6, <4>1
    <3> QED
      BY <3>1, <3>2
  <2>2. place + 1 \in 1 .. Len(s) + 1
    BY <1>1, <1>2
  <2> HIDE DEF Old
  <2>3. Ring!Lines(s) = {s[i] : i \in 1 .. Len(s)} /\ Ring!Lines(t) = {t[i] : i \in 1 .. Len(s) + 1}
    BY <1>1, <1>6 DEF Ring!Lines
  <2>4. ASSUME NEW i \in 1 .. Len(s) + 1 PROVE t[i] \in Ring!Lines(s) \cup {e}
    BY <1>6, <1>7, <2>3, <2>4
  <2> QED
    BY <1>6, <2>1, <2>2, <2>3, <2>4
<1>9. Descends(t)
  <2> SUFFICES ASSUME NEW i \in 1 .. Len(s) + 1, NEW j \in 1 .. Len(s) + 1, i < j
               PROVE  t[i].at >= t[j].at
    BY <1>6 DEF Descends
  <2>1. CASE i = place + 1
    <3>1. Old(j) \in (place + 1) .. Len(s) /\ Old(j) \in 1 .. Len(s) /\ j # place + 1
      BY <1>1, <1>2, <2>1
    <3>2. t[j] = s[Old(j)] /\ t[i] = e
      BY <1>6, <2>1, <3>1
    <3> HIDE DEF Old
    <3> QED
      BY <1>1, <1>2, <3>1, <3>2
  <2>2. CASE j = place + 1
    <3>1. Old(i) \in 1 .. place /\ i # place + 1
      BY <1>1, <1>2, <2>2
    <3> QED
      BY <1>1, <1>2, <1>6, <2>2, <3>1
  <2>3. CASE i # place + 1 /\ j # place + 1
    <3>1. Old(i) < Old(j) /\ Old(i) \in 1 .. Len(s) /\ Old(j) \in 1 .. Len(s)
      BY <1>1, <1>2, <1>7, <2>3
    <3> QED
      BY <1>1, <1>6, <2>3, <3>1 DEF Sorted, Descends
  <2> QED
    BY <2>1, <2>2, <2>3
<1>10. ASSUME Apart(s), ~Ring!Holds(s, e) PROVE Apart(t)
  <2> SUFFICES ASSUME NEW i \in 1 .. Len(s) + 1, NEW j \in 1 .. Len(s) + 1, i # j
               PROVE  ~Ring!IsSameEvent(t[i], t[j])
    BY <1>6 DEF Apart
  <2>1. \A k \in 1 .. Len(s) : ~Ring!IsSameEvent(s[k], e) /\ ~Ring!IsSameEvent(e, s[k])
    BY <1>1, <1>10, SameIsSymmetric DEF Ring!Holds
  <2>2. CASE i = place + 1
    BY <1>6, <1>7, <2>1, <2>2
  <2>3. CASE j = place + 1
    BY <1>6, <1>7, <2>1, <2>3
  <2>4. CASE i # place + 1 /\ j # place + 1
    <3>1. Old(i) # Old(j) /\ Old(i) \in 1 .. Len(s) /\ Old(j) \in 1 .. Len(s)
      BY <1>1, <1>2, <1>7, <2>4
    <3>2. t[i] = s[Old(i)] /\ t[j] = s[Old(j)]
      BY <1>6, <2>4
    <3> HIDE DEF Old
    <3> QED
      BY <1>1, <1>10, <3>1, <3>2 DEF Apart
  <2> QED
    BY <2>2, <2>3, <2>4
<1> QED
  BY <1>3, <1>6, <1>8, <1>9, <1>10 DEF Sorted

\* What the sort makes of any ring.
LEMMA NewestFirstFacts ==
  ASSUME Ring!LedgerAssumption, NEW es \in Seq(Ring!Entries)
  PROVE  /\ Ring!NewestFirst(es) \in Sorted
         /\ Len(Ring!NewestFirst(es)) = Len(es)
         /\ Ring!Lines(Ring!NewestFirst(es)) = Ring!Lines(es)
         /\ Apart(es) => Apart(Ring!NewestFirst(es))
<1> DEFINE n == Len(es)
           sorted[m \in 0 .. Len(es)] == IF m = 0 THEN <<>> ELSE Ring!Placed(sorted[m - 1], es[m])
           F == [m \in 1 .. n |-> [s \in Sorted |-> Ring!Placed(s, es[m])]]
           Upto(m) == {es[i] : i \in 1 .. m}
           Good == {m \in 0 .. n : /\ sorted[m] \in Sorted
                                   /\ Len(sorted[m]) = m
                                   /\ Ring!Lines(sorted[m]) = Upto(m)
                                   /\ Apart(es) => Apart(sorted[m])}
<1>1. n \in Nat /\ DOMAIN es = 1 .. n /\ \A i \in 1 .. n : es[i] \in Ring!Entries
  BY RingFacts
<1>2. Ring!NewestFirst(es) = sorted[n]
  BY DEF Ring!NewestFirst
<1>3. <<>> \in Sorted
  BY DEF Sorted, Descends
<1>4. F \in [1 .. n -> [Sorted -> Sorted]]
  BY <1>1, Placing
<1>5. sorted = [m \in 0 .. n |-> IF m = 0 THEN <<>> ELSE Ring!Placed(sorted[m - 1], es[m])]
  <2> DEFINE none == <<>>
             X == Sorted
  <2>1. PICK g \in [0 .. n -> X] : Unfolds(g, n, none, F)
    <3>1. none \in X /\ F \in [1 .. n -> [X -> X]]
      BY <1>3, <1>4
    <3>2. n \in Nat
      BY <1>1
    <3> HIDE DEF F, n, X, none
    <3> QED
      BY <3>1, <3>2, Iterates
  <2>2. ASSUME NEW m \in 0 .. n
        PROVE  g[m] = IF m = 0 THEN <<>> ELSE Ring!Placed(g[m - 1], es[m])
    <3>1. m # 0 => m \in 1 .. n /\ m - 1 \in 0 .. n
      BY <1>1
    <3>2. \A k \in 1 .. n, s \in X : F[k][s] = Ring!Placed(s, es[k])
      OBVIOUS
    <3> HIDE DEF F, X
    <3> QED
      BY <2>1, <3>1, <3>2 DEF Unfolds
  <2>3. g = [m \in 0 .. n |-> IF m = 0 THEN <<>> ELSE Ring!Placed(g[m - 1], es[m])]
    <3> HIDE DEF F, n
    <3> QED
      BY <2>1, <2>2
  <2> QED
    BY <2>3
<1> HIDE DEF sorted
<1>6. 0 \in Good
  <2>1. sorted[0] = <<>>
    BY <1>1, <1>5
  <2>2. Upto(0) = {} /\ Ring!Lines(<<>>) = {} /\ Apart(<<>>) /\ Len(<<>>) = 0
    BY DEF Ring!Lines, Apart
  <2>3. 0 \in 0 .. n
    BY <1>1
  <2> HIDE DEF Upto, n
  <2> QED
    BY <1>3, <2>1, <2>2, <2>3
<1>7. ASSUME NEW m \in 0 .. n - 1, m \in Good PROVE m + 1 \in Good
  <2> DEFINE s == sorted[m]
             e == es[m + 1]
  <2>1. m + 1 \in 0 .. n /\ m + 1 \in 1 .. n /\ m + 1 # 0 /\ (m + 1) - 1 = m
    BY <1>1
  <2>2. sorted[m + 1] = Ring!Placed(s, e)
    BY <1>5, <2>1
  <2>3. s \in Sorted /\ Len(s) = m /\ Ring!Lines(s) = Upto(m) /\ (Apart(es) => Apart(s))
    BY <1>7
  <2>4. e \in Ring!Entries
    BY <1>1, <2>1
  <2> HIDE DEF s, Good
  <2>5. /\ Ring!Placed(s, e) \in Sorted /\ Len(Ring!Placed(s, e)) = m + 1
        /\ Ring!Lines(Ring!Placed(s, e)) = Upto(m) \cup {e}
        /\ Apart(s) /\ ~Ring!Holds(s, e) => Apart(Ring!Placed(s, e))
    BY <2>3, <2>4, Placing
  <2>6. Upto(m + 1) = Upto(m) \cup {e}
    <3>1. \A i : i \in 1 .. m + 1 <=> i \in 1 .. m \/ i = m + 1
      BY <1>1
    <3> QED
      BY <3>1
  <2>7. ASSUME Apart(es) PROVE ~Ring!Holds(s, e)
    <3> SUFFICES ASSUME NEW i \in DOMAIN s, Ring!IsSameEvent(s[i], e) PROVE FALSE
      BY DEF Ring!Holds
    <3>1. s[i] \in Upto(m)
      BY <2>3 DEF Ring!Lines
    <3>2. PICK j \in 1 .. m : s[i] = es[j]
      BY <3>1
    <3>3. j \in 1 .. n /\ j # m + 1
      BY <1>1, <2>1
    <3> QED
      BY <1>1, <2>1, <2>7, <3>2, <3>3 DEF Apart
  <2> HIDE DEF e, Upto
  <2> QED
    BY <2>1, <2>2, <2>3, <2>5, <2>6, <2>7 DEF Good
<1>8. n \in Good
  <2> HIDE DEF Good
  <2>1. \A m \in 0 .. n - 1 : m \in Good => m + 1 \in Good
    BY <1>7
  <2>2. 0 .. n \subseteq Good
    <3> HIDE DEF n
    <3> QED
      BY <1>1, <1>6, <2>1, Reach
  <2> QED
    BY <1>1, <2>2
<1>9. Upto(n) = Ring!Lines(es)
  BY <1>1 DEF Ring!Lines
<1> QED
  BY <1>2, <1>8, <1>9

-----------------------------------------------------------------------------
(* Dropping duplicates                                                     *)

\* Every entry of a set is there, or a later stamp of its event.
Covers(s, C) == \A e \in C : \E i \in DOMAIN s : Ring!IsSameEvent(s[i], e) /\ s[i].at >= e.at

\* What is kept of a descending sequence.
LEMMA OneEachFacts ==
  ASSUME Ring!LedgerAssumption, NEW cs \in Sorted
  PROVE  /\ Ring!OneEach(cs) \in Sorted
         /\ Len(Ring!OneEach(cs)) <= Len(cs)
         /\ Ring!Lines(Ring!OneEach(cs)) \subseteq Ring!Lines(cs)
         /\ Apart(Ring!OneEach(cs))
         /\ Covers(Ring!OneEach(cs), Ring!Lines(cs))
<1> DEFINE n == Len(cs)
           Add(s, e) == IF Ring!Holds(s, e) THEN s ELSE Append(s, e)
           kept[m \in 0 .. Len(cs)] == IF m = 0 THEN <<>> ELSE Add(kept[m - 1], cs[m])
           F == [m \in 1 .. n |-> [s \in Seq(Ring!Entries) |-> Add(s, cs[m])]]
           Upto(m) == {cs[i] : i \in 1 .. m}
           Good == {m \in 0 .. n : /\ kept[m] \in Sorted
                                   /\ Len(kept[m]) <= m
                                   /\ Ring!Lines(kept[m]) \subseteq Upto(m)
                                   /\ Apart(kept[m])
                                   /\ Covers(kept[m], Upto(m))}
<1>1. /\ cs \in Seq(Ring!Entries) /\ n \in Nat /\ DOMAIN cs = 1 .. n
      /\ \A i \in 1 .. n : cs[i] \in Ring!Entries
  <2>1. cs \in Seq(Ring!Entries)
    BY DEF Sorted
  <2> QED
    BY <2>1, RingFacts
<1>2. Ring!OneEach(cs) = kept[n]
  BY DEF Ring!OneEach
<1>3. <<>> \in Sorted /\ <<>> \in Seq(Ring!Entries)
  BY DEF Sorted, Descends
<1>4. F \in [1 .. n -> [Seq(Ring!Entries) -> Seq(Ring!Entries)]]
  <2>1. ASSUME NEW m \in 1 .. n, NEW s \in Seq(Ring!Entries) PROVE Add(s, cs[m]) \in Seq(Ring!Entries)
    BY <1>1, AppendProperties
  <2> HIDE DEF Add
  <2> QED
    BY <2>1
<1>5. kept = [m \in 0 .. n |-> IF m = 0 THEN <<>> ELSE Add(kept[m - 1], cs[m])]
  <2> HIDE DEF Add
  <2> DEFINE none == <<>>
             X == Seq(Ring!Entries)
  <2>1. PICK g \in [0 .. n -> X] : Unfolds(g, n, none, F)
    <3>1. none \in X /\ F \in [1 .. n -> [X -> X]]
      BY <1>3, <1>4
    <3>2. n \in Nat
      BY <1>1
    <3> HIDE DEF F, n, X, none
    <3> QED
      BY <3>1, <3>2, Iterates
  <2>2. ASSUME NEW m \in 0 .. n
        PROVE  g[m] = IF m = 0 THEN <<>> ELSE Add(g[m - 1], cs[m])
    <3>1. m # 0 => m \in 1 .. n /\ m - 1 \in 0 .. n
      BY <1>1
    <3>2. \A k \in 1 .. n, s \in X : F[k][s] = Add(s, cs[k])
      OBVIOUS
    <3> HIDE DEF F, X
    <3> QED
      BY <2>1, <3>1, <3>2 DEF Unfolds
  <2>3. g = [m \in 0 .. n |-> IF m = 0 THEN <<>> ELSE Add(g[m - 1], cs[m])]
    <3> HIDE DEF F, n
    <3> QED
      BY <2>1, <2>2
  <2> QED
    BY <2>3
<1> HIDE DEF kept
<1>6. 0 \in Good
  <2>1. kept[0] = <<>>
    BY <1>1, <1>5
  <2>2. Upto(0) = {} /\ Ring!Lines(<<>>) = {} /\ Apart(<<>>) /\ Len(<<>>) = 0
    BY DEF Ring!Lines, Apart
  <2> HIDE DEF Upto
  <2> QED
    BY <1>1, <1>3, <2>1, <2>2 DEF Covers
<1>7. ASSUME NEW m \in 0 .. n - 1, m \in Good PROVE m + 1 \in Good
  <2> DEFINE s == kept[m]
             e == cs[m + 1]
  <2>1. m + 1 \in 0 .. n /\ m + 1 \in 1 .. n /\ m + 1 # 0 /\ (m + 1) - 1 = m
    BY <1>1
  <2>2. kept[m + 1] = Add(s, e)
    BY <1>5, <2>1
  <2>3. /\ s \in Sorted /\ Len(s) <= m /\ Ring!Lines(s) \subseteq Upto(m)
        /\ Apart(s) /\ Covers(s, Upto(m))
    BY <1>7
  <2>4. e \in Ring!Entries
    BY <1>1, <2>1
  <2>5. /\ s \in Seq(Ring!Entries) /\ Len(s) \in Nat /\ DOMAIN s = 1 .. Len(s)
        /\ \A i \in 1 .. Len(s) : s[i] \in Ring!Entries /\ s[i].at \in Nat
        /\ e.at \in Nat
    <3>1. s \in Seq(Ring!Entries)
      BY <2>3 DEF Sorted
    <3>2. e.at \in Nat
      BY <2>4 DEF Ring!Entries, Ring!LedgerAssumption
    <3> QED
      BY <3>1, <3>2, RingFacts
  <2> HIDE DEF s, Good
  <2>6. Upto(m + 1) = Upto(m) \cup {e}
    <3>1. \A i : i \in 1 .. m + 1 <=> i \in 1 .. m \/ i = m + 1
      BY <1>1
    <3> QED
      BY <3>1
  <2>7. \A i \in DOMAIN s : s[i].at >= e.at
    <3> SUFFICES ASSUME NEW i \in DOMAIN s PROVE s[i].at >= e.at
      OBVIOUS
    <3>1. s[i] \in Upto(m)
      BY <2>3 DEF Ring!Lines
    <3>2. PICK j \in 1 .. m : s[i] = cs[j]
      BY <3>1
    <3>3. j \in 1 .. n /\ j < m + 1
      BY <1>1, <2>1
    <3> QED
      BY <1>1, <2>1, <3>2, <3>3 DEF Sorted, Descends
  <2>8. CASE Ring!Holds(s, e)
    <3>1. Covers(s, Upto(m) \cup {e})
      BY <2>3, <2>7, <2>8 DEF Covers, Ring!Holds
    <3>2. kept[m + 1] = s
      BY <2>2, <2>8
    <3>3. Len(s) <= m + 1
      BY <2>3, <2>5
    <3> HIDE DEF e, Upto
    <3> QED
      BY <2>1, <2>3, <2>6, <3>1, <3>2, <3>3 DEF Good
  <2>9. CASE ~Ring!Holds(s, e)
    <3> DEFINE t == Append(s, e)
    <3>1. /\ t \in Seq(Ring!Entries) /\ Len(t) = Len(s) + 1 /\ DOMAIN t = 1 .. Len(s) + 1
          /\ \A i \in 1 .. Len(s) : t[i] = s[i]
          /\ t[Len(s) + 1] = e
      BY <2>4, <2>5, AppendProperties, LenProperties
    <3> HIDE DEF t, e, Upto
    <3>2. \A i \in 1 .. Len(s) + 1 : i \in 1 .. Len(s) \/ i = Len(s) + 1
      BY <2>5
    <3>3. Descends(t)
      <4> SUFFICES ASSUME NEW i \in 1 .. Len(s) + 1, NEW j \in 1 .. Len(s) + 1, i < j
                   PROVE  t[i].at >= t[j].at
        BY <3>1 DEF Descends
      <4>1. i \in 1 .. Len(s) /\ t[i] = s[i]
        BY <2>5, <3>1
      <4>2. CASE j = Len(s) + 1
        BY <2>5, <2>7, <3>1, <4>1, <4>2
      <4>3. CASE j \in 1 .. Len(s)
        BY <2>3, <2>5, <3>1, <4>1, <4>3 DEF Sorted, Descends
      <4> QED
        BY <3>2, <4>2, <4>3
    <3>4. Apart(t)
      <4> SUFFICES ASSUME NEW i \in 1 .. Len(s) + 1, NEW j \in 1 .. Len(s) + 1, i # j
                   PROVE  ~Ring!IsSameEvent(t[i], t[j])
        BY <3>1 DEF Apart
      <4>1. \A k \in 1 .. Len(s) : ~Ring!IsSameEvent(s[k], e) /\ ~Ring!IsSameEvent(e, s[k])
        BY <2>4, <2>5, <2>9, SameIsSymmetric DEF Ring!Holds
      <4>2. \A k, l \in 1 .. Len(s) : k # l => ~Ring!IsSameEvent(s[k], s[l])
        BY <2>3, <2>5 DEF Apart
      <4> QED
        BY <3>1, <3>2, <4>1, <4>2
    <3>5. Ring!Lines(t) \subseteq Upto(m) \cup {e}
      BY <2>3, <2>5, <3>1, <3>2 DEF Ring!Lines
    <3>6. Covers(t, Upto(m) \cup {e})
      <4>1. Ring!IsSameEvent(e, e) /\ e.at >= e.at /\ Len(s) + 1 \in 1 .. Len(s) + 1
        BY <2>4, <2>5, SameIsSymmetric
      <4>2. \A i \in 1 .. Len(s) : i \in 1 .. Len(s) + 1
        BY <2>5
      <4>3. Covers(t, {e})
        BY <3>1, <4>1 DEF Covers
      <4>4. Covers(t, Upto(m))
        <5> SUFFICES ASSUME NEW d \in Upto(m)
                     PROVE  \E i \in DOMAIN t : Ring!IsSameEvent(t[i], d) /\ t[i].at >= d.at
          BY DEF Covers
        <5>1. PICK i \in 1 .. Len(s) : Ring!IsSameEvent(s[i], d) /\ s[i].at >= d.at
          BY <2>3, <2>5 DEF Covers
        <5> QED
          BY <3>1, <4>2, <5>1
      <4> QED
        BY <4>3, <4>4 DEF Covers
    <3>7. kept[m + 1] = t
      BY <2>2, <2>9 DEF t
    <3>8. Len(t) <= m + 1
      BY <2>3, <2>5, <3>1
    <3> QED
      BY <2>1, <2>6, <3>1, <3>3, <3>4, <3>5, <3>6, <3>7, <3>8 DEF Good, Sorted
  <2> QED
    BY <2>8, <2>9
<1>8. n \in Good
  <2> HIDE DEF Good
  <2>1. \A m \in 0 .. n - 1 : m \in Good => m + 1 \in Good
    BY <1>7
  <2>2. 0 .. n \subseteq Good
    <3> HIDE DEF n
    <3> QED
      BY <1>1, <1>6, <2>1, Reach
  <2> QED
    BY <1>1, <2>2
<1>9. Upto(n) = Ring!Lines(cs)
  BY <1>1 DEF Ring!Lines
<1> QED
  BY <1>2, <1>8, <1>9

-----------------------------------------------------------------------------
(* The merge                                                               *)

Rings == {s \in Seq(Ring!Entries) : Len(s) <= LedgerCap /\ Apart(s)}

\* What the cut leaves.
LEMMA TruncateFacts ==
  ASSUME Ring!LedgerAssumption, NEW s \in Seq(Ring!Entries)
  PROVE  /\ Ring!Truncate(s) \in Seq(Ring!Entries)
         /\ Len(Ring!Truncate(s)) = IF Len(s) <= LedgerCap THEN Len(s) ELSE LedgerCap
         /\ Len(Ring!Truncate(s)) <= LedgerCap /\ Len(Ring!Truncate(s)) <= Len(s)
         /\ \A i \in 1 .. Len(Ring!Truncate(s)) : Ring!Truncate(s)[i] = s[i]
         /\ Ring!Lines(Ring!Truncate(s)) \subseteq Ring!Lines(s)
         /\ Apart(s) => Ring!Truncate(s) \in Rings
         /\ Descends(s) => Ring!Truncate(s) \in Sorted
<1> DEFINE t == Ring!Truncate(s)
           k == IF Len(s) <= LedgerCap THEN Len(s) ELSE LedgerCap
<1>1. /\ LedgerCap \in Nat /\ LedgerCap >= 1 /\ Len(s) \in Nat /\ DOMAIN s = 1 .. Len(s)
      /\ \A i \in 1 .. Len(s) : s[i] \in Ring!Entries
  BY RingFacts DEF Ring!LedgerAssumption
<1>2. t \in Seq(Ring!Entries) /\ Len(t) = k /\ \A i \in 1 .. k : t[i] = s[i]
  <2>1. CASE Len(s) <= LedgerCap
    BY <2>1 DEF Ring!Truncate
  <2>2. CASE ~(Len(s) <= LedgerCap)
    <3>1. /\ 1 \in Int /\ LedgerCap \in Int /\ LedgerCap - 1 + 1 = LedgerCap
          /\ \A i \in 1 .. LedgerCap : s[i] \in Ring!Entries /\ 1 + i - 1 = i
      BY <1>1, <2>2
    <3>2. /\ SubSeq(s, 1, LedgerCap) \in Seq(Ring!Entries)
          /\ Len(SubSeq(s, 1, LedgerCap)) = IF 1 <= LedgerCap THEN LedgerCap - 1 + 1 ELSE 0
          /\ \A i \in 1 .. LedgerCap - 1 + 1 : SubSeq(s, 1, LedgerCap)[i] = s[1 + i - 1]
      BY <3>1, SubSeqProperties
    <3> QED
      BY <1>1, <2>2, <3>1, <3>2 DEF Ring!Truncate
  <2> QED
    BY <2>1, <2>2
<1> HIDE DEF t
<1>3. DOMAIN t = 1 .. k /\ k \in Nat /\ k <= LedgerCap /\ k <= Len(s)
      /\ \A i \in 1 .. k : i \in 1 .. Len(s)
  BY <1>1, <1>2, LenProperties
<1> HIDE DEF k
<1>4. Ring!Lines(t) \subseteq Ring!Lines(s)
  BY <1>1, <1>2, <1>3 DEF Ring!Lines
<1>5. Apart(s) => Apart(t)
  BY <1>1, <1>2, <1>3 DEF Apart
<1>6. Descends(s) => Descends(t)
  BY <1>1, <1>2, <1>3 DEF Descends
<1> QED
  BY <1>2, <1>3, <1>4, <1>5, <1>6 DEF t, k, Rings, Sorted

\* Another completion in a ring.
LEMMA PushKeepsRing ==
  ASSUME Ring!LedgerAssumption, NEW s \in Rings, NEW e \in Ring!Entries
  PROVE  Ring!Push(s, e) \in Rings
<1>1. CASE Ring!Holds(s, e)
  BY <1>1 DEF Ring!Push
<1>2. CASE ~Ring!Holds(s, e)
  <2> DEFINE t == <<e>> \o s
  <2>1. /\ s \in Seq(Ring!Entries) /\ Len(s) \in Nat /\ DOMAIN s = 1 .. Len(s) /\ Apart(s)
        /\ \A i \in 1 .. Len(s) : s[i] \in Ring!Entries
    BY RingFacts DEF Rings
  <2>2. <<e>> \in Seq(Ring!Entries) /\ Len(<<e>>) = 1 /\ <<e>>[1] = e
    OBVIOUS
  <2>3. /\ t \in Seq(Ring!Entries) /\ Len(t) = 1 + Len(s)
        /\ \A i \in 1 .. 1 + Len(s) : t[i] = IF i <= 1 THEN <<e>>[i] ELSE s[i - 1]
    BY <2>1, <2>2, ConcatProperties
  <2> HIDE DEF t
  <2>4. /\ DOMAIN t = 1 .. 1 + Len(s) /\ t[1] = e
        /\ \A i \in 1 .. 1 + Len(s) : i = 1 \/ (i - 1 \in 1 .. Len(s) /\ t[i] = s[i - 1])
    BY <2>1, <2>2, <2>3, LenProperties
  <2>5. Apart(t)
    <3> SUFFICES ASSUME NEW i \in 1 .. 1 + Len(s), NEW j \in 1 .. 1 + Len(s), i # j
                 PROVE  ~Ring!IsSameEvent(t[i], t[j])
      BY <2>4 DEF Apart
    <3>1. \A k \in 1 .. Len(s) : ~Ring!IsSameEvent(s[k], e) /\ ~Ring!IsSameEvent(e, s[k])
      BY <1>2, <2>1, SameIsSymmetric DEF Ring!Holds
    <3>2. \A k, l \in 1 .. Len(s) : k # l => ~Ring!IsSameEvent(s[k], s[l])
      BY <2>1 DEF Apart
    <3>3. i - 1 # j - 1
      OBVIOUS
    <3> QED
      BY <2>4, <3>1, <3>2, <3>3
  <2> QED
    BY <1>2, <2>3, <2>5, TruncateFacts DEF Ring!Push, t
<1> QED
  BY <1>1, <1>2

\* A seeded ring.
LEMMA ReplaceKeepsRing ==
  ASSUME Ring!LedgerAssumption, NEW s \in Rings
  PROVE  Ring!Replace(s) \in Rings
<1>1. s \in Seq(Ring!Entries) /\ Apart(s)
  BY DEF Rings
<1>2. Ring!NewestFirst(s) \in Seq(Ring!Entries) /\ Apart(Ring!NewestFirst(s))
  BY <1>1, NewestFirstFacts DEF Sorted
<1> QED
  BY <1>2, TruncateFacts DEF Ring!Replace

\* What of two rings is there before the cut.
Union(a, b) == Ring!OneEach(Ring!NewestFirst(a \o b))

\* One line per event, newest first, and every completion of either ring covered.
LEMMA UnionFacts ==
  ASSUME Ring!LedgerAssumption, NEW a \in Seq(Ring!Entries), NEW b \in Seq(Ring!Entries)
  PROVE  /\ Union(a, b) \in Sorted /\ Union(a, b) \in Seq(Ring!Entries)
         /\ Descends(Union(a, b)) /\ Apart(Union(a, b))
         /\ Len(Union(a, b)) <= Len(a) + Len(b)
         /\ Ring!Lines(Union(a, b)) \subseteq Ring!Lines(a) \cup Ring!Lines(b)
         /\ Covers(Union(a, b), Ring!Lines(a) \cup Ring!Lines(b))
<1> DEFINE ab == a \o b
           n == Ring!NewestFirst(ab)
<1>1. /\ ab \in Seq(Ring!Entries) /\ Len(ab) = Len(a) + Len(b)
      /\ \A i \in 1 .. Len(a) + Len(b) : ab[i] = IF i <= Len(a) THEN a[i] ELSE b[i - Len(a)]
  BY ConcatProperties
<1> HIDE DEF ab
<1>2. /\ Len(a) \in Nat /\ DOMAIN a = 1 .. Len(a)
      /\ Len(b) \in Nat /\ DOMAIN b = 1 .. Len(b)
      /\ DOMAIN ab = 1 .. Len(a) + Len(b)
  BY <1>1, LenProperties
<1>3. Ring!Lines(ab) = Ring!Lines(a) \cup Ring!Lines(b)
  <2>1. \A i \in 1 .. Len(a) : i \in 1 .. Len(a) + Len(b) /\ ab[i] = a[i]
    BY <1>1, <1>2
  <2>2. ASSUME NEW i \in 1 .. Len(b)
        PROVE  i + Len(a) \in 1 .. Len(a) + Len(b) /\ ab[i + Len(a)] = b[i]
    <3>1. i + Len(a) \in 1 .. Len(a) + Len(b) /\ ~(i + Len(a) <= Len(a)) /\ i + Len(a) - Len(a) = i
      BY <1>2
    <3> QED
      BY <1>1, <3>1
  <2>3. /\ Ring!Lines(a) = {a[i] : i \in 1 .. Len(a)}
        /\ Ring!Lines(b) = {b[i] : i \in 1 .. Len(b)}
        /\ Ring!Lines(ab) = {ab[i] : i \in 1 .. Len(a) + Len(b)}
    BY <1>2 DEF Ring!Lines
  <2>4. ASSUME NEW i \in 1 .. Len(a) + Len(b)
        PROVE  ab[i] \in Ring!Lines(a) \cup Ring!Lines(b)
    <3>1. CASE i <= Len(a)
      <4>1. i \in 1 .. Len(a)
        BY <1>2, <3>1
      <4> QED
        BY <2>1, <2>3, <4>1
    <3>2. CASE ~(i <= Len(a))
      <4>1. i - Len(a) \in 1 .. Len(b)
        BY <1>2, <3>2
      <4> QED
        BY <1>1, <2>3, <3>2, <4>1
    <3> QED
      BY <3>1, <3>2
  <2>5. Ring!Lines(ab) \subseteq Ring!Lines(a) \cup Ring!Lines(b)
    BY <2>3, <2>4
  <2>6. Ring!Lines(a) \subseteq Ring!Lines(ab) /\ Ring!Lines(b) \subseteq Ring!Lines(ab)
    BY <2>1, <2>2, <2>3
  <2> QED
    BY <2>5, <2>6
<1>4. n \in Sorted /\ Len(n) = Len(a) + Len(b) /\ Ring!Lines(n) = Ring!Lines(a) \cup Ring!Lines(b)
  BY <1>1, <1>3, NewestFirstFacts
<1> HIDE DEF n
<1>5. /\ Ring!OneEach(n) \in Sorted /\ Len(Ring!OneEach(n)) <= Len(n)
      /\ Ring!Lines(Ring!OneEach(n)) \subseteq Ring!Lines(n) /\ Apart(Ring!OneEach(n))
      /\ Covers(Ring!OneEach(n), Ring!Lines(n))
  BY <1>4, OneEachFacts
<1>6. Union(a, b) = Ring!OneEach(n)
  BY DEF Union, n, ab
<1> QED
  BY <1>4, <1>5, <1>6 DEF Sorted

\* The merge is a ring, and keeps every completion it can.
LEMMA MergeFacts ==
  ASSUME Ring!LedgerAssumption, NEW a \in Seq(Ring!Entries), NEW b \in Seq(Ring!Entries)
  PROVE  /\ Ring!Merge(a, b) = Ring!Truncate(Union(a, b))
         /\ Ring!Merge(a, b) \in Rings
         /\ \A e \in Ring!Lines(a) \cup Ring!Lines(b) : Ring!Kept(e, Ring!Merge(a, b))
<1> DEFINE s == Union(a, b)
           t == Ring!Truncate(s)
<1>1. Ring!Merge(a, b) = t
  BY DEF Ring!Merge, Union
<1>2. s \in Seq(Ring!Entries) /\ Descends(s) /\ Apart(s) /\ Covers(s, Ring!Lines(a) \cup Ring!Lines(b))
  BY UnionFacts
<1> HIDE DEF s
<1>3. /\ t \in Rings /\ t \in Seq(Ring!Entries)
      /\ Len(t) = IF Len(s) <= LedgerCap THEN Len(s) ELSE LedgerCap
      /\ \A i \in 1 .. Len(t) : t[i] = s[i]
  BY <1>2, TruncateFacts
<1> HIDE DEF t
<1>4. /\ LedgerCap \in Nat /\ Len(s) \in Nat /\ DOMAIN s = 1 .. Len(s)
      /\ \A i \in 1 .. Len(s) : s[i] \in Ring!Entries /\ s[i].at \in Nat
      /\ Len(t) \in Nat /\ DOMAIN t = 1 .. Len(t)
  BY <1>2, <1>3, RingFacts DEF Ring!LedgerAssumption
<1>5. ASSUME NEW e \in Ring!Lines(a) \cup Ring!Lines(b) PROVE Ring!Kept(e, t)
  <2>1. PICK i \in 1 .. Len(s) : Ring!IsSameEvent(s[i], e) /\ s[i].at >= e.at
    BY <1>2, <1>4 DEF Covers
  <2>2. CASE i \in 1 .. Len(t)
    BY <1>3, <1>4, <2>1, <2>2 DEF Ring!Kept
  <2>3. CASE i \notin 1 .. Len(t)
    <3>1. Len(t) = LedgerCap /\ \A j \in 1 .. Len(t) : j < i /\ j \in 1 .. Len(s)
      <4>1. i \in Int /\ Len(t) < i /\ i <= Len(s)
        BY <1>4, <2>3
      <4>2. Len(t) # Len(s)
        <5>1. Len(s) \in Int /\ Len(t) \in Int
          BY <1>4
        <5> QED
          BY <4>1, <5>1
      <4>3. Len(t) = LedgerCap
        BY <1>3, <4>2
      <4>4. \A j \in 1 .. Len(t) : j < i /\ j \in 1 .. Len(s)
        BY <1>4, <4>1
      <4> QED
        BY <4>3, <4>4
    <3>2. e.at \in Nat
      <4>1. Ring!Lines(a) \subseteq Ring!Entries /\ Ring!Lines(b) \subseteq Ring!Entries
        BY LenProperties DEF Ring!Lines
      <4> QED
        BY <4>1 DEF Ring!Entries, Ring!LedgerAssumption
    <3>3. \A j \in 1 .. Len(t) : t[j].at >= s[i].at
      BY <1>2, <1>3, <1>4, <3>1 DEF Descends
    <3>4. \A j \in 1 .. Len(t) : t[j].at >= e.at
      <4> SUFFICES ASSUME NEW j \in 1 .. Len(t) PROVE t[j].at >= e.at
        OBVIOUS
      <4>1. t[j].at \in Nat /\ s[i].at \in Nat
        BY <1>3, <1>4, <3>1
      <4> QED
        BY <2>1, <3>2, <3>3, <4>1
    <3> QED
      BY <1>4, <3>1, <3>4 DEF Ring!Kept
  <2> QED
    BY <2>2, <2>3
<1> QED
  BY <1>1, <1>3, <1>5 DEF t, s

-----------------------------------------------------------------------------
(* Which entries the merge keeps does not depend on the order.             *)

Alone(K) == \A e, f \in K : e # f => ~Ring!IsSameEvent(e, f)

Spans(K, U) == \A e \in U : \E f \in K : Ring!IsSameEvent(f, e) /\ f.at >= e.at

\* An entry kept in K only gave way to a later one in L that K has not.
LEMMA LaterOne ==
  ASSUME Ring!LedgerAssumption, NEW U \in SUBSET Ring!Entries,
         NEW K \in SUBSET U, NEW L \in SUBSET U, Alone(K), Spans(L, U),
         NEW e \in K \ L
  PROVE  \E f \in L \ K : f.at > e.at
<1>1. PICK f \in L : Ring!IsSameEvent(f, e) /\ f.at >= e.at
  BY DEF Spans
<1>2. f # e /\ f \in Ring!Entries /\ e \in Ring!Entries
  OBVIOUS
<1>3. f.key = e.key /\ f.at \in Int /\ e.at \in Int
  BY <1>1, <1>2 DEF Ring!IsSameEvent, Ring!Entries, Ring!LedgerAssumption
<1>4. f.at # e.at
  BY <1>2, <1>3 DEF Ring!Entries
<1>5. f \notin K
  BY <1>1, <1>2 DEF Alone
<1> QED
  BY <1>1, <1>3, <1>4, <1>5

\* So there is only one such set.
LEMMA OneSuchSet ==
  ASSUME Ring!LedgerAssumption, NEW U \in SUBSET Ring!Entries,
         NEW K \in SUBSET U, NEW L \in SUBSET U,
         Alone(K), Alone(L), Spans(K, U), Spans(L, U)
  PROVE  K = L
<1> DEFINE D == (K \ L) \cup (L \ K)
           Ages == {MaxNow - e.at : e \in D}
<1> SUFFICES ASSUME D # {} PROVE FALSE
  OBVIOUS
<1>1. \A e \in D : \E f \in D : f.at > e.at
  BY LaterOne
<1>2. \A e \in D : e.at \in 0 .. MaxNow /\ MaxNow \in Nat
  BY DEF Ring!Entries, Ring!LedgerAssumption
<1>3. MaxNow \in Nat
  BY DEF Ring!LedgerAssumption
<1> HIDE DEF D
<1>4. Ages \in SUBSET (0 .. MaxNow) /\ Ages # {}
  BY <1>2, <1>3
<1> HIDE DEF Ages
<1>5. PICK x \in Ages : \A y \in Ages : x <= y
  BY <1>3, <1>4, Least
<1>6. PICK e \in D : x = MaxNow - e.at
  BY DEF Ages
<1>7. PICK f \in D : f.at > e.at
  BY <1>1
<1>8. MaxNow - f.at \in Ages
  BY DEF Ages
<1> QED
  BY <1>2, <1>3, <1>5, <1>6, <1>7, <1>8

\* The first n entries of t are among the first k of s.
Within(s, k, t, n) == \A m \in 1 .. n : \E q \in 1 .. k : s[q] = t[m]

\* Different entries need as many places.
LEMMA NoSqueeze ==
  ASSUME Ring!LedgerAssumption, NEW t \in Seq(Ring!Entries), Apart(t),
         NEW n \in 0 .. Len(t), NEW k \in Nat, k < n, NEW s, Within(s, k, t, n)
  PROVE  FALSE
<1> DEFINE A == 1 .. n
           B == 1 .. k
           h == [m \in A |-> CHOOSE q \in B : s[q] = t[m]]
<1>1. n \in Nat /\ DOMAIN t = 1 .. Len(t) /\ \A m \in A : m \in 1 .. Len(t) /\ t[m] \in Ring!Entries
  BY RingFacts
<1>2. \A m \in A : h[m] \in B /\ s[h[m]] = t[m]
  BY DEF Within
<1>3. h \in [A -> B]
  BY <1>2
<1>4. /\ IsFiniteSet(A) /\ Cardinality(A) = n
      /\ IsFiniteSet(B) /\ Cardinality(B) = k
  <2>2. 1 \in Int /\ n \in Int /\ k \in Int
    BY <1>1
  <2>1. /\ IsFiniteSet(A) /\ Cardinality(A) = IF 1 > n THEN 0 ELSE n - 1 + 1
        /\ IsFiniteSet(B) /\ Cardinality(B) = IF 1 > k THEN 0 ELSE k - 1 + 1
    BY <2>2, FS_Interval
  <2> HIDE DEF A, B
  <2> QED
    BY <1>1, <2>1
<1> HIDE DEF A, B, h
<1>5. PICK x \in A, y \in A : x # y /\ h[x] = h[y]
  BY <1>3, <1>4, FS_PigeonHole
<1>6. t[x] = t[y]
  BY <1>2, <1>5
<1> QED
  BY <1>1, <1>5, <1>6, SameIsSymmetric DEF Apart

\* Two descending rings with the same lines, cut: what the one has and the other
\* has not is as old as its last line.
LEMMA SameCut ==
  ASSUME Ring!LedgerAssumption, NEW s \in Seq(Ring!Entries), NEW t \in Seq(Ring!Entries),
         Descends(s), Descends(t), Apart(s), Apart(t), Ring!Lines(s) = Ring!Lines(t),
         NEW e \in Ring!Lines(Ring!Truncate(s)) \ Ring!Lines(Ring!Truncate(t))
  PROVE  Len(Ring!Truncate(s)) = LedgerCap /\ e.at = Ring!Truncate(s)[LedgerCap].at
<1> DEFINE u == Ring!Truncate(s)
           v == Ring!Truncate(t)
<1>1. /\ LedgerCap \in Nat /\ LedgerCap >= 1
      /\ Len(s) \in Nat /\ DOMAIN s = 1 .. Len(s) /\ Len(t) \in Nat /\ DOMAIN t = 1 .. Len(t)
      /\ \A i \in 1 .. Len(s) : s[i] \in Ring!Entries /\ s[i].at \in Nat
      /\ \A i \in 1 .. Len(t) : t[i] \in Ring!Entries /\ t[i].at \in Nat
  BY RingFacts DEF Ring!LedgerAssumption
<1>2. /\ u \in Seq(Ring!Entries) /\ Len(u) = IF Len(s) <= LedgerCap THEN Len(s) ELSE LedgerCap
      /\ \A i \in 1 .. Len(u) : u[i] = s[i]
      /\ v \in Seq(Ring!Entries) /\ Len(v) = IF Len(t) <= LedgerCap THEN Len(t) ELSE LedgerCap
      /\ \A i \in 1 .. Len(v) : v[i] = t[i]
  BY TruncateFacts
<1> HIDE DEF u, v
<1>3. /\ Len(u) \in Nat /\ DOMAIN u = 1 .. Len(u) /\ Len(v) \in Nat /\ DOMAIN v = 1 .. Len(v)
  BY <1>2, LenProperties
<1>4. PICK q \in 1 .. Len(u) : e = s[q]
  BY <1>2, <1>3 DEF Ring!Lines, u
<1>5. q \in 1 .. Len(s) /\ q <= LedgerCap
  BY <1>1, <1>2, <1>3
<1>6. PICK p \in 1 .. Len(t) : e = t[p]
  BY <1>1, <1>4, <1>5 DEF Ring!Lines
<1>7. ~(p <= Len(v))
  <2> SUFFICES ASSUME p <= Len(v) PROVE FALSE
    OBVIOUS
  <2>1. p \in 1 .. Len(v)
    BY <1>1, <1>3
  <2> QED
    BY <1>2, <1>3, <1>6, <2>1 DEF Ring!Lines, v
<1>8. Len(v) = LedgerCap /\ LedgerCap < p /\ LedgerCap < Len(t)
  <2>1. Len(v) # Len(t)
    BY <1>1, <1>7
  <2>2. Len(v) = LedgerCap
    BY <1>2, <2>1
  <2> QED
    BY <1>1, <1>7, <2>2
<1>9. ASSUME NEW m \in 1 .. Len(t) PROVE \E i \in 1 .. Len(s) : s[i] = t[m]
  BY <1>1 DEF Ring!Lines
<1>10. LedgerCap < Len(s)
  <2> SUFFICES ASSUME Len(s) < Len(t) PROVE FALSE
    BY <1>1, <1>8
  <2>1. Len(t) \in 0 .. Len(t)
    BY <1>1
  <2>2. Within(s, Len(s), t, Len(t))
    BY <1>9 DEF Within
  <2> QED
    BY <1>1, <2>1, <2>2, NoSqueeze
<1>11. Len(u) = LedgerCap /\ LedgerCap \in 1 .. Len(s) /\ u[LedgerCap] = s[LedgerCap]
  <2>1. ~(Len(s) <= LedgerCap) /\ LedgerCap \in 1 .. Len(s)
    BY <1>1, <1>10
  <2>2. Len(u) = LedgerCap
    BY <1>2, <2>1
  <2>3. LedgerCap \in 1 .. Len(u)
    BY <1>1, <2>2
  <2> QED
    BY <1>2, <2>1, <2>2, <2>3
<1>12. e.at >= s[LedgerCap].at
  <2>1. q = LedgerCap \/ q < LedgerCap
    BY <1>1, <1>5
  <2>2. s[q].at \in Nat
    BY <1>1, <1>5
  <2>3. CASE q = LedgerCap
    BY <1>4, <2>2, <2>3
  <2>4. CASE q < LedgerCap
    BY <1>1, <1>4, <1>5, <1>11, <2>4 DEF Descends
  <2> QED
    BY <2>1, <2>3, <2>4
<1>13. ~(e.at > s[LedgerCap].at)
  <2> SUFFICES ASSUME e.at > s[LedgerCap].at PROVE FALSE
    OBVIOUS
  <2>1. ASSUME NEW m \in 1 .. LedgerCap PROVE \E i \in 1 .. LedgerCap - 1 : s[i] = t[m]
    <3>1. m \in 1 .. Len(t) /\ m < p
      BY <1>1, <1>8
    <3>2. t[m].at >= e.at
      BY <1>1, <1>6, <3>1 DEF Descends
    <3>3. PICK i \in 1 .. Len(s) : s[i] = t[m]
      BY <1>9, <3>1
    <3>4. s[i].at > s[LedgerCap].at
      BY <1>1, <1>6, <1>11, <3>1, <3>2, <3>3
    <3>7. s[i].at \in Nat /\ s[LedgerCap].at \in Nat
      BY <1>1, <1>11
    <3>5. ~(LedgerCap < i) /\ LedgerCap # i
      <4>1. LedgerCap < i => s[LedgerCap].at >= s[i].at
        BY <1>1, <1>11 DEF Descends
      <4>2. LedgerCap # i
        BY <3>4, <3>7
      <4> QED
        BY <3>4, <3>7, <4>1, <4>2
    <3>6. i \in 1 .. LedgerCap - 1
      BY <1>1, <3>5
    <3> QED
      BY <3>3, <3>6
  <2>2. LedgerCap \in 0 .. Len(t) /\ LedgerCap - 1 \in Nat /\ LedgerCap - 1 < LedgerCap
    BY <1>1, <1>8
  <2>3. Within(s, LedgerCap - 1, t, LedgerCap)
    BY <2>1 DEF Within
  <2> QED
    BY <2>2, <2>3, NoSqueeze
<1>14. e.at \in Nat /\ s[LedgerCap].at \in Nat
  BY <1>1, <1>4, <1>5, <1>11
<1> QED
  BY <1>11, <1>12, <1>13, <1>14 DEF u

\* A ring that meets no other loses nothing.
LEMMA MergeWithEmpty ==
  ASSUME Ring!LedgerAssumption, NEW a \in Rings
  PROVE  Ring!Merge(a, <<>>) \in Seq(Ring!Entries) /\ Ring!Lines(Ring!Merge(a, <<>>)) = Ring!Lines(a)
<1> DEFINE none == <<>>
           s == Union(a, none)
<1>1. /\ a \in Seq(Ring!Entries) /\ Len(a) \in Nat /\ DOMAIN a = 1 .. Len(a) /\ Apart(a)
      /\ Len(a) <= LedgerCap /\ LedgerCap \in Nat
      /\ \A i \in 1 .. Len(a) : a[i] \in Ring!Entries /\ a[i].at \in Nat
  BY RingFacts DEF Rings, Ring!LedgerAssumption
<1>2. none \in Seq(Ring!Entries) /\ Len(none) = 0 /\ Ring!Lines(none) = {}
  BY DEF Ring!Lines
<1> HIDE DEF none
<1>3. /\ s \in Seq(Ring!Entries) /\ Len(s) <= Len(a) + Len(none)
      /\ Ring!Lines(s) \subseteq Ring!Lines(a) \cup Ring!Lines(none)
      /\ Covers(s, Ring!Lines(a) \cup Ring!Lines(none))
      /\ Ring!Merge(a, none) = Ring!Truncate(s)
  BY <1>1, <1>2, UnionFacts, MergeFacts
<1> HIDE DEF s
<1>4. Ring!Truncate(s) = s
  <2>1. Len(s) \in Nat /\ Len(s) <= LedgerCap
    BY <1>1, <1>2, <1>3, LenProperties
  <2> QED
    BY <2>1 DEF Ring!Truncate
<1>5. ASSUME NEW e \in Ring!Lines(a) PROVE e \in Ring!Lines(s)
  <2>1. PICK i \in DOMAIN s : Ring!IsSameEvent(s[i], e)
    BY <1>3 DEF Covers
  <2>2. s[i] \in Ring!Lines(a)
    BY <1>2, <1>3 DEF Ring!Lines
  <2>3. s[i] = e
    BY <1>1, <2>1, <2>2 DEF Ring!Lines, Apart
  <2> QED
    BY <2>3 DEF Ring!Lines
<1> QED
  BY <1>2, <1>3, <1>4, <1>5 DEF none

\* Either order of two writers leaves the same lines, but at the cut.
LEMMA OrderIsImmaterial ==
  ASSUME Ring!LedgerAssumption, NEW a \in Rings, NEW b \in Rings,
         NEW e \in Ring!Lines(Ring!Merge(a, Ring!Merge(b, <<>>))) \ Ring!Lines(Ring!Merge(b, Ring!Merge(a, <<>>)))
  PROVE  /\ Len(Ring!Merge(a, Ring!Merge(b, <<>>))) = LedgerCap
         /\ e.at = Ring!Merge(a, Ring!Merge(b, <<>>))[LedgerCap].at
<1> DEFINE A == Ring!Merge(a, <<>>)
           B == Ring!Merge(b, <<>>)
           s == Union(a, B)
           t == Union(b, A)
           U == Ring!Lines(a) \cup Ring!Lines(b)
<1>1. a \in Seq(Ring!Entries) /\ b \in Seq(Ring!Entries)
  BY DEF Rings
<1>2. A \in Seq(Ring!Entries) /\ Ring!Lines(A) = Ring!Lines(a) /\ B \in Seq(Ring!Entries) /\ Ring!Lines(B) = Ring!Lines(b)
  BY MergeWithEmpty
<1> HIDE DEF A, B
<1>3. /\ s \in Seq(Ring!Entries) /\ Descends(s) /\ Apart(s) /\ Ring!Lines(s) \subseteq U /\ Covers(s, U)
      /\ Ring!Merge(a, B) = Ring!Truncate(s)
  BY <1>1, <1>2, UnionFacts, MergeFacts
<1>4. /\ t \in Seq(Ring!Entries) /\ Descends(t) /\ Apart(t) /\ Ring!Lines(t) \subseteq U /\ Covers(t, U)
      /\ Ring!Merge(b, A) = Ring!Truncate(t)
  <2>1. Ring!Lines(b) \cup Ring!Lines(A) = U
    BY <1>2
  <2> QED
    BY <1>1, <1>2, <2>1, UnionFacts, MergeFacts
<1>5. U \in SUBSET Ring!Entries
  BY <1>1, LenProperties DEF Ring!Lines
<1> HIDE DEF s, t, U
<1>6. Alone(Ring!Lines(s)) /\ Alone(Ring!Lines(t)) /\ Spans(Ring!Lines(s), U) /\ Spans(Ring!Lines(t), U)
  BY <1>3, <1>4 DEF Alone, Spans, Apart, Covers, Ring!Lines
<1>7. Ring!Lines(s) = Ring!Lines(t)
  BY <1>3, <1>4, <1>5, <1>6, OneSuchSet
<1>8. e \in Ring!Lines(Ring!Truncate(s)) \ Ring!Lines(Ring!Truncate(t))
  BY <1>3, <1>4 DEF A, B
<1>9. Len(Ring!Truncate(s)) = LedgerCap /\ e.at = Ring!Truncate(s)[LedgerCap].at
  BY <1>3, <1>4, <1>7, <1>8, SameCut
<1> QED
  BY <1>3, <1>9 DEF B

-----------------------------------------------------------------------------
(* The instances                                                           *)

\* Every ring is in bounds and has one line per event, the file among them, and
\* what a writer is about to merge is one ring that was the file.
RingInv ==
  /\ now \in 0 .. MaxNow
  /\ rings \in [Instances -> Rings]
  /\ file \in Rings
  /\ existing \in [Instances -> SUBSET Rings]
  /\ \A i \in Instances : \A r, s \in existing[i] : r = s

\* Nothing is filed yet.
LEMMA RingInit == Ring!LedgerAssumption /\ Ring!Init => RingInv
  BY DEF Ring!Init, RingInv, Rings, Apart, Ring!NotReading, Ring!LedgerAssumption

\* Every action keeps the rings.
LEMMA RingMoves ==
  ASSUME Ring!LedgerAssumption, RingInv, [Ring!Next]_Ring!vars
  PROVE  RingInv'
<1> USE DEF RingInv
<1>1. CASE Ring!Clock
  BY <1>1 DEF Ring!Clock, Ring!LedgerAssumption
<1>2. ASSUME NEW i \in Instances, Ring!ReadSnapshot(i) PROVE RingInv'
  BY <1>2 DEF Ring!ReadSnapshot
<1>3. ASSUME NEW i \in Instances, Ring!WriteSnapshot(i) PROVE RingInv'
  <2>1. PICK read \in existing[i] : file' = Ring!Merge(rings[i], read)
    BY <1>3 DEF Ring!WriteSnapshot
  <2>2. rings[i] \in Seq(Ring!Entries) /\ read \in Seq(Ring!Entries)
    BY DEF Rings
  <2>3. file' \in Rings
    BY <2>1, <2>2, MergeFacts
  <2> QED
    BY <1>3, <2>3 DEF Ring!WriteSnapshot, Ring!NotReading
<1>4. ASSUME NEW i \in Instances, Ring!Load(i) PROVE RingInv'
  <2>1. Ring!Replace(file) \in Rings
    BY ReplaceKeepsRing
  <2> QED
    BY <1>4, <2>1 DEF Ring!Load
<1>5. ASSUME NEW i \in Instances, NEW e \in Ring!Entries, Ring!Recede(i, e) PROVE RingInv'
  <2>1. Ring!Push(rings[i], e) \in Rings
    BY PushKeepsRing
  <2> QED
    BY <1>5, <2>1 DEF Ring!Recede
<1>6. CASE UNCHANGED Ring!vars
  BY <1>6 DEF Ring!vars
<1> QED
  BY <1>1, <1>2, <1>3, <1>4, <1>5, <1>6 DEF Ring!Next

\* What the invariant says of the two halves of RingsAgree.
LEMMA RingsAgreeFromInv ==
  Ring!LedgerAssumption /\ RingInv => Ring!OneLinePerEvent /\ Ring!WriteOrderIsImmaterial
<1> SUFFICES ASSUME Ring!LedgerAssumption, RingInv
             PROVE  Ring!OneLinePerEvent /\ Ring!WriteOrderIsImmaterial
  OBVIOUS
<1>1. Ring!OneLinePerEvent
  <2> SUFFICES ASSUME NEW read \in {rings[i] : i \in Instances} \cup {file}
               PROVE  Apart(read)
    BY DEF Ring!OneLinePerEvent, Apart
  <2>1. read \in Rings
    BY DEF RingInv
  <2> QED
    BY <2>1 DEF Rings
<1>2. Ring!WriteOrderIsImmaterial
  BY OrderIsImmaterial DEF Ring!WriteOrderIsImmaterial, RingInv
<1> QED
  BY <1>1, <1>2

\* A write publishes the writer's own, and keeps what it read.
LEMMA WriteKeeps ==
  ASSUME Ring!LedgerAssumption, RingInv, [Ring!Next]_Ring!vars,
         NEW i \in Instances, existing[i] # Ring!NotReading, existing'[i] = Ring!NotReading
  PROVE  /\ \A e \in Ring!Lines(rings[i]) : Ring!Kept(e, file')
         /\ \A e \in Ring!Lines(file) :
              Ring!Kept(e, file') \/ \A read \in existing[i] : e \notin Ring!Lines(read)
<1>1. Ring!WriteSnapshot(i)
  <2>1. ASSUME NEW j \in Instances, Ring!ReadSnapshot(j) PROVE FALSE
    BY <2>1 DEF Ring!ReadSnapshot, RingInv, Ring!NotReading
  <2>2. ASSUME NEW j \in Instances, Ring!WriteSnapshot(j), j # i PROVE FALSE
    BY <2>2 DEF Ring!WriteSnapshot, RingInv, Ring!NotReading
  <2>3. existing' # existing
    OBVIOUS
  <2> QED
    BY <2>1, <2>2, <2>3 DEF Ring!Next, Ring!Clock, Ring!Load, Ring!Recede, Ring!vars
<1>2. PICK was \in existing[i] : file' = Ring!Merge(rings[i], was)
  BY <1>1 DEF Ring!WriteSnapshot
<1>3. rings[i] \in Seq(Ring!Entries) /\ was \in Seq(Ring!Entries)
  BY DEF RingInv, Rings
<1>4. \A e \in Ring!Lines(rings[i]) \cup Ring!Lines(was) : Ring!Kept(e, file')
  BY <1>2, <1>3, MergeFacts
<1>5. \A read \in existing[i] : read = was
  BY <1>2 DEF RingInv
<1> QED
  BY <1>4, <1>5

-----------------------------------------------------------------------------
(* What the model-checked runs check, for every instance of the constants. *)

\* A step of the shared file is a step of the ledger or leaves it alone.
LEMMA FileKeepsRings ==
  ASSUME RingInv, [FileNext]_fileVars
  PROVE  [Ring!Next]_Ring!vars
BY DEF FileNext, RingStep, RowsStep, fileVars, ring, Ring!vars

\* Every ring, the file's too, is in bounds and has one line per event.
THEOREM RingsCorrect == FileSpec => []RingInv
<1>1. FileInit => RingInv
  BY RingInit, SnapshotFileAssumption DEF FileInit
<1>2. RingInv /\ [FileNext]_fileVars => RingInv'
  BY FileKeepsRings, RingMoves, SnapshotFileAssumption
<1> QED
  BY <1>1, <1>2, PTL DEF FileSpec

\* One event is one line in every ring, however the instances' stamps of it
\* differ, and two writers leave the same lines whichever goes first, but for
\* equal stamps at the cut of a full ring.
THEOREM RingsAgreeCorrect == FileSpec => []RingsAgree
<1>1. RingInv => RingsAgree
  BY RingsAgreeFromInv, SnapshotFileAssumption
     DEF RingsAgree, OneLinePerEvent, WriteOrderIsImmaterial
<1> QED
  BY RingsCorrect, <1>1, PTL

\* A write publishes the writer's own completions and loses none that it read.
THEOREM WritesKeepCompletionsCorrect == FileSpec => WritesKeepCompletions
<1> DEFINE Keeps ==
      \A i \in Instances : existing[i] # Ring!NotReading /\ existing'[i] = Ring!NotReading =>
        /\ \A e \in Ring!Lines(rings[i]) : Ring!Kept(e, file')
        /\ \A e \in Ring!Lines(file) :
             Ring!Kept(e, file') \/ \A read \in existing[i] : e \notin Ring!Lines(read)
<1>1. RingInv /\ [FileNext]_fileVars => [Keeps]_Ring!vars
  BY FileKeepsRings, WriteKeeps, SnapshotFileAssumption
<1>2. WritesKeepCompletions <=> [][Keeps]_Ring!vars
  BY DEF WritesKeepCompletions, Ring!WritesKeepCompletions
<1> QED
  BY RingsCorrect, <1>1, <1>2, PTL DEF FileSpec
==============================================================================
