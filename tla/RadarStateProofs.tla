--------------------------- MODULE RadarStateProofs ---------------------------
(***************************************************************************)
(* Proofs about one instance's RadarState, for every set of panes, tabs,   *)
(* programs, payloads and configurations: where a completion is filed,     *)
(* when a pane is forgotten, and that no change is lost on the way out of  *)
(* a call.                                                                 *)
(*                                                                         *)
(* They rest on what the prune grace remembers (Captures): a pane that is  *)
(* held over one manifest has no seat and is held under the tab that last  *)
(* seated it; and on the cap of the status store, without which a payload  *)
(* that changes nothing could evict another pane's row unseen.             *)
(***************************************************************************)
EXTENDS RadarState, PaneProofs, FiniteSetTheorems

StoreShaped(st) == st = [p \in Panes |-> st[p]] /\ \A p \in Panes : Shaped(st[p])

Typed ==
  /\ cmd \in [Panes -> PaneRecords]
  /\ StoreShaped(sts)
  /\ interactive \in SUBSET Commands
  /\ tabs \in Seq(TabIds)
  /\ at \in Seatings
  /\ absent \in [Panes -> {Present, NoTab} \cup TabIds]
  /\ flash \in [TabIds -> 0..FlashTicks]
  /\ wrote \in {"none", "deferred", "now"}
  /\ rendered \in BOOLEAN /\ touched \in BOOLEAN /\ manifest \in BOOLEAN
  /\ lastTab \in [Panes -> TabIds \cup {NoTab}]
  /\ missed \in [Panes -> 0..2]

\* What the grace of one manifest remembers of a pane.
Captures(p) ==
  /\ TabOf(p) # NoTab => lastTab[p] = TabOf(p)
  /\ absent[p] # Present => at[p] = Nowhere /\ missed[p] >= 1
  /\ absent[p] \in TabIds => lastTab[p] = absent[p]

WithinCap(st) == Cardinality(TrackedPanes(st)) <= MaxTracked

RadarInv ==
  /\ Typed
  /\ \A p \in Panes : Captures(p)
  /\ WithinCap(sts)
  /\ DeferredHasATick

-----------------------------------------------------------------------------
(* The status store                                                        *)

\* The tracked panes are some of all, so they can be counted.
LEMMA TrackedFinite ==
  ASSUME NEW st, StoreShaped(st)
  PROVE  /\ TrackedPanes(st) = {p \in Panes : Tracked(st[p])}
         /\ IsFiniteSet(TrackedPanes(st)) /\ Cardinality(TrackedPanes(st)) \in Nat
<1>1. DOMAIN st = Panes
  BY DEF StoreShaped
<1>2. TrackedPanes(st) = {p \in Panes : Tracked(st[p])}
  BY <1>1 DEF TrackedPanes
<1> QED
  BY <1>2, RadarStateAssumption, FS_Subset, FS_CardinalityType

\* A store that tracks no pane that another does not has no more rows.
LEMMA FewerTracked ==
  ASSUME NEW st, StoreShaped(st), NEW new, StoreShaped(new), WithinCap(st),
         \A p \in Panes : Tracked(new[p]) => Tracked(st[p])
  PROVE  WithinCap(new)
<1>1. TrackedPanes(new) \subseteq TrackedPanes(st)
  BY TrackedFinite
<1>2. Cardinality(TrackedPanes(new)) <= Cardinality(TrackedPanes(st))
  BY <1>1, TrackedFinite, FS_Subset
<1> QED
  BY <1>2, TrackedFinite, StatusPaneAssumption DEF WithinCap

\* One row too many costs one tracked pane its row, and none too many costs
\* nothing.
LEMMA EvictFacts ==
  ASSUME NEW st, StoreShaped(st), NEW p \in Panes, NEW s, Shaped(s), WithinCap(st),
         NEW out \in EvictOverCap([st EXCEPT ![p] = s])
  PROVE  /\ StoreShaped(out) /\ WithinCap(out)
         /\ \A q \in Panes : q # p => out[q] = st[q] \/ (Tracked(st[q]) /\ out[q] = FreshStatus)
         /\ out[p] = s \/ (Tracked(s) /\ out[p] = FreshStatus)
         /\ Tracked(st[p]) => out = [st EXCEPT ![p] = s]
         /\ out[p] # s => \A q \in Panes : q # p => out[q] = st[q]
<1> DEFINE new == [st EXCEPT ![p] = s]
           T == TrackedPanes(st)
           N == TrackedPanes(new)
<1>1. /\ DOMAIN st = Panes /\ DOMAIN new = Panes /\ new[p] = s
      /\ \A q \in Panes : q # p => new[q] = st[q]
  BY DEF StoreShaped
<1>2. StoreShaped(new)
  BY <1>1 DEF StoreShaped
<1> HIDE DEF new
<1>3. /\ IsFiniteSet(T) /\ Cardinality(T) \in Nat /\ IsFiniteSet(N) /\ Cardinality(N) \in Nat
      /\ N \subseteq T \cup {p} /\ N \subseteq Panes
      /\ Cardinality(T) <= MaxTracked /\ MaxTracked \in Nat
  BY <1>1, <1>2, TrackedFinite, StatusPaneAssumption DEF WithinCap
<1>4. Cardinality(N) <= MaxTracked + 1 /\ (Tracked(st[p]) => Cardinality(N) <= MaxTracked)
  <2>1. p \in T => Cardinality(N) <= Cardinality(T)
    BY <1>3, FS_Subset
  <2>2. p \notin T => /\ IsFiniteSet(T \cup {p})
                      /\ Cardinality(T \cup {p}) = Cardinality(T) + 1
    BY <1>3, FS_AddElement
  <2>3. Cardinality(N) <= Cardinality(T) + 1
    BY <1>3, <2>1, <2>2, FS_Subset
  <2>4. Tracked(st[p]) => p \in T
    BY TrackedFinite
  <2> QED
    BY <1>3, <2>1, <2>3, <2>4
<1>5. CASE Cardinality(N) <= MaxTracked
  <2>1. out = new
    BY <1>5 DEF EvictOverCap, new
  <2> QED
    BY <1>1, <1>2, <1>5, <2>1 DEF WithinCap, new
<1>6. CASE ~(Cardinality(N) <= MaxTracked)
  <2>1. PICK q \in Oldest(new) : out = [new EXCEPT ![q] = FreshStatus]
    BY <1>6 DEF EvictOverCap, new
  <2>2. q \in N /\ q \in Panes
    BY <1>3, <2>1 DEF Oldest
  <2>3. /\ DOMAIN out = Panes /\ out[q] = FreshStatus
        /\ \A r \in Panes : r # q => out[r] = new[r]
    BY <1>1, <2>1, <2>2
  <2>4. StoreShaped(out)
    BY <1>1, <1>2, <2>1, <2>3, FreshShaped DEF StoreShaped
  <2>5. TrackedPanes(out) = N \ {q}
    BY <1>2, <2>2, <2>3, <2>4, TrackedFinite, FreshShaped
  <2>6. Cardinality(N \ {q}) = Cardinality(N) - 1
    BY <1>3, <2>2, FS_RemoveElement
  <2>7. WithinCap(out)
    BY <1>3, <1>4, <2>5, <2>6 DEF WithinCap
  <2>8. Tracked(new[q])
    BY <1>2, <2>2, TrackedFinite
  <2> QED
    BY <1>1, <1>3, <1>4, <1>6, <2>2, <2>3, <2>4, <2>7, <2>8
<1> QED
  BY <1>5, <1>6

-----------------------------------------------------------------------------
(* The command store                                                       *)

\* A tick that reports no change takes off no completion, confirms no run and
\* leaves what a card and a muted label read.
LEMMA TimerQuiet ==
  ASSUME NEW c \in PaneRecords, ~TimerChanged(c)
  PROVE  /\ SameCard(c.obs, OnTimer(c).obs) /\ OnTimer(c).obs.kind = c.obs.kind
         /\ QuietIdentity(OnTimer(c)) = QuietIdentity(c)
         /\ TimerReceded(c) = {} /\ TimerCompleted(c) = {}
<1> DEFINE aged == Aged(c)
           promoted == IF Promotes(aged) THEN Promote(aged) ELSE aged
           confirmed == IF ConfirmDue(promoted) THEN ConfirmDone(promoted)
                                                ELSE promoted
<1>1. /\ aged \in PaneRecords /\ promoted \in PaneRecords
      /\ confirmed \in PaneRecords
  BY AgedType, PromoteType, ConfirmDoneType
<1>2. /\ SameCard(c.obs, aged.obs) /\ aged.obs.kind = c.obs.kind
      /\ aged.pending.state = c.pending.state /\ aged.pending.cmd = c.pending.cmd
  BY DEF Aged, PaneRecords, Observations, Pendings, SameCard
<1>3. /\ OnTimer(c) = (IF Expires(confirmed) THEN Recede(confirmed) ELSE confirmed)
      /\ TimerReceded(c) =
           (IF Promotes(aged) /\ IsCompletion(c.obs) THEN {aged.obs} ELSE {})
             \cup (IF Expires(confirmed) THEN {confirmed.obs} ELSE {})
      /\ TimerCompleted(c) = (IF ConfirmDue(promoted) /\ promoted.obs.status = "running"
                               THEN {promoted.obs.kind} ELSE {})
      /\ ~(Promotes(aged) /\ promoted.obs # aged.obs)
      /\ ~(ConfirmDue(promoted) /\ promoted.obs.status = "running")
      /\ ~Expires(confirmed)
  BY DEF OnTimer, TimerReceded, TimerCompleted, TimerChanged
<1> HIDE DEF confirmed
<1>4. /\ Promotes(aged) => /\ promoted.obs.status = "running"
                           /\ promoted.pending = NoPending
                           /\ aged.pending.state = "promotable"
      /\ ~Promotes(aged) => promoted = aged
  <2> HIDE DEF aged
  <2> QED
    BY <1>1 DEF Promote, Promotes, PaneRecords
<1> HIDE DEF promoted, aged
<1>5. promoted.obs = aged.obs
  BY <1>3, <1>4
<1>6. confirmed.obs = promoted.obs /\ confirmed.pending = promoted.pending
  BY <1>1, <1>3 DEF confirmed, ConfirmDone, PaneRecords
<1>7. QuietIdentity(promoted) = QuietIdentity(c)
  BY <1>2, <1>4 DEF QuietIdentity, NoPending
<1>8. ~(Promotes(aged) /\ IsCompletion(c.obs))
  BY <1>2, <1>4, <1>5 DEF SameCard, IsCompletion, Completions
<1> QED
  BY <1>2, <1>3, <1>5, <1>6, <1>7, <1>8 DEF QuietIdentity

\* Whatever a tick takes off a card, it reports as a change.
LEMMA TimerRecedes ==
  ASSUME NEW c \in PaneRecords, TimerReceded(c) # {}
  PROVE  TimerChanged(c)
BY TimerQuiet

\* An exit forgets nothing of a pane.
LEMMA ExitKeeps ==
  ASSUME NEW c \in PaneRecords, NEW status \in ExitStatuses
  PROVE  /\ CommandTracked(c) => CommandTracked(OnExit(c, status))
         /\ c.obs.status # "absent" => OnExit(c, status).obs.status # "absent"
<1>1. status # "unseen"
  BY CommandPaneAssumption DEF ExitStatuses
<1>2. CASE ExitApplies(c, status)
  <2>1. OnExit(c, status).exited = status
        /\ OnExit(c, status).obs.status = ExitOutcome(status)
    BY <1>2 DEF OnExit
  <2> QED
    BY <1>1, <2>1 DEF CommandTracked, FreshPane, ExitOutcome
<1>3. CASE ~ExitApplies(c, status)
  <2>1. /\ OnExit(c, status).obs = c.obs
        /\ OnExit(c, status) = c \/ OnExit(c, status).exited = status
    BY <1>3 DEF OnExit, PaneRecords
  <2> QED
    BY <1>1, <2>1 DEF CommandTracked, FreshPane
<1> QED
  BY <1>2, <1>3

\* What an observation takes, the pane takes.
LEMMA Forgotten ==
  /\ FreshPane \in PaneRecords /\ FreshPane.obs.status = "absent"
  /\ ~CommandTracked(FreshPane) /\ QuietIdentity(FreshPane) = {}
BY FreshPaneType DEF FreshPane, CommandTracked, NoObs, QuietIdentity, NoPending

-----------------------------------------------------------------------------
(* What a call files                                                       *)

\* A command's entry is of its pane, under the tab given, and only where no
\* pushed status hid it.
LEMMA LedgerCommandFacts ==
  ASSUME NEW p, NEW R, NEW tab
  PROVE  /\ \A e \in LedgerCommand(p, R, tab) :
              /\ e.pane = p /\ e.tab = tab /\ tab # NoTab /\ ~Tracked(sts[p])
              /\ \E o \in R : /\ IsCompletion(o)
                              /\ e.card.origin = "command" /\ e.card.status = o.status
                              /\ e.card.msg = o.msg /\ e.card.code = o.code
         /\ \A o \in R : IsCompletion(o) /\ ~Tracked(sts[p]) /\ tab # NoTab
              => \E e \in LedgerCommand(p, R, tab) : e.pane = p
<1> DEFINE entry(o) == [pane |-> p, tab |-> tab, card |-> CommandCard([obs |-> o])]
           filed == {r \in R : IsCompletion(r) /\ ~Tracked(sts[p]) /\ tab # NoTab}
<1>1. LedgerCommand(p, R, tab) = {entry(o) : o \in filed}
  BY DEF LedgerCommand
<1>2. ASSUME NEW o
      PROVE  /\ entry(o).pane = p /\ entry(o).tab = tab /\ entry(o).card.origin = "command"
             /\ entry(o).card.status = o.status /\ entry(o).card.msg = o.msg
             /\ entry(o).card.code = o.code
  BY DEF CommandCard
<1> HIDE DEF entry
<1> QED
  BY <1>1, <1>2

\* So is a pushed status's.
LEMMA LedgerPushedFacts ==
  ASSUME NEW p, NEW R, NEW tab
  PROVE  /\ \A e \in LedgerPushed(p, R, tab) :
              /\ e.pane = p /\ e.tab = tab /\ tab # NoTab
              /\ \E r \in R : /\ Completed(r) /\ e.card = PushedCard(r)
         /\ \A r \in R : Completed(r) /\ tab # NoTab
              => \E e \in LedgerPushed(p, R, tab) : e.pane = p
<1> DEFINE entry(r) == [pane |-> p, tab |-> tab, card |-> PushedCard(r)]
           filed == {r \in R : Completed(r) /\ tab # NoTab}
<1>1. LedgerPushed(p, R, tab) = {entry(r) : r \in filed}
  BY DEF LedgerPushed
<1>2. ASSUME NEW r
      PROVE  entry(r).pane = p /\ entry(r).tab = tab /\ entry(r).card = PushedCard(r)
  OBVIOUS
<1> HIDE DEF entry
<1> QED
  BY <1>1, <1>2

\* What a pane shows.
LEMMA CardFacts ==
  ASSUME NEW p
  PROVE  /\ Tracked(sts[p]) => Card(p) = PushedCard(sts[p].row)
         /\ ~Tracked(sts[p]) /\ cmd[p].obs.status # "absent" => Card(p) = CommandCard(cmd[p])
         /\ ~Tracked(sts[p]) /\ cmd[p].obs.status = "absent" => Card(p) = NoCard
         /\ Finished(Card(p)) <=> IF Tracked(sts[p]) THEN Completed(sts[p].row)
                                                    ELSE IsCompletion(cmd[p].obs)
BY DEF Card, Shown, Finished, Completed, IsCompletion, Completions, PushedCard, CommandCard, NoCard

-----------------------------------------------------------------------------
(* What each call does to a pane                                           *)

\* A manifest drops the pane: it lacks it, and no grace holds it.
Goes(seats, p) == seats[p] = Nowhere /\ (absent[p] # Present \/ ~Remembers(p))

ExitsOf(exits, p) ==
  LedgerCommand(p, ExitReceded(cmd[p], exits[p]), TabOf(p))
    \cup LedgerPushed(p, ExitCleared(sts[p]), TabOf(p))

PrunesOf(p) ==
  LedgerPushed(p, {sts[p].row}, PruneTab(p)) \cup LedgerCommand(p, {cmd[p].obs}, PruneTab(p))

\* A manifest, pane by pane.
LEMMA PanesFacts ==
  ASSUME Typed, NEW seats \in Seatings, NEW exits \in Exits(seats), PanesChanged(seats, exits)
  PROVE  /\ \A p \in DOMAIN exits : p \in Panes /\ seats[p] # Nowhere /\ exits[p] \in ExitStatuses
         /\ cmd' = [p \in Panes |-> IF Goes(seats, p) THEN FreshPane
                                   ELSE IF p \in DOMAIN exits THEN OnExit(cmd[p], exits[p])
                                   ELSE cmd[p]]
         /\ sts' = [p \in Panes |-> IF Goes(seats, p) THEN FreshStatus
                                   ELSE IF p \in DOMAIN exits THEN ClearOnExit(sts[p])
                                   ELSE sts[p]]
         /\ absent' = [p \in Panes |-> IF seats[p] = Nowhere /\ ~Goes(seats, p) THEN TabOf(p)
                                                                             ELSE Present]
         /\ pushed' = (UNION {ExitsOf(exits, p) : p \in DOMAIN exits})
                        \cup (UNION {PrunesOf(p) : p \in {q \in Panes : Goes(seats, q)}})
         /\ wrote' \in {"none", "now"}
         /\ \A p \in DOMAIN exits :
              ExitReceded(cmd[p], exits[p]) # {} \/ ExitCleared(sts[p]) # {} => wrote' = "now"
         /\ \A p \in Panes : Goes(seats, p) /\ Loses(cmd[p], sts[p]) => wrote' = "now"
         /\ at' = seats /\ UNCHANGED <<tabs, interactive>>
         /\ \A t \in TabIds : flash'[t] \in {flash[t], FlashTicks}
         /\ flash' = [t \in TabIds |-> flash'[t]]
         /\ rendered' = TRUE /\ touched' = TRUE
         /\ missed' = [p \in Panes |-> IF seats[p] # Nowhere THEN 0
                                      ELSE IF missed[p] < 2 THEN missed[p] + 1 ELSE 2]
         /\ manifest' = TRUE
<1> DEFINE live == {p \in Panes : seats[p] # Nowhere}
           dying == DOMAIN exits
           cmdExited == [p \in Panes |-> IF p \in dying THEN OnExit(cmd[p], exits[p]) ELSE cmd[p]]
           stsExited == [p \in Panes |-> IF p \in dying THEN ClearOnExit(sts[p]) ELSE sts[p]]
           graced == {p \in Panes \ live : /\ FirstAbsence(p)
                                          /\ (Tracked(stsExited[p]) \/ CommandTracked(cmdExited[p]))}
           dropped == Panes \ (live \cup graced)
           pruned(p) == LedgerPushed(p, {stsExited[p].row}, PruneTab(p))
                          \cup LedgerCommand(p, {cmdExited[p].obs}, PruneTab(p))
           writes == \/ \E p \in dying : \/ ExitReceded(cmd[p], exits[p]) # {}
                                        \/ ExitCleared(sts[p]) # {}
                     \/ \E p \in dropped : Loses(cmdExited[p], stsExited[p])
<1>1. /\ dying \subseteq live /\ \A p \in dying : exits[p] \in ExitStatuses
  BY DEF Exits
<1>2. /\ at' = seats /\ UNCHANGED <<tabs, interactive>>
      /\ cmd' = [p \in Panes |-> IF p \in dropped THEN FreshPane ELSE cmdExited[p]]
      /\ sts' = [p \in Panes |-> IF p \in dropped THEN FreshStatus ELSE stsExited[p]]
      /\ absent' = [p \in Panes |-> IF p \in graced THEN TabOf(p) ELSE Present]
      /\ missed' = [p \in Panes |-> IF p \in live THEN 0
                                   ELSE IF missed[p] < 2 THEN missed[p] + 1 ELSE 2]
      /\ manifest' = TRUE
  <2>1. at' = seats /\ UNCHANGED <<tabs, interactive>>
    BY DEF PanesChanged
  <2>2. cmd' = [p \in Panes |-> IF p \in dropped THEN FreshPane ELSE cmdExited[p]]
    BY DEF PanesChanged
  <2>3. sts' = [p \in Panes |-> IF p \in dropped THEN FreshStatus ELSE stsExited[p]]
    BY DEF PanesChanged
  <2>4. absent' = [p \in Panes |-> IF p \in graced THEN TabOf(p) ELSE Present]
    BY DEF PanesChanged
  <2>5. /\ manifest' = TRUE
        /\ missed' = [p \in Panes |-> IF p \in live THEN 0
                                     ELSE IF missed[p] < 2 THEN missed[p] + 1 ELSE 2]
    BY DEF PanesChanged, Remember
  <2> QED
    BY <2>1, <2>2, <2>3, <2>4, <2>5
<1>3. /\ \A t \in TabIds : flash'[t] \in {flash[t], FlashTicks}
      /\ flash' = [t \in TabIds |-> flash'[t]]
  BY DEF PanesChanged
<1>4. /\ pushed' = (UNION {ExitsOf(exits, p) : p \in dying}) \cup (UNION {pruned(p) : p \in dropped})
      /\ wrote' = NowIf(writes) /\ rendered' = TRUE /\ touched' = TRUE
  <2>1. pushed' = (UNION {ExitsOf(exits, p) : p \in dying}) \cup (UNION {pruned(p) : p \in dropped})
    BY DEF PanesChanged, Emit, ExitsOf
  <2>2. wrote' = NowIf(writes)
    BY DEF PanesChanged, Emit
  <2>3. rendered' = TRUE /\ touched' = TRUE
    BY DEF PanesChanged, Emit
  <2> QED
    BY <2>1, <2>2, <2>3
<1>5. \A p \in Panes \ live : cmdExited[p] = cmd[p] /\ stsExited[p] = sts[p]
  BY <1>1
<1>6. dropped = {p \in Panes : Goes(seats, p)}
  BY <1>5 DEF Goes, Remembers, FirstAbsence
<1>7. graced = {p \in Panes : seats[p] = Nowhere /\ ~Goes(seats, p)}
  BY <1>5 DEF Goes, Remembers, FirstAbsence
<1>8. \A p \in dropped : p \in Panes \ live
  OBVIOUS
<1>9. \A p \in dropped : pruned(p) = PrunesOf(p) /\ (Loses(cmdExited[p], stsExited[p])
                                                  <=> Loses(cmd[p], sts[p]))
  BY <1>5, <1>8 DEF PrunesOf
<1>10. wrote' \in {"none", "now"} /\ (writes => wrote' = "now")
  BY <1>4 DEF NowIf
<1> HIDE DEF live, dropped, graced, pruned
<1>11. pushed' = (UNION {ExitsOf(exits, p) : p \in dying}) \cup (UNION {PrunesOf(p) : p \in dropped})
  BY <1>4, <1>9
<1>12. cmd' = [p \in Panes |-> IF Goes(seats, p) THEN FreshPane
                              ELSE IF p \in DOMAIN exits THEN OnExit(cmd[p], exits[p])
                              ELSE cmd[p]]
  BY <1>2, <1>6
<1>13. sts' = [p \in Panes |-> IF Goes(seats, p) THEN FreshStatus
                              ELSE IF p \in DOMAIN exits THEN ClearOnExit(sts[p])
                              ELSE sts[p]]
  BY <1>2, <1>6
<1>14. absent' = [p \in Panes |-> IF seats[p] = Nowhere /\ ~Goes(seats, p) THEN TabOf(p)
                                                                        ELSE Present]
  BY <1>2, <1>7
<1>15. missed' = [p \in Panes |-> IF seats[p] # Nowhere THEN 0
                                 ELSE IF missed[p] < 2 THEN missed[p] + 1 ELSE 2]
  BY <1>2 DEF live
<1>16. \A p \in Panes : Goes(seats, p) /\ Loses(cmd[p], sts[p]) => wrote' = "now"
  BY <1>6, <1>9, <1>10
<1>17. \A p \in DOMAIN exits :
          ExitReceded(cmd[p], exits[p]) # {} \/ ExitCleared(sts[p]) # {} => wrote' = "now"
  BY <1>10
<1>18. \A p \in DOMAIN exits : p \in Panes /\ seats[p] # Nowhere /\ exits[p] \in ExitStatuses
  BY <1>1 DEF live
<1> QED
  BY <1>2, <1>3, <1>4, <1>6, <1>10, <1>11, <1>12, <1>13, <1>14, <1>15, <1>16, <1>17, <1>18

\* What a manifest files, pane by pane.
LEMMA PanesFiled ==
  ASSUME Typed, NEW seats \in Seatings, NEW exits \in Exits(seats), PanesChanged(seats, exits)
  PROVE  \A e : e \in pushed' <=> \/ \E p \in DOMAIN exits : e \in ExitsOf(exits, p)
                                  \/ \E p \in Panes : Goes(seats, p) /\ e \in PrunesOf(p)
<1>1. pushed' = (UNION {ExitsOf(exits, p) : p \in DOMAIN exits})
                  \cup (UNION {PrunesOf(p) : p \in {q \in Panes : Goes(seats, q)}})
  BY PanesFacts
<1> QED
  BY ONLY <1>1, Zenon

\* The store's other calls, which leave where panes are.
LEMMA TimerFacts ==
  ASSUME Typed, Timer
  PROVE  /\ UNCHANGED <<interactive, topology>>
         /\ cmd' = [p \in Panes |-> OnTimer(cmd[p])]
         /\ sts' = [p \in Panes |-> ExpireStaleRunning(sts[p])]
         /\ pushed' = UNION {LedgerCommand(p, TimerReceded(cmd[p]), TabOf(p)) : p \in Panes}
         /\ wrote' \in {"none", "now"} /\ rendered' \in BOOLEAN /\ touched' \in BOOLEAN
         /\ (\E p \in Panes : TimerChanged(cmd[p]) \/ StaleCleared(sts[p]))
              => wrote' = "now" /\ touched' = TRUE
         /\ (\A p \in Panes : TimerCompleted(cmd[p]) = {})
              => flash' = [t \in TabIds |-> IF flash[t] > 0 THEN flash[t] - 1 ELSE 0]
         /\ flash' \in [TabIds -> 0..FlashTicks]
         /\ missed' = missed /\ manifest' = FALSE
<1> DEFINE changed == \/ \E p \in Panes : TimerChanged(cmd[p])
                      \/ \E p \in Panes : StaleCleared(sts[p])
           lit(t) == \E p \in Panes : "remote" \in TimerCompleted(cmd[p]) /\ TabOf(p) = t
<1>1. /\ UNCHANGED <<interactive, topology>>
      /\ cmd' = [p \in Panes |-> OnTimer(cmd[p])]
      /\ sts' = [p \in Panes |-> ExpireStaleRunning(sts[p])]
      /\ missed' = missed /\ manifest' = FALSE
  BY DEF Timer, Remember
<1>2. flash' = [t \in TabIds |-> IF lit(t) THEN FlashTicks
                               ELSE IF flash[t] > 0 THEN flash[t] - 1 ELSE 0]
  BY DEF Timer
<1>3. /\ pushed' = UNION {LedgerCommand(p, TimerReceded(cmd[p]), TabOf(p)) : p \in Panes}
      /\ wrote' = NowIf(changed) /\ rendered' = changed
      /\ touched' = (changed \/ pushed' # {})
  BY DEF Timer, Emit
<1>4. /\ wrote' \in {"none", "now"} /\ rendered' \in BOOLEAN /\ touched' \in BOOLEAN
      /\ changed => wrote' = "now" /\ touched' = TRUE
  BY <1>3 DEF NowIf
<1>5. flash' \in [TabIds -> 0..FlashTicks]
  BY <1>2, RadarStateAssumption DEF Typed
<1>6. (\A p \in Panes : TimerCompleted(cmd[p]) = {})
        => flash' = [t \in TabIds |-> IF flash[t] > 0 THEN flash[t] - 1 ELSE 0]
  BY <1>2
<1> QED
  BY <1>1, <1>3, <1>4, <1>5, <1>6

\* A foreground report changes one pane, and of it what the two stores clear.
LEMMA CommandFacts ==
  ASSUME Typed, NEW p \in Panes, NEW argv \in Argv, NEW fgd \in BOOLEAN,
         CommandChanged(p, argv, fgd)
  PROVE  /\ UNCHANGED <<interactive, topology, flash>>
         /\ cmd' \in [Panes -> PaneRecords]
         /\ \A q \in Panes : cmd'[q].obs = cmd[q].obs
         /\ StoreShaped(sts')
         /\ \A q \in Panes : Tracked(sts'[q]) <=> Tracked(sts[q])
         /\ \A q \in Panes : SameRow(sts[q], sts'[q]) \/ (q = p /\ wrote' = "now" /\ touched' = TRUE)
         /\ \/ pushed' = {} /\ \A q \in Panes : Completed(sts[q].row) => SameRow(sts[q], sts'[q])
            \/ /\ pushed' = LedgerPushed(p, PromptReceded(sts[p]), TabOf(p))
               /\ \A q \in Panes : q # p => SameRow(sts[q], sts'[q])
         /\ wrote' \in {"none", "now"} /\ rendered' \in BOOLEAN /\ touched' \in BOOLEAN
         /\ missed' = missed /\ manifest' = FALSE
<1> DEFINE prompt == argv \in Shells
           cleared == prompt /\ PromptReceded(sts[p]) # {}
           new == IF prompt THEN ClearOnPromptReturn(sts[p])
                  ELSE IF argv \in Agents THEN CancelSuspect(sts[p]) ELSE sts[p]
<1>1. /\ UNCHANGED <<interactive, topology, flash>>
      /\ cmd' = [cmd EXCEPT ![p] = OnCommandChanged(cmd[p], argv, fgd, interactive, {})]
      /\ sts' = [sts EXCEPT ![p] = new]
      /\ missed' = missed /\ manifest' = FALSE
  BY DEF CommandChanged, Remember
<1>2. /\ pushed' = (IF prompt THEN LedgerPushed(p, PromptReceded(sts[p]), TabOf(p)) ELSE {})
      /\ wrote' = NowIf(cleared) /\ rendered' = cleared
      /\ touched' = (cleared \/ pushed' # {})
  BY DEF CommandChanged, Emit
<1>3. /\ wrote' \in {"none", "now"} /\ rendered' \in BOOLEAN /\ touched' \in BOOLEAN
      /\ cleared => wrote' = "now" /\ touched' = TRUE
  BY <1>2 DEF NowIf
<1>4. OnCommandChanged(cmd[p], argv, fgd, interactive, {}) \in PaneRecords
      /\ OnCommandChanged(cmd[p], argv, fgd, interactive, {}).obs = cmd[p].obs
  BY OnCommandChangedType, CommandChangedKeepsRow DEF Typed
<1>5. /\ Shaped(sts[p]) /\ DOMAIN sts = Panes /\ \A q \in Panes : Shaped(sts[q])
  BY DEF Typed, StoreShaped
<1>6. /\ Shaped(new) /\ (Tracked(new) <=> Tracked(sts[p]))
      /\ ~cleared => SameRow(sts[p], new)
      /\ ~prompt => SameRow(sts[p], new)
  BY <1>5, PromptClears, CancelFacts DEF Tracked, SameRow
<1> HIDE DEF new
<1>7. /\ sts'[p] = new /\ DOMAIN sts' = Panes
      /\ \A q \in Panes : q # p => sts'[q] = sts[q]
  BY <1>1, <1>5
<1>8. StoreShaped(sts')
  BY <1>1, <1>5, <1>6, <1>7 DEF StoreShaped
<1>9. cmd' \in [Panes -> PaneRecords] /\ \A q \in Panes : cmd'[q].obs = cmd[q].obs
  BY <1>1, <1>4 DEF Typed
<1>10. \A q \in Panes : Tracked(sts'[q]) <=> Tracked(sts[q])
  BY <1>6, <1>7
<1>11. \A q \in Panes : q # p => SameRow(sts[q], sts'[q])
  BY <1>7 DEF SameRow
<1>12. \A q \in Panes : SameRow(sts[q], sts'[q]) \/ (q = p /\ wrote' = "now" /\ touched' = TRUE)
  BY <1>3, <1>6, <1>7, <1>11
<1>13. \/ pushed' = {} /\ \A q \in Panes : Completed(sts[q].row) => SameRow(sts[q], sts'[q])
       \/ /\ pushed' = LedgerPushed(p, PromptReceded(sts[p]), TabOf(p))
          /\ \A q \in Panes : q # p => SameRow(sts[q], sts'[q])
  BY <1>2, <1>6, <1>7, <1>11
<1> QED
  BY <1>1, <1>3, <1>8, <1>9, <1>10, <1>12, <1>13

\* A payload changes its pane's row, and may evict another's: but none if it
\* repeats the row there is, or relabels it.
LEMMA PipeFacts ==
  ASSUME Typed, WithinCap(sts), NEW p \in Panes, NEW payload \in Sent, NEW batch \in SentBatches,
         StatusPipe(p, payload, batch)
  PROVE  /\ UNCHANGED <<cmd, interactive, topology>>
         /\ StoreShaped(sts') /\ WithinCap(sts')
         /\ \A q \in Panes : \/ SameRow(sts[q], sts'[q])
                             \/ wrote' # "none" /\ touched' = TRUE
         /\ \A q \in Panes : q = p \/ SameRow(sts[q], sts'[q]) \/ (Tracked(sts[q]) /\ ~Tracked(sts'[q]))
         /\ \/ SameRow(sts[p], sts'[p])
            \/ sts'[p].row.status = payload.status /\ sts'[p].row.msg = payload.msg
            \/ ~Tracked(sts[p]) /\ ~Tracked(sts'[p])
         /\ pushed' = LedgerPushed(p, ApplyReceded(sts[p], payload), TabOf(p))
         /\ wrote' \in {"none", "deferred", "now"} /\ rendered' \in BOOLEAN /\ touched' \in BOOLEAN
         /\ wrote' = "deferred" => StatusNeedsTicks(sts'[p])
         /\ flash' = flash \/ touched' = TRUE
         /\ flash' \in [TabIds -> 0..FlashTicks]
         /\ missed' = missed /\ manifest' = FALSE
<1> DEFINE new == ApplyPayload(sts[p], payload, batch, 0)
           old == sts[p].row
           same == sts'[p].row = old
           labelOnly == LabelOnly(old, sts'[p].row)
           lit(t) == ~same /\ payload.status = "pending" /\ old.status # "pending" /\ TabOf(p) = t
<1>0. sts = [q \in Panes |-> sts[q]] /\ Shaped(sts[p])
  BY DEF Typed, StoreShaped
<1>1. /\ UNCHANGED <<cmd, interactive, topology>>
      /\ sts' \in EvictOverCap([sts EXCEPT ![p] = new])
      /\ missed' = missed /\ manifest' = FALSE
  BY <1>0 DEF StatusPipe, Remember
<1>2. flash' = [t \in TabIds |-> IF lit(t) THEN FlashTicks ELSE flash[t]]
  BY DEF StatusPipe
<1>3. /\ pushed' = LedgerPushed(p, ApplyReceded(sts[p], payload), TabOf(p))
      /\ wrote' = (IF same THEN "none" ELSE IF labelOnly THEN "deferred" ELSE "now")
      /\ rendered' = (~same /\ ~labelOnly)
      /\ touched' = (~same \/ pushed' # {})
  BY DEF StatusPipe, Emit
<1>4. /\ flash' \in [TabIds -> 0..FlashTicks] /\ (same => flash' = flash)
  BY <1>2, RadarStateAssumption DEF Typed
<1>5. /\ Shaped(sts[p]) /\ payload \in Payloads
  BY <1>0, RadarStateAssumption
<1>6. /\ Shaped(new) /\ Tracked(new) /\ new.row.status = payload.status /\ new.row.msg = payload.msg
  BY <1>5, ApplyFacts
<1> HIDE DEF new
<1>7. /\ StoreShaped(sts') /\ WithinCap(sts')
      /\ \A q \in Panes : q # p => sts'[q] = sts[q] \/ (Tracked(sts[q]) /\ sts'[q] = FreshStatus)
      /\ sts'[p] = new \/ (Tracked(new) /\ sts'[p] = FreshStatus)
      /\ Tracked(sts[p]) => sts' = [sts EXCEPT ![p] = new]
      /\ sts'[p] # new => \A q \in Panes : q # p => sts'[q] = sts[q]
  BY <1>1, <1>6, EvictFacts DEF Typed
<1>8. Tracked(sts[p]) => /\ sts'[p] = new
                         /\ \A q \in Panes : q # p => sts'[q] = sts[q]
  BY <1>0, <1>7
<1>9. ~Tracked(sts[p]) /\ sts'[p] = new => ~same
  BY <1>6 DEF Tracked
<1>10. same => \A q \in Panes : q # p => sts'[q] = sts[q]
  BY <1>7, <1>8, <1>9
<1>11. ~Tracked(sts[p]) /\ sts'[p] # new => ~Tracked(sts'[p])
  BY <1>7, FreshShaped
<1>12. \A q \in Panes : SameRow(sts[q], sts'[q]) \/ (wrote' # "none" /\ touched' = TRUE)
  <2>1. CASE same
    BY <1>10, <2>1 DEF SameRow
  <2>2. CASE ~same
    BY <1>3, <2>2
  <2> QED
    BY <2>1, <2>2
<1>13. \A q \in Panes : q = p \/ SameRow(sts[q], sts'[q]) \/ (Tracked(sts[q]) /\ ~Tracked(sts'[q]))
  BY <1>7, FreshShaped DEF SameRow
<1>14. wrote' = "deferred" => StatusNeedsTicks(sts'[p])
  <2> SUFFICES ASSUME labelOnly PROVE StatusNeedsTicks(sts'[p])
    BY <1>3
  <2> QED
    BY <1>7 DEF LabelOnly, StatusNeedsTicks
<1>15. flash' = flash \/ touched' = TRUE
  BY <1>3, <1>4
<1>16. \/ SameRow(sts[p], sts'[p])
       \/ sts'[p].row.status = payload.status /\ sts'[p].row.msg = payload.msg
       \/ ~Tracked(sts[p]) /\ ~Tracked(sts'[p])
  BY <1>6, <1>8, <1>11
<1> QED
  BY <1>1, <1>3, <1>4, <1>7, <1>12, <1>13, <1>14, <1>15, <1>16

\* A new configuration re-judges the commands alone.
LEMMA ConfigFacts ==
  ASSUME Typed, NEW extras \in InteractiveExtras, SetInteractiveCommands(extras)
  PROVE  /\ UNCHANGED <<sts, topology, flash>>
         /\ interactive' \in SUBSET Commands
         /\ cmd' \in [Panes -> PaneRecords]
         /\ \A p \in Panes : \/ cmd'[p].obs = cmd[p].obs
                             \/ cmd'[p].obs.status = "idle" /\ cmd[p].obs.status = "running"
         /\ pushed' = {} /\ wrote' \in {"none", "now"} /\ rendered' = TRUE
         /\ touched' = (cmd' # cmd) /\ (cmd' # cmd => wrote' = "now")
         /\ missed' = missed /\ manifest' = FALSE
<1>1. /\ UNCHANGED <<sts, topology, flash>>
      /\ interactive' = DefaultInteractive \cup extras
      /\ cmd' = [p \in Panes |-> OnInteractiveExtras(cmd[p], interactive')]
      /\ missed' = missed /\ manifest' = FALSE
  BY DEF SetInteractiveCommands, Remember
<1>2. pushed' = {} /\ wrote' = NowIf(cmd' # cmd) /\ rendered' = TRUE /\ touched' = (cmd' # cmd)
  BY DEF SetInteractiveCommands, Emit
<1>3. interactive' \in SUBSET Commands
  BY <1>1, RadarStateAssumption, CommandPaneAssumption
<1>4. \A p \in Panes : /\ OnInteractiveExtras(cmd[p], interactive') \in PaneRecords
                      /\ \/ OnInteractiveExtras(cmd[p], interactive').obs = cmd[p].obs
                         \/ /\ OnInteractiveExtras(cmd[p], interactive').obs.status = "idle"
                            /\ cmd[p].obs.status = "running"
  BY <1>3, OnInteractiveExtrasType, InteractiveExtrasKeepOrIdle DEF Typed
<1>5. /\ cmd' \in [Panes -> PaneRecords]
      /\ \A p \in Panes : \/ cmd'[p].obs = cmd[p].obs
                          \/ cmd'[p].obs.status = "idle" /\ cmd[p].obs.status = "running"
  BY <1>1, <1>4
<1>6. wrote' \in {"none", "now"} /\ (cmd' # cmd => wrote' = "now")
  BY <1>2 DEF NowIf
<1> QED
  BY <1>1, <1>2, <1>3, <1>5, <1>6

\* A reload keeps what was observed and knows no seat.
LEMMA LoadFacts ==
  ASSUME Typed, LoadSnapshot
  PROVE  /\ cmd' \in [Panes -> PaneRecords] /\ StoreShaped(sts')
         /\ \A p \in Panes : Tracked(sts'[p]) <=> Tracked(sts[p])
         /\ tabs' = <<>> /\ at' = [p \in Panes |-> Nowhere] /\ absent' = [p \in Panes |-> Present]
         /\ flash' = [t \in TabIds |-> 0] /\ interactive' = interactive
         /\ pushed' = {} /\ wrote' = "none" /\ rendered' = TRUE /\ touched' = TRUE
         /\ lastTab' = [p \in Panes |-> NoTab] /\ missed' = [p \in Panes |-> 0] /\ manifest' = FALSE
<1> DEFINE loaded(p) == [FreshPane EXCEPT
                           !.obs = [cmd[p].obs EXCEPT
                                      !.age = IF cmd[p].obs.status = "done" THEN 0 ELSE cmd[p].obs.age]]
<1>1. /\ cmd' = [p \in Panes |-> OnInteractiveExtras(loaded(p), interactive)]
      /\ sts' = [p \in Panes |-> CancelSuspect(sts[p])]
  BY DEF LoadSnapshot
<1>2. ASSUME NEW p \in Panes PROVE loaded(p) \in PaneRecords
  <2>1. cmd[p].obs \in Observations /\ 0 \in 0..DoneTtlTicks
    BY PaneParts, EarlyAge DEF Typed
  <2>2. [cmd[p].obs EXCEPT !.age = IF cmd[p].obs.status = "done" THEN 0 ELSE cmd[p].obs.age]
          \in Observations
    BY <2>1 DEF Observations
  <2> QED
    BY <2>2, FreshPaneType DEF PaneRecords
<1> HIDE DEF loaded
<1>3. cmd' \in [Panes -> PaneRecords]
  BY <1>1, <1>2, OnInteractiveExtrasType DEF Typed
<1>4. \A p \in Panes : Shaped(CancelSuspect(sts[p])) /\ CancelSuspect(sts[p]).row = sts[p].row
  BY CancelFacts DEF Typed, StoreShaped
<1>5. StoreShaped(sts') /\ \A p \in Panes : Tracked(sts'[p]) <=> Tracked(sts[p])
  BY <1>1, <1>4 DEF StoreShaped, Tracked
<1> QED
  BY <1>3, <1>5 DEF LoadSnapshot, Emit

-----------------------------------------------------------------------------
(* The invariant                                                           *)

\* A pane without a seat is in no tab, and a pane in a tab is in one of them.
LEMMA TabFacts ==
  ASSUME NEW ts \in Seq(TabIds), NEW seats, NEW p
  PROVE  /\ seats[p] = Nowhere => TabIn(ts, seats, p) = NoTab
         /\ TabIn(ts, seats, p) \in TabIds \cup {NoTab}
BY DEF TabIn, Nowhere

\* The history of seats follows the join of tabs and panes.
LEMMA RememberFacts ==
  ASSUME Typed, NEW seen, NEW b, Remember(seen, b), tabs' \in Seq(TabIds)
  PROVE  /\ lastTab' \in [Panes -> TabIds \cup {NoTab}]
         /\ \A p \in Panes : /\ TabOf(p)' # NoTab => lastTab'[p] = TabOf(p)'
                             /\ TabOf(p)' = NoTab => lastTab'[p] = lastTab[p]
<1>1. lastTab' = [p \in Panes |-> IF TabOf(p)' # NoTab THEN TabOf(p)' ELSE lastTab[p]]
  BY DEF Remember, TabOf
<1>2. \A p \in Panes : TabOf(p)' \in TabIds \cup {NoTab}
  BY TabFacts DEF TabOf
<1> QED
  BY <1>1, <1>2 DEF Typed

\* A fresh instance knows nothing of any pane.
LEMMA InitInv == Init => RadarInv
<1> SUFFICES ASSUME Init PROVE RadarInv
  OBVIOUS
<1>1. Typed
  <2>1. cmd \in [Panes -> PaneRecords] /\ StoreShaped(sts)
    BY FreshPaneType, FreshShaped DEF Init, StoreShaped
  <2>2. interactive \in SUBSET Commands /\ tabs \in Seq(TabIds)
    BY CommandPaneAssumption DEF Init
  <2>3. at \in Seatings /\ absent \in [Panes -> {Present, NoTab} \cup TabIds]
    BY DEF Init, Seatings
  <2>4. flash \in [TabIds -> 0..FlashTicks]
    BY RadarStateAssumption DEF Init
  <2>5. /\ lastTab \in [Panes -> TabIds \cup {NoTab}] /\ missed \in [Panes -> 0..2]
        /\ wrote = "none" /\ rendered = FALSE /\ touched = FALSE /\ manifest = FALSE
    BY DEF Init
  <2> QED
    BY <2>1, <2>2, <2>3, <2>4, <2>5 DEF Typed
<1>2. \A p \in Panes : Captures(p)
  BY RadarStateAssumption DEF Init, Captures, TabOf, TabIn, Nowhere
<1>3. WithinCap(sts)
  <2>1. TrackedPanes(sts) = {}
    BY <1>1, TrackedFinite, FreshShaped DEF Init, Typed
  <2> QED
    BY <2>1, FS_EmptySet, StatusPaneAssumption DEF WithinCap
<1>4. DeferredHasATick
  BY DEF Init, DeferredHasATick
<1> QED
  BY <1>1, <1>2, <1>3, <1>4 DEF RadarInv

\* A call other than a manifest that leaves seats, grace and count.
LEMMA CapturesStay ==
  ASSUME Typed, NEW p \in Panes, Captures(p), NEW seen, NEW b, Remember(seen, b),
         tabs' \in Seq(TabIds), UNCHANGED <<at, absent, missed>>
  PROVE  Captures(p)'
<1>1. /\ TabOf(p)' # NoTab => lastTab'[p] = TabOf(p)'
      /\ TabOf(p)' = NoTab => lastTab'[p] = lastTab[p]
  BY RememberFacts
<1>2. at[p] = Nowhere => TabOf(p)' = NoTab
  BY TabFacts DEF TabOf
<1>3. absent[p] \in TabIds => absent[p] # Present
  BY RadarStateAssumption
<1> QED
  BY <1>1, <1>2, <1>3 DEF Captures

\* A manifest holds a pane under the tab it was in, for one manifest more.
LEMMA PanesCaptures ==
  ASSUME RadarInv, NEW seats \in Seatings, NEW exits \in Exits(seats), PanesChanged(seats, exits),
         NEW p \in Panes
  PROVE  Captures(p)'
<1>1. Typed /\ Captures(p)
  BY DEF RadarInv
<1>2. /\ absent' = [q \in Panes |-> IF seats[q] = Nowhere /\ ~Goes(seats, q) THEN TabOf(q)
                                                                       ELSE Present]
      /\ at' = seats /\ tabs' = tabs
      /\ missed' = [q \in Panes |-> IF seats[q] # Nowhere THEN 0
                                   ELSE IF missed[q] < 2 THEN missed[q] + 1 ELSE 2]
  BY <1>1, PanesFacts
<1>3. PICK seen : Remember(seen, TRUE)
  BY DEF PanesChanged
<1>4. /\ TabOf(p)' # NoTab => lastTab'[p] = TabOf(p)'
      /\ TabOf(p)' = NoTab => lastTab'[p] = lastTab[p]
  BY <1>1, <1>2, <1>3, RememberFacts DEF Typed
<1>5. seats[p] = Nowhere => TabOf(p)' = NoTab
  BY <1>1, <1>2, TabFacts DEF TabOf, Typed
<1>6. absent'[p] # Present => seats[p] = Nowhere /\ absent'[p] = TabOf(p)
  BY <1>2
<1>7. missed[p] \in 0..2
  BY <1>1 DEF Typed
<1>8. seats[p] = Nowhere => missed'[p] >= 1
  BY <1>2, <1>7
<1>9. absent'[p] \in TabIds => absent'[p] # Present /\ absent'[p] # NoTab
  BY RadarStateAssumption
<1> QED
  BY <1>1, <1>2, <1>4, <1>5, <1>6, <1>8, <1>9 DEF Captures

\* The store keeps its shape and its cap under a manifest.
LEMMA PanesTyped ==
  ASSUME RadarInv, NEW seats \in Seatings, NEW exits \in Exits(seats), PanesChanged(seats, exits)
  PROVE  Typed' /\ WithinCap(sts)'
<1>1. Typed /\ WithinCap(sts) /\ StoreShaped(sts)
  BY DEF RadarInv, Typed
<1>2. \A p \in DOMAIN exits : p \in Panes /\ exits[p] \in ExitStatuses
  BY <1>1, PanesFacts
<1>3. cmd' = [p \in Panes |-> IF Goes(seats, p) THEN FreshPane
                            ELSE IF p \in DOMAIN exits THEN OnExit(cmd[p], exits[p]) ELSE cmd[p]]
  BY <1>1, PanesFacts
<1>4. sts' = [p \in Panes |-> IF Goes(seats, p) THEN FreshStatus
                            ELSE IF p \in DOMAIN exits THEN ClearOnExit(sts[p]) ELSE sts[p]]
  BY <1>1, PanesFacts
<1>5. cmd' \in [Panes -> PaneRecords]
  BY <1>1, <1>2, <1>3, OnExitType, FreshPaneType DEF Typed
<1>6. \A p \in Panes : Shaped(sts'[p]) /\ (Tracked(sts'[p]) => Tracked(sts[p]))
  BY <1>1, <1>4, ExitClears, FreshShaped DEF StoreShaped
<1>7. StoreShaped(sts')
  BY <1>4, <1>6 DEF StoreShaped
<1>8. WithinCap(sts')
  BY <1>1, <1>6, <1>7, FewerTracked
<1>9. flash' \in [TabIds -> 0..FlashTicks]
  <2>1. (\A t \in TabIds : flash'[t] \in {flash[t], FlashTicks}) /\ flash' = [t \in TabIds |-> flash'[t]]
    BY <1>1, PanesFacts
  <2>2. FlashTicks \in 0..FlashTicks /\ flash \in [TabIds -> 0..FlashTicks]
    BY <1>1, RadarStateAssumption DEF Typed
  <2>3. \A t \in TabIds : flash'[t] \in 0..FlashTicks
    BY <2>1, <2>2
  <2> QED
    BY <2>1, <2>3
<1>10. absent' \in [Panes -> {Present, NoTab} \cup TabIds]
  <2>1. \A p \in Panes : TabOf(p) \in TabIds \cup {NoTab}
    BY <1>1, TabFacts DEF TabOf, Typed
  <2>2. absent' = [p \in Panes |-> IF seats[p] = Nowhere /\ ~Goes(seats, p) THEN TabOf(p)
                                                                        ELSE Present]
    BY <1>1, PanesFacts
  <2> QED
    BY <2>1, <2>2
<1>11. missed' \in [Panes -> 0..2]
  <2>1. missed' = [p \in Panes |-> IF seats[p] # Nowhere THEN 0
                                 ELSE IF missed[p] < 2 THEN missed[p] + 1 ELSE 2]
    BY <1>1, PanesFacts
  <2> QED
    BY <1>1, <2>1 DEF Typed
<1>12. /\ tabs' = tabs /\ interactive' = interactive /\ at' = seats
       /\ wrote' \in {"none", "now"} /\ rendered' = TRUE /\ touched' = TRUE /\ manifest' = TRUE
  BY <1>1, PanesFacts
<1>13. lastTab' \in [Panes -> TabIds \cup {NoTab}]
  <2>1. PICK seen : Remember(seen, TRUE)
    BY DEF PanesChanged
  <2> QED
    BY <1>1, <1>12, <2>1, RememberFacts DEF Typed
<1> QED
  BY <1>1, <1>5, <1>7, <1>8, <1>9, <1>10, <1>11, <1>12, <1>13 DEF Typed

\* A call other than a manifest keeps the invariant if it keeps the stores' types,
\* the cap and the tick of a put-off write.
LEMMA CallKeeps ==
  ASSUME RadarInv, NEW b \in BOOLEAN, Remember(missed, b), UNCHANGED <<at, absent>>,
         tabs' \in Seq(TabIds), interactive' \in SUBSET Commands,
         cmd' \in [Panes -> PaneRecords], StoreShaped(sts'), WithinCap(sts'),
         flash' \in [TabIds -> 0..FlashTicks], rendered' \in BOOLEAN, touched' \in BOOLEAN,
         wrote' \in {"none", "deferred", "now"},
         wrote' = "deferred" => \E p \in Panes : StatusNeedsTicks(sts'[p])
  PROVE  RadarInv'
<1>1. Typed /\ \A p \in Panes : Captures(p)
  BY DEF RadarInv
<1>2. missed' = missed /\ manifest' = b
  BY DEF Remember
<1>3. \A p \in Panes : Captures(p)'
  BY <1>1, <1>2, CapturesStay
<1>4. lastTab' \in [Panes -> TabIds \cup {NoTab}]
  BY <1>1, RememberFacts
<1>5. Typed'
  BY <1>1, <1>2, <1>4 DEF Typed
<1>6. DeferredHasATick'
  BY DEF DeferredHasATick, NeedsFastTicks
<1> QED
  BY <1>3, <1>5, <1>6 DEF RadarInv

\* Every call keeps the invariant.
LEMMA RadarStep ==
  ASSUME RadarInv, [Next]_vars
  PROVE  RadarInv'
<1>0. /\ Typed /\ WithinCap(sts) /\ StoreShaped(sts)
      /\ cmd \in [Panes -> PaneRecords] /\ tabs \in Seq(TabIds) /\ interactive \in SUBSET Commands
      /\ flash \in [TabIds -> 0..FlashTicks]
  BY DEF RadarInv, Typed
<1>1. CASE Timer
  <2>1. /\ UNCHANGED <<interactive, tabs, at, absent>>
        /\ cmd' = [p \in Panes |-> OnTimer(cmd[p])]
        /\ sts' = [p \in Panes |-> ExpireStaleRunning(sts[p])]
        /\ wrote' \in {"none", "now"} /\ rendered' \in BOOLEAN /\ touched' \in BOOLEAN
        /\ flash' \in [TabIds -> 0..FlashTicks]
    BY <1>0, <1>1, TimerFacts DEF topology
  <2>2. cmd' \in [Panes -> PaneRecords]
    BY <1>0, <2>1, OnTimerType
  <2>3. \A p \in Panes : Shaped(sts'[p]) /\ (Tracked(sts'[p]) => Tracked(sts[p]))
    BY <1>0, <2>1, ExpiryClears DEF StoreShaped
  <2>4. StoreShaped(sts')
    BY <2>1, <2>3 DEF StoreShaped
  <2>5. WithinCap(sts')
    BY <1>0, <2>3, <2>4, FewerTracked
  <2>6. Remember(missed, FALSE)
    BY <1>1 DEF Timer
  <2> QED
    BY <1>0, <2>1, <2>2, <2>4, <2>5, <2>6, CallKeeps
<1>2. ASSUME NEW ts \in TabLists, TabsChanged(ts) PROVE RadarInv'
  <2>1. /\ tabs' = ts /\ UNCHANGED <<cmd, sts, interactive, at, absent, flash>>
        /\ Remember(missed, FALSE) /\ wrote' = "none"
        /\ rendered' \in BOOLEAN /\ touched' \in BOOLEAN
    BY <1>2 DEF TabsChanged, Emit, stores
  <2>2. tabs' \in Seq(TabIds)
    BY <2>1, RadarStateAssumption
  <2>3. cmd' \in [Panes -> PaneRecords] /\ StoreShaped(sts') /\ WithinCap(sts')
    BY <1>0, <2>1
  <2> QED
    BY <1>0, <2>1, <2>2, <2>3, CallKeeps
<1>3. ASSUME NEW seats \in Seatings, NEW exits \in Exits(seats), PanesChanged(seats, exits)
      PROVE  RadarInv'
  <2>1. Typed' /\ WithinCap(sts)' /\ \A p \in Panes : Captures(p)'
    BY <1>3, PanesTyped, PanesCaptures
  <2>2. wrote' \in {"none", "now"}
    BY <1>0, <1>3, PanesFacts
  <2> QED
    BY <2>1, <2>2 DEF RadarInv, DeferredHasATick
<1>4. ASSUME NEW p \in Panes, NEW argv \in Argv, NEW fgd \in BOOLEAN, CommandChanged(p, argv, fgd)
      PROVE  RadarInv'
  <2>1. /\ UNCHANGED <<interactive, tabs, at, absent, flash>>
        /\ cmd' \in [Panes -> PaneRecords] /\ StoreShaped(sts')
        /\ \A q \in Panes : Tracked(sts'[q]) <=> Tracked(sts[q])
        /\ wrote' \in {"none", "now"} /\ rendered' \in BOOLEAN /\ touched' \in BOOLEAN
    BY <1>0, <1>4, CommandFacts DEF topology
  <2>2. WithinCap(sts')
    BY <1>0, <2>1, FewerTracked
  <2>3. Remember(missed, FALSE)
    BY <1>4 DEF CommandChanged
  <2> QED
    BY <1>0, <2>1, <2>2, <2>3, CallKeeps
<1>5. ASSUME NEW p \in Panes, NEW payload \in Sent, NEW batch \in SentBatches,
             StatusPipe(p, payload, batch)
      PROVE  RadarInv'
  <2>1. /\ UNCHANGED <<cmd, interactive, tabs, at, absent>>
        /\ StoreShaped(sts') /\ WithinCap(sts')
        /\ wrote' \in {"none", "deferred", "now"} /\ rendered' \in BOOLEAN /\ touched' \in BOOLEAN
        /\ wrote' = "deferred" => StatusNeedsTicks(sts'[p])
        /\ flash' \in [TabIds -> 0..FlashTicks]
    BY <1>0, <1>5, PipeFacts DEF topology
  <2>2. Remember(missed, FALSE)
    BY <1>5 DEF StatusPipe
  <2> QED
    BY <1>0, <2>1, <2>2, CallKeeps
<1>6. ASSUME NEW extras \in InteractiveExtras, SetInteractiveCommands(extras) PROVE RadarInv'
  <2>1. /\ UNCHANGED <<sts, tabs, at, absent, flash>>
        /\ interactive' \in SUBSET Commands /\ cmd' \in [Panes -> PaneRecords]
        /\ wrote' \in {"none", "now"} /\ rendered' = TRUE /\ touched' \in BOOLEAN
    BY <1>0, <1>6, ConfigFacts DEF topology
  <2>2. Remember(missed, FALSE)
    BY <1>6 DEF SetInteractiveCommands
  <2>3. StoreShaped(sts') /\ WithinCap(sts')
    BY <1>0, <2>1
  <2> QED
    BY <1>0, <2>1, <2>2, <2>3, CallKeeps
<1>7. CASE LoadSnapshot
  <2>1. /\ cmd' \in [Panes -> PaneRecords] /\ StoreShaped(sts')
        /\ \A p \in Panes : Tracked(sts'[p]) <=> Tracked(sts[p])
        /\ tabs' = <<>> /\ at' = [p \in Panes |-> Nowhere] /\ absent' = [p \in Panes |-> Present]
        /\ flash' = [t \in TabIds |-> 0] /\ interactive' = interactive
        /\ wrote' = "none" /\ rendered' = TRUE /\ touched' = TRUE
        /\ lastTab' = [p \in Panes |-> NoTab] /\ missed' = [p \in Panes |-> 0] /\ manifest' = FALSE
    BY <1>0, <1>7, LoadFacts
  <2>2. at' \in Seatings /\ flash' \in [TabIds -> 0..FlashTicks]
    BY <2>1, RadarStateAssumption DEF Seatings
  <2>3. Typed'
    <3>1. /\ tabs' \in Seq(TabIds) /\ interactive' \in SUBSET Commands
          /\ absent' \in [Panes -> {Present, NoTab} \cup TabIds]
      BY <1>0, <2>1
    <3>2. lastTab' \in [Panes -> TabIds \cup {NoTab}] /\ missed' \in [Panes -> 0..2]
      BY <2>1
    <3> QED
      BY <2>1, <2>2, <3>1, <3>2 DEF Typed
  <2>4. \A p \in Panes : Captures(p)'
    BY <2>1, TabFacts, RadarStateAssumption DEF Captures, TabOf, TabIn
  <2>5. WithinCap(sts')
    BY <1>0, <2>1, FewerTracked
  <2> QED
    BY <2>1, <2>3, <2>4, <2>5 DEF RadarInv, DeferredHasATick
<1>8. CASE UNCHANGED vars
  BY <1>8 DEF RadarInv, Typed, Captures, TabOf, WithinCap, DeferredHasATick, NeedsFastTicks,
              vars, stores, topology, outputs
<1> QED
  BY <1>1, <1>2, <1>3, <1>4, <1>5, <1>6, <1>7, <1>8 DEF Next

-----------------------------------------------------------------------------
(* What leaves a card                                                      *)

\* An entry under `tab' of what the pane shows, which is finished.
Files(e, p, tab) ==
  /\ e.pane = p /\ e.tab = tab /\ tab # NoTab
  /\ Finished(e.card) /\ ~OtherCard(e.card, Card(p))

\* The entry of an observation that the card shows.
LEMMA CommandEntry ==
  ASSUME NEW p, NEW R, NEW tab,
         \A o \in R : IsCompletion(o) => SameCard(cmd[p].obs, o),
         NEW e \in LedgerCommand(p, R, tab)
  PROVE  Files(e, p, tab)
<1>1. /\ e.pane = p /\ e.tab = tab /\ tab # NoTab /\ ~Tracked(sts[p])
      /\ \E o \in R : /\ IsCompletion(o)
                      /\ e.card.origin = "command" /\ e.card.status = o.status
                      /\ e.card.msg = o.msg /\ e.card.code = o.code
  BY LedgerCommandFacts
<1>2. /\ IsCompletion(cmd[p].obs) /\ e.card.origin = "command"
      /\ e.card.status = cmd[p].obs.status /\ e.card.msg = cmd[p].obs.msg
      /\ e.card.code = cmd[p].obs.code
  BY <1>1 DEF SameCard, IsCompletion
<1>3. Card(p) = CommandCard(cmd[p])
  BY <1>1, <1>2, CardFacts DEF IsCompletion, Completions
<1> QED
  BY <1>1, <1>2, <1>3 DEF Files, Finished, OtherCard, CommandCard, IsCompletion, Completions

\* The entry of the pushed row.
LEMMA PushedEntry ==
  ASSUME NEW p, NEW R, R \subseteq {sts[p].row}, NEW tab, NEW e \in LedgerPushed(p, R, tab)
  PROVE  Files(e, p, tab)
<1>1. /\ e.pane = p /\ e.tab = tab /\ tab # NoTab
      /\ Completed(sts[p].row) /\ e.card = PushedCard(sts[p].row)
  BY LedgerPushedFacts
<1>2. Card(p) = PushedCard(sts[p].row)
  BY <1>1, CardFacts DEF Tracked, Completed
<1> QED
  BY <1>1, <1>2 DEF Files, Finished, OtherCard, PushedCard, Completed

\* A call files nothing but what cards show, under the tab they are or were in.
LEMMA OnlyCardsAreFiled ==
  ASSUME Typed, Next, NEW e \in pushed'
  PROVE  \E p \in Panes : Files(e, p, TabOf(p)) \/ Files(e, p, PruneTab(p))
<1>1. CASE Timer
  <2>1. PICK p \in Panes : e \in LedgerCommand(p, TimerReceded(cmd[p]), TabOf(p))
    BY <1>1, TimerFacts
  <2>2. \A o \in TimerReceded(cmd[p]) : SameCard(cmd[p].obs, o)
    BY TimerHandsOff DEF Typed
  <2> QED
    BY <2>1, <2>2, CommandEntry
<1>2. ASSUME NEW ts \in TabLists, TabsChanged(ts) PROVE FALSE
  BY <1>2 DEF TabsChanged, Emit
<1>3. ASSUME NEW seats \in Seatings, NEW exits \in Exits(seats), PanesChanged(seats, exits)
      PROVE  \E p \in Panes : Files(e, p, TabOf(p)) \/ Files(e, p, PruneTab(p))
  <2>0. \A p \in DOMAIN exits : p \in Panes /\ exits[p] \in ExitStatuses
    BY <1>3, PanesFacts
  <2>1. ASSUME NEW p \in DOMAIN exits, e \in ExitsOf(exits, p)
        PROVE  p \in Panes /\ Files(e, p, TabOf(p))
    <3>1. p \in Panes /\ exits[p] \in ExitStatuses
      BY <2>0
    <3>2. /\ \A o \in ExitReceded(cmd[p], exits[p]) : SameCard(cmd[p].obs, o)
          /\ ExitCleared(sts[p]) \subseteq {sts[p].row}
      BY <3>1, ExitHandsOff, ExitClears DEF Typed, StoreShaped, SameCard
    <3> QED
      BY <2>1, <3>1, <3>2, CommandEntry, PushedEntry DEF ExitsOf
  <2>2. ASSUME NEW p \in Panes, e \in PrunesOf(p) PROVE Files(e, p, PruneTab(p))
    <3>1. CASE e \in LedgerPushed(p, {sts[p].row}, PruneTab(p))
      BY <3>1, PushedEntry
    <3>2. CASE e \in LedgerCommand(p, {cmd[p].obs}, PruneTab(p))
      <4>1. \A o \in {cmd[p].obs} : SameCard(cmd[p].obs, o)
        BY DEF SameCard
      <4> QED
        BY <3>2, <4>1, CommandEntry
    <3> QED
      BY <2>2, <3>1, <3>2 DEF PrunesOf
  <2>3. \/ \E p \in DOMAIN exits : e \in ExitsOf(exits, p)
        \/ \E p \in Panes : e \in PrunesOf(p)
    BY <1>3, PanesFiled
  <2> QED
    BY <2>1, <2>2, <2>3
<1>4. ASSUME NEW p \in Panes, NEW argv \in Argv, NEW fgd \in BOOLEAN, CommandChanged(p, argv, fgd)
      PROVE  Files(e, p, TabOf(p))
  <2>1. pushed' = {} \/ pushed' = LedgerPushed(p, PromptReceded(sts[p]), TabOf(p))
    BY <1>4, CommandFacts
  <2>2. PromptReceded(sts[p]) \subseteq {sts[p].row}
    BY PromptClears DEF Typed, StoreShaped
  <2> QED
    BY <2>1, <2>2, PushedEntry
<1>5. ASSUME NEW p \in Panes, NEW payload \in Sent, NEW batch \in SentBatches,
             StatusPipe(p, payload, batch)
      PROVE  Files(e, p, TabOf(p))
  <2>1. pushed' = LedgerPushed(p, ApplyReceded(sts[p], payload), TabOf(p))
    BY <1>5 DEF StatusPipe, Emit
  <2>2. ApplyReceded(sts[p], payload) \subseteq {sts[p].row}
    BY DEF ApplyReceded
  <2> QED
    BY <2>1, <2>2, PushedEntry
<1>6. ASSUME NEW extras \in InteractiveExtras, SetInteractiveCommands(extras) PROVE FALSE
  BY <1>6, ConfigFacts
<1>7. CASE LoadSnapshot
  BY <1>7, LoadFacts
<1> QED
  BY <1>1, <1>2, <1>3, <1>4, <1>5, <1>6, <1>7 DEF Next

\* What a pane of the records c and s shows.
LEMMA ShownFacts ==
  ASSUME NEW c, NEW s
  PROVE  /\ Tracked(s) => Shown(c, s) = PushedCard(s.row)
         /\ ~Tracked(s) /\ c.obs.status # "absent" => Shown(c, s) = CommandCard(c)
         /\ ~Tracked(s) /\ c.obs.status = "absent" => Shown(c, s) = NoCard
BY DEF Shown

\* A card stays the same while what it is made of does.
LEMMA SameShown ==
  ASSUME NEW c, NEW d, NEW s, NEW t, Tracked(s) <=> Tracked(t),
         Tracked(s) => SameRow(s, t), ~Tracked(s) => SameCard(c.obs, d.obs)
  PROVE  /\ ~OtherCard(Shown(c, s), Shown(d, t))
         /\ Tracked(s) \/ d.obs.kind = c.obs.kind => Shown(d, t) = Shown(c, s)
<1>1. CASE Tracked(s)
  BY <1>1, ShownFacts DEF SameRow, PushedCard, OtherCard
<1>2. CASE ~Tracked(s) /\ c.obs.status = "absent"
  BY <1>2, ShownFacts DEF SameCard, OtherCard, NoCard
<1>3. CASE ~Tracked(s) /\ c.obs.status # "absent"
  BY <1>3, ShownFacts DEF SameCard, OtherCard, CommandCard
<1> QED
  BY <1>1, <1>2, <1>3

\* A finished card that another takes the place of, in a pane of a known tab or
\* one whose close is confirmed, is filed.
LEMMA LeavingIsFiled ==
  ASSUME RadarInv, Next, ~LoadSnapshot, NEW p \in Panes, Leaves(p),
         ConfirmsClose(p) \/ (TabOf(p) # NoTab /\ ~Shadowing(p))
  PROVE  \E e \in pushed' : e.pane = p
<1>0. /\ Typed /\ WithinCap(sts) /\ cmd[p] \in PaneRecords /\ Shaped(sts[p]) /\ Captures(p)
  BY DEF RadarInv, Typed, StoreShaped
<1>1. IF Tracked(sts[p]) THEN Completed(sts[p].row) ELSE IsCompletion(cmd[p].obs)
  BY CardFacts DEF Leaves
<1>2. OtherCard(Shown(cmd[p], sts[p]), Shown(cmd'[p], sts'[p]))
  BY DEF Leaves, Card
<1>3. ~((Tracked(sts[p]) <=> Tracked(sts'[p])) /\ (Tracked(sts[p]) => SameRow(sts[p], sts'[p]))
         /\ (~Tracked(sts[p]) => SameCard(cmd[p].obs, cmd'[p].obs)))
  BY <1>2, SameShown
<1>4. ~manifest' => /\ TabOf(p) # NoTab
                    /\ (Tracked(sts[p]) <=> Tracked(sts'[p]))
  BY DEF ConfirmsClose, Shadowing
<1>5. CASE Timer
  <2>1. /\ cmd' = [q \in Panes |-> OnTimer(cmd[q])]
        /\ sts' = [q \in Panes |-> ExpireStaleRunning(sts[q])]
        /\ pushed' = UNION {LedgerCommand(q, TimerReceded(cmd[q]), TabOf(q)) : q \in Panes}
        /\ manifest' = FALSE
    BY <1>0, <1>5, TimerFacts
  <2>2. Tracked(sts[p]) => SameRow(sts[p], sts'[p])
    BY <1>0, <1>1, <2>1, ExpiryClears DEF Completed
  <2>3. ~Tracked(sts[p]) /\ ~SameCard(cmd[p].obs, OnTimer(cmd[p]).obs)
    BY <1>3, <1>4, <2>1, <2>2
  <2>4. \E r \in TimerReceded(cmd[p]) : IsCompletion(r)
    BY <1>0, <1>1, <2>3, TimerHandsOff DEF SameCard, IsCompletion
  <2>5. \E e \in LedgerCommand(p, TimerReceded(cmd[p]), TabOf(p)) : e.pane = p
    BY <1>4, <2>1, <2>3, <2>4, LedgerCommandFacts
  <2> QED
    BY <2>1, <2>5
<1>6. ASSUME NEW ts \in TabLists, TabsChanged(ts) PROVE FALSE
  BY <1>3, <1>6 DEF TabsChanged, stores, SameRow, SameCard
<1>7. ASSUME NEW seats \in Seatings, NEW exits \in Exits(seats), PanesChanged(seats, exits)
      PROVE  \E e \in pushed' : e.pane = p
  <2>1. /\ \A q \in DOMAIN exits : q \in Panes /\ seats[q] # Nowhere /\ exits[q] \in ExitStatuses
        /\ cmd' = [q \in Panes |-> IF Goes(seats, q) THEN FreshPane
                                  ELSE IF q \in DOMAIN exits THEN OnExit(cmd[q], exits[q])
                                  ELSE cmd[q]]
        /\ sts' = [q \in Panes |-> IF Goes(seats, q) THEN FreshStatus
                                  ELSE IF q \in DOMAIN exits THEN ClearOnExit(sts[q])
                                  ELSE sts[q]]
        /\ at' = seats
    BY <1>0, <1>7, PanesFacts
  <2>2. /\ \A q \in DOMAIN exits : \A e \in ExitsOf(exits, q) : e \in pushed'
        /\ \A q \in Panes : Goes(seats, q) => \A e \in PrunesOf(q) : e \in pushed'
    BY <1>0, <1>7, PanesFiled
  <2>3. CASE Goes(seats, p)
    <3>1. PruneTab(p) # NoTab
      <4>1. Remembers(p)
        <5>1. cmd[p] = FreshPane => cmd[p].obs.status = "absent"
          BY Forgotten
        <5> QED
          BY <1>1, <5>1 DEF Remembers, CommandTracked, IsCompletion, Completions
      <4>2. absent[p] # Present
        BY <2>3, <4>1 DEF Goes
      <4>3. TabOf(p) = NoTab
        BY <1>0, <4>2, TabFacts DEF Captures, TabOf, Typed
      <4> QED
        BY <4>3, RadarStateAssumption DEF ConfirmsClose, PruneTab
    <3>2. \E e \in PrunesOf(p) : e.pane = p
      BY <1>1, <3>1, LedgerPushedFacts, LedgerCommandFacts DEF PrunesOf
    <3> QED
      BY <2>2, <2>3, <3>2
  <2>4. CASE ~Goes(seats, p) /\ p \in DOMAIN exits
    <3>1. cmd'[p] = OnExit(cmd[p], exits[p]) /\ sts'[p] = ClearOnExit(sts[p]) /\ seats[p] # Nowhere
      BY <2>1, <2>4
    <3>2. TabOf(p) # NoTab
      BY <2>1, <3>1 DEF ConfirmsClose
    <3>3. CASE Tracked(sts[p])
      <4>1. ExitCleared(sts[p]) = {sts[p].row}
        BY <1>0, <1>1, <3>3, ExitClears
      <4> QED
        BY <1>1, <2>2, <2>4, <3>2, <3>3, <4>1, LedgerPushedFacts DEF ExitsOf
    <3>4. CASE ~Tracked(sts[p])
      <4>1. ~Tracked(sts'[p])
        BY <1>0, <3>1, <3>4, ExitClears
      <4>2. ~SameCard(cmd[p].obs, OnExit(cmd[p], exits[p]).obs)
        BY <1>3, <3>1, <3>4, <4>1
      <4>3. cmd[p].obs \in ExitReceded(cmd[p], exits[p])
        BY <1>0, <1>1, <2>1, <2>4, <3>4, <4>2, ExitHandsOff
      <4>4. \E e \in LedgerCommand(p, ExitReceded(cmd[p], exits[p]), TabOf(p)) : e.pane = p
        BY <1>1, <3>2, <3>4, <4>3, LedgerCommandFacts
      <4> QED
        BY <2>2, <2>4, <4>4 DEF ExitsOf
    <3> QED
      BY <3>3, <3>4
  <2>5. CASE ~Goes(seats, p) /\ p \notin DOMAIN exits
    <3>1. cmd'[p] = cmd[p] /\ sts'[p] = sts[p]
      BY <2>1, <2>5
    <3> QED
      BY <1>3, <3>1 DEF SameRow, SameCard
  <2> QED
    BY <2>3, <2>4, <2>5
<1>8. ASSUME NEW q \in Panes, NEW argv \in Argv, NEW fgd \in BOOLEAN, CommandChanged(q, argv, fgd)
      PROVE  \E e \in pushed' : e.pane = p
  <2>1. /\ \A r \in Panes : cmd'[r].obs = cmd[r].obs
        /\ \/ pushed' = {} /\ \A r \in Panes : Completed(sts[r].row) => SameRow(sts[r], sts'[r])
           \/ /\ pushed' = LedgerPushed(q, PromptReceded(sts[q]), TabOf(q))
              /\ \A r \in Panes : r # q => SameRow(sts[r], sts'[r])
        /\ manifest' = FALSE
    BY <1>0, <1>8, CommandFacts
  <2>2. Tracked(sts[p]) /\ ~SameRow(sts[p], sts'[p])
    BY <1>3, <1>4, <2>1 DEF SameCard
  <2>3. p = q /\ pushed' = LedgerPushed(p, PromptReceded(sts[p]), TabOf(p))
    BY <1>1, <2>1, <2>2
  <2>4. PromptReceded(sts[p]) = {sts[p].row}
    BY <1>0, <1>1, <2>2, PromptClears
  <2> QED
    BY <1>1, <1>4, <2>1, <2>2, <2>3, <2>4, LedgerPushedFacts
<1>9. ASSUME NEW q \in Panes, NEW payload \in Sent, NEW batch \in SentBatches,
             StatusPipe(q, payload, batch)
      PROVE  \E e \in pushed' : e.pane = p
  <2>1. /\ cmd' = cmd /\ manifest' = FALSE
        /\ \A r \in Panes : r = q \/ SameRow(sts[r], sts'[r]) \/ (Tracked(sts[r]) /\ ~Tracked(sts'[r]))
        /\ \/ SameRow(sts[q], sts'[q])
           \/ sts'[q].row.status = payload.status /\ sts'[q].row.msg = payload.msg
           \/ ~Tracked(sts[q]) /\ ~Tracked(sts'[q])
        /\ pushed' = LedgerPushed(q, ApplyReceded(sts[q], payload), TabOf(q))
    BY <1>0, <1>9, PipeFacts
  <2>2. Tracked(sts[p]) /\ ~SameRow(sts[p], sts'[p])
    BY <1>3, <1>4, <2>1 DEF SameCard
  <2>3. p = q /\ sts'[p].row.status = payload.status /\ sts'[p].row.msg = payload.msg
    BY <1>4, <2>1, <2>2
  <2>4. OtherCard(PushedCard(sts[p].row), PushedCard(sts'[p].row))
    BY <1>2, <1>4, <2>1, <2>2, ShownFacts
  <2>5. ~Identical(sts[p], payload)
    BY <2>3, <2>4 DEF Identical, OtherCard, PushedCard
  <2>6. ApplyReceded(sts[p], payload) = {sts[p].row}
    BY <1>1, <2>2, <2>5 DEF ApplyReceded
  <2> QED
    BY <1>1, <1>4, <2>1, <2>2, <2>3, <2>6, LedgerPushedFacts
<1>10. ASSUME NEW extras \in InteractiveExtras, SetInteractiveCommands(extras) PROVE FALSE
  <2>1. /\ sts' = sts
        /\ \A q \in Panes : \/ cmd'[q].obs = cmd[q].obs
                            \/ cmd'[q].obs.status = "idle" /\ cmd[q].obs.status = "running"
    BY <1>0, <1>10, ConfigFacts
  <2> QED
    BY <1>1, <1>3, <2>1 DEF SameRow, SameCard, IsCompletion, Completions
<1> QED
  BY <1>5, <1>6, <1>7, <1>8, <1>9, <1>10 DEF Next

-----------------------------------------------------------------------------
(* Where it is filed, and when it is forgotten                             *)

\* Every entry is filed under the tab that last seated its pane.
LEMMA FiledWhereSeated ==
  ASSUME RadarInv, Next, NEW e \in pushed'
  PROVE  e.tab = lastTab[e.pane]
<1>1. PICK p \in Panes : Files(e, p, TabOf(p)) \/ Files(e, p, PruneTab(p))
  BY OnlyCardsAreFiled DEF RadarInv
<1>2. Captures(p)
  BY DEF RadarInv
<1>3. e.pane = p /\ (e.tab = TabOf(p) \/ e.tab = PruneTab(p)) /\ e.tab # NoTab
  BY <1>1 DEF Files
<1> QED
  BY <1>2, <1>3 DEF Captures, PruneTab

\* Only a manifest is one.
LEMMA ManifestsAreCalls ==
  ASSUME RadarInv, Next, manifest'
  PROVE  \E seats \in Seatings : \E exits \in Exits(seats) : PanesChanged(seats, exits)
<1>0. Typed /\ WithinCap(sts)
  BY DEF RadarInv
<1>1. ~Timer
  BY <1>0, TimerFacts
<1>2. ASSUME NEW ts \in TabLists, TabsChanged(ts) PROVE FALSE
  BY <1>2 DEF TabsChanged, Remember
<1>3. ASSUME NEW p \in Panes, NEW argv \in Argv, NEW fgd \in BOOLEAN, CommandChanged(p, argv, fgd)
      PROVE  FALSE
  BY <1>0, <1>3, CommandFacts
<1>4. ASSUME NEW p \in Panes, NEW payload \in Sent, NEW batch \in SentBatches,
             StatusPipe(p, payload, batch)
      PROVE  FALSE
  BY <1>0, <1>4, PipeFacts
<1>5. ASSUME NEW extras \in InteractiveExtras, SetInteractiveCommands(extras) PROVE FALSE
  BY <1>0, <1>5, ConfigFacts
<1>6. ~LoadSnapshot
  BY <1>0, LoadFacts
<1> QED
  BY <1>1, <1>2, <1>3, <1>4, <1>5, <1>6 DEF Next

\* What a manifest forgets, the one before lacked, and then it is forgotten.
LEMMA ForgottenAtTheSecond ==
  ASSUME RadarInv, Next, manifest', NEW p \in Panes, Remembers(p)
  PROVE  /\ ~Remembers(p)' => missed[p] >= 1 /\ missed'[p] = 2
         /\ absent[p] # Present /\ at'[p] = Nowhere => ~Remembers(p)'
<1>1. PICK seats \in Seatings : \E exits \in Exits(seats) : PanesChanged(seats, exits)
  BY ManifestsAreCalls
<1>2. PICK exits \in Exits(seats) : PanesChanged(seats, exits)
  BY <1>1
<1>3. /\ Typed /\ Captures(p) /\ cmd[p] \in PaneRecords /\ Shaped(sts[p]) /\ missed[p] \in 0..2
  BY DEF RadarInv, Typed, StoreShaped
<1>4. /\ \A q \in DOMAIN exits : exits[q] \in ExitStatuses
      /\ cmd'[p] = IF Goes(seats, p) THEN FreshPane
                   ELSE IF p \in DOMAIN exits THEN OnExit(cmd[p], exits[p]) ELSE cmd[p]
      /\ sts'[p] = IF Goes(seats, p) THEN FreshStatus
                   ELSE IF p \in DOMAIN exits THEN ClearOnExit(sts[p]) ELSE sts[p]
      /\ at' = seats
      /\ missed'[p] = IF seats[p] # Nowhere THEN 0 ELSE IF missed[p] < 2 THEN missed[p] + 1 ELSE 2
  <2>1. /\ \A q \in DOMAIN exits : exits[q] \in ExitStatuses
        /\ cmd' = [q \in Panes |-> IF Goes(seats, q) THEN FreshPane
                                  ELSE IF q \in DOMAIN exits THEN OnExit(cmd[q], exits[q])
                                  ELSE cmd[q]]
        /\ sts' = [q \in Panes |-> IF Goes(seats, q) THEN FreshStatus
                                  ELSE IF q \in DOMAIN exits THEN ClearOnExit(sts[q])
                                  ELSE sts[q]]
        /\ at' = seats
        /\ missed' = [q \in Panes |-> IF seats[q] # Nowhere THEN 0
                                     ELSE IF missed[q] < 2 THEN missed[q] + 1 ELSE 2]
    BY <1>2, <1>3, PanesFacts
  <2> QED
    BY <2>1
<1>5. ~Goes(seats, p) => Remembers(p)'
  BY <1>3, <1>4, ExitKeeps, ExitClears DEF Remembers
<1>6. Goes(seats, p) => ~Remembers(p)'
  BY <1>4, FreshShaped, Forgotten DEF Remembers
<1>7. Goes(seats, p) => missed[p] >= 1 /\ missed'[p] = 2
  BY <1>3, <1>4 DEF Goes, Captures
<1> QED
  BY <1>4, <1>5, <1>6, <1>7 DEF Goes

-----------------------------------------------------------------------------
(* No change is lost on the way out                                        *)

\* A call other than a manifest or a load that redraws nothing, or writes
\* nothing, leaves every card.
LEMMA UnseenCalls ==
  ASSUME RadarInv, Next, ~LoadSnapshot, ~manifest', ~touched' \/ wrote' = "none", NEW p \in Panes
  PROVE  /\ SameRow(sts[p], sts'[p]) /\ Shown(cmd'[p], sts'[p]) = Shown(cmd[p], sts[p])
         /\ QuietIdentity(cmd'[p]) = QuietIdentity(cmd[p]) \/ Relabels
<1>0. /\ Typed /\ WithinCap(sts)
      /\ \A q \in Panes : cmd[q] \in PaneRecords /\ Shaped(sts[q])
  BY DEF RadarInv, Typed, StoreShaped
<1>1. ASSUME NEW q \in Panes, SameRow(sts[q], sts'[q]), SameCard(cmd[q].obs, cmd'[q].obs),
             cmd'[q].obs.kind = cmd[q].obs.kind
      PROVE  Shown(cmd'[q], sts'[q]) = Shown(cmd[q], sts[q])
  <2>1. Tracked(sts[q]) <=> Tracked(sts'[q])
    BY <1>1 DEF SameRow, Tracked
  <2> QED
    BY <1>1, <2>1, SameShown
<1>2. CASE Timer
  <2>1. /\ cmd' = [q \in Panes |-> OnTimer(cmd[q])]
        /\ sts' = [q \in Panes |-> ExpireStaleRunning(sts[q])]
        /\ ~TimerChanged(cmd[p]) /\ ~StaleCleared(sts[p])
    BY <1>0, <1>2, TimerFacts
  <2>2. /\ SameCard(cmd[p].obs, cmd'[p].obs) /\ cmd'[p].obs.kind = cmd[p].obs.kind
        /\ QuietIdentity(cmd'[p]) = QuietIdentity(cmd[p])
    BY <1>0, <2>1, TimerQuiet
  <2>3. SameRow(sts[p], sts'[p])
    BY <1>0, <2>1, ExpiryClears
  <2> QED
    BY <1>1, <2>2, <2>3
<1>3. ASSUME NEW ts \in TabLists, TabsChanged(ts) PROVE UNCHANGED <<cmd, sts>>
  BY <1>3 DEF TabsChanged, stores
<1>4. ASSUME NEW r \in Panes, NEW argv \in Argv, NEW fgd \in BOOLEAN, CommandChanged(r, argv, fgd)
      PROVE  SameRow(sts[p], sts'[p]) /\ Shown(cmd'[p], sts'[p]) = Shown(cmd[p], sts[p]) /\ Relabels
  <2>1. \A q \in Panes : SameRow(sts[q], sts'[q]) /\ cmd'[q].obs = cmd[q].obs
    BY <1>0, <1>4, CommandFacts
  <2>2. \A q \in Panes : Shown(cmd'[q], sts'[q]) = Shown(cmd[q], sts[q])
    BY <1>1, <2>1 DEF SameCard
  <2> QED
    BY <1>4, <2>1, <2>2 DEF Relabels, Card
<1>5. ASSUME NEW r \in Panes, NEW payload \in Sent, NEW batch \in SentBatches,
             StatusPipe(r, payload, batch)
      PROVE  cmd' = cmd /\ SameRow(sts[p], sts'[p])
  BY <1>0, <1>5, PipeFacts
<1>6. ASSUME NEW extras \in InteractiveExtras, SetInteractiveCommands(extras)
      PROVE  UNCHANGED <<cmd, sts>>
  BY <1>0, <1>6, ConfigFacts
<1>7. ASSUME NEW seats \in Seatings, NEW exits \in Exits(seats), PanesChanged(seats, exits)
      PROVE  FALSE
  BY <1>0, <1>7, PanesFacts
<1>8. cmd' = cmd /\ SameRow(sts[p], sts'[p])
      => /\ Shown(cmd'[p], sts'[p]) = Shown(cmd[p], sts[p])
         /\ QuietIdentity(cmd'[p]) = QuietIdentity(cmd[p])
  BY <1>1 DEF SameCard
<1>9. UNCHANGED <<cmd, sts>> => SameRow(sts[p], sts'[p])
  BY DEF SameRow
<1> QED
  BY <1>2, <1>3, <1>4, <1>5, <1>6, <1>7, <1>8, <1>9 DEF Next

\* A call that does not touch leaves the topology, and lights nothing.
LEMMA UntouchedStays ==
  ASSUME RadarInv, Next, ~touched'
  PROVE  /\ ~LoadSnapshot /\ ~manifest' /\ UNCHANGED <<tabs, at>>
         /\ \A t \in TabIds : flash'[t] > 0 => flash[t] > 0
<1>0. /\ Typed /\ WithinCap(sts) /\ flash \in [TabIds -> 0..FlashTicks]
      /\ \A q \in Panes : cmd[q] \in PaneRecords
  BY DEF RadarInv, Typed
<1>1. CASE Timer
  <2>1. /\ \A q \in Panes : ~TimerChanged(cmd[q])
        /\ UNCHANGED <<tabs, at>> /\ manifest' = FALSE
    BY <1>0, <1>1, TimerFacts DEF topology
  <2>2. \A q \in Panes : TimerCompleted(cmd[q]) = {}
    BY <1>0, <2>1, TimerQuiet
  <2>3. flash' = [t \in TabIds |-> IF flash[t] > 0 THEN flash[t] - 1 ELSE 0]
    BY <1>0, <1>1, <2>2, TimerFacts
  <2>4. \A t \in TabIds : flash'[t] > 0 => flash[t] > 0
    BY <2>3
  <2> QED
    BY <2>1, <2>4, <1>0, LoadFacts
<1>2. ASSUME NEW ts \in TabLists, TabsChanged(ts)
      PROVE  UNCHANGED <<tabs, at, flash>> /\ manifest' = FALSE
  BY <1>2 DEF TabsChanged, Emit, Remember
<1>3. ASSUME NEW seats \in Seatings, NEW exits \in Exits(seats), PanesChanged(seats, exits)
      PROVE  FALSE
  BY <1>0, <1>3, PanesFacts
<1>4. ASSUME NEW p \in Panes, NEW argv \in Argv, NEW fgd \in BOOLEAN, CommandChanged(p, argv, fgd)
      PROVE  UNCHANGED <<tabs, at, flash>> /\ manifest' = FALSE
  BY <1>0, <1>4, CommandFacts DEF topology
<1>5. ASSUME NEW p \in Panes, NEW payload \in Sent, NEW batch \in SentBatches,
             StatusPipe(p, payload, batch)
      PROVE  UNCHANGED <<tabs, at, flash>> /\ manifest' = FALSE
  BY <1>0, <1>5, PipeFacts DEF topology
<1>6. ASSUME NEW extras \in InteractiveExtras, SetInteractiveCommands(extras)
      PROVE  UNCHANGED <<tabs, at, flash>> /\ manifest' = FALSE
  BY <1>0, <1>6, ConfigFacts DEF topology
<1>7. ~LoadSnapshot
  BY <1>0, LoadFacts
<1> QED
  BY <1>1, <1>2, <1>3, <1>4, <1>5, <1>6, <1>7 DEF Next

\* The rows stay the same where the topology, the cards and the labels do.
LEMMA SameRows ==
  ASSUME UNCHANGED <<tabs, at>>, \A p \in Panes : Face(p)' = Face(p)
  PROVE  Rows' = Rows
<1>1. Seated(tabs, at)' = Seated(tabs, at)
  BY DEF Seated, TabIn
<1>2. \A p \in Seated(tabs, at) : p \in Panes
  BY DEF Seated
<1> DEFINE faces == [p \in Seated(tabs, at) |-> <<at[p], Face(p)>>]
<1>3. faces' = faces
  BY <1>1, <1>2
<1> QED
  BY <1>3 DEF Rows

\* What neither touches nor changes the number of lit tabs leaves the rows.
LEMMA RowsStay ==
  ASSUME RadarInv, Next, ~touched', Lit' = Lit, ~Relabels
  PROVE  Rows' = Rows /\ LitTabs' = LitTabs
<1>1. /\ ~LoadSnapshot /\ ~manifest' /\ UNCHANGED <<tabs, at>>
      /\ \A t \in TabIds : flash'[t] > 0 => flash[t] > 0
  BY UntouchedStays
<1>2. \A p \in Panes : /\ Shown(cmd'[p], sts'[p]) = Shown(cmd[p], sts[p])
                       /\ QuietIdentity(cmd'[p]) = QuietIdentity(cmd[p])
  BY <1>1, UnseenCalls
<1>3. \A p \in Panes : Face(p)' = Face(p)
  BY <1>2 DEF Face
<1>4. LitTabs' \subseteq LitTabs /\ IsFiniteSet(LitTabs) /\ IsFiniteSet(LitTabs')
  <2>1. LitTabs' \subseteq LitTabs /\ LitTabs \subseteq TabIds
    BY <1>1 DEF LitTabs
  <2> QED
    BY <2>1, RadarStateAssumption, FS_Subset
<1>5. Cardinality(LitTabs') = Cardinality(LitTabs)
  BY DEF Lit, LitTabs
<1>6. LitTabs' = LitTabs
  BY <1>4, <1>5, FS_Subset
<1> QED
  BY <1>1, <1>3, <1>6, SameRows

\* A manifest that writes nothing leaves what it could drop.
LEMMA SilentManifest ==
  ASSUME RadarInv, NEW seats \in Seatings, NEW exits \in Exits(seats), PanesChanged(seats, exits),
         wrote' = "none", NEW p \in Panes
  PROVE  /\ sts'[p].row.status = sts[p].row.status
         /\ Card(p).origin # "none" => Card(p)'.origin # "none"
         /\ Finished(Card(p)) => Card(p)'.status = Card(p).status
<1>0. /\ Typed /\ cmd[p] \in PaneRecords /\ Shaped(sts[p])
  BY DEF RadarInv, Typed, StoreShaped
<1>1. /\ \A q \in DOMAIN exits : exits[q] \in ExitStatuses
      /\ cmd'[p] = IF Goes(seats, p) THEN FreshPane
                   ELSE IF p \in DOMAIN exits THEN OnExit(cmd[p], exits[p]) ELSE cmd[p]
      /\ sts'[p] = IF Goes(seats, p) THEN FreshStatus
                   ELSE IF p \in DOMAIN exits THEN ClearOnExit(sts[p]) ELSE sts[p]
      /\ p \in DOMAIN exits => ExitReceded(cmd[p], exits[p]) = {} /\ ExitCleared(sts[p]) = {}
      /\ Goes(seats, p) => ~Loses(cmd[p], sts[p])
  <2>1. /\ \A q \in DOMAIN exits : exits[q] \in ExitStatuses
        /\ cmd' = [q \in Panes |-> IF Goes(seats, q) THEN FreshPane
                                  ELSE IF q \in DOMAIN exits THEN OnExit(cmd[q], exits[q])
                                  ELSE cmd[q]]
        /\ sts' = [q \in Panes |-> IF Goes(seats, q) THEN FreshStatus
                                  ELSE IF q \in DOMAIN exits THEN ClearOnExit(sts[q])
                                  ELSE sts[q]]
        /\ \A q \in DOMAIN exits :
             ExitReceded(cmd[q], exits[q]) # {} \/ ExitCleared(sts[q]) # {} => wrote' = "now"
        /\ \A q \in Panes : Goes(seats, q) /\ Loses(cmd[q], sts[q]) => wrote' = "now"
    BY <1>0, PanesFacts
  <2> QED
    BY <2>1
<1>2. CASE Goes(seats, p)
  <2>1. ~Tracked(sts[p]) /\ cmd[p].obs.status = "absent"
    BY <1>1, <1>2 DEF Loses
  <2>2. Card(p) = NoCard /\ Card(p)' = NoCard
    BY <1>1, <1>2, <2>1, ShownFacts, Forgotten, FreshShaped DEF Card
  <2> QED
    BY <1>1, <1>2, <2>1, <2>2, FreshShaped DEF NoCard, Finished, Tracked
<1>3. CASE ~Goes(seats, p) /\ p \in DOMAIN exits
  <2>1. SameRow(sts[p], sts'[p]) /\ (Tracked(sts'[p]) <=> Tracked(sts[p]))
    BY <1>0, <1>1, <1>3, ExitClears
  <2>2. CASE Tracked(sts[p])
    <3>1. Card(p)' = Card(p)
      BY <2>1, <2>2, ShownFacts DEF Card, SameRow, PushedCard
    <3> QED
      BY <2>1, <3>1 DEF SameRow
  <2>3. CASE ~Tracked(sts[p])
    <3>1. IsCompletion(cmd[p].obs) => SameCard(cmd[p].obs, cmd'[p].obs)
      BY <1>0, <1>1, <1>3, ExitHandsOff
    <3>2. cmd[p].obs.status # "absent" => cmd'[p].obs.status # "absent"
      BY <1>0, <1>1, <1>3, ExitKeeps
    <3>3. /\ cmd[p].obs.status # "absent" => Card(p) = CommandCard(cmd[p])
          /\ cmd[p].obs.status = "absent" => Card(p) = NoCard
          /\ cmd'[p].obs.status # "absent" => Card(p)' = CommandCard(cmd'[p])
      BY <2>1, <2>3, ShownFacts DEF Card
    <3> QED
      BY <2>1, <3>1, <3>2, <3>3
         DEF SameRow, SameCard, NoCard, CommandCard, Finished, IsCompletion, Completions
  <2> QED
    BY <2>2, <2>3
<1>4. CASE ~Goes(seats, p) /\ p \notin DOMAIN exits
  BY <1>1, <1>4 DEF Card
<1> QED
  BY <1>2, <1>3, <1>4

\* A call that is no load and writes nothing leaves what nobody overwrites.
LEMMA SilentCalls ==
  ASSUME RadarInv, Next, ~LoadSnapshot, wrote' = "none", NEW p \in Panes
  PROVE  /\ sts'[p].row.status = sts[p].row.status
         /\ Card(p).origin # "none" => Card(p)'.origin # "none"
         /\ Finished(Card(p)) => Card(p)'.status = Card(p).status
<1>1. CASE manifest'
  BY <1>1, ManifestsAreCalls, SilentManifest
<1>2. CASE ~manifest'
  <2>1. SameRow(sts[p], sts'[p]) /\ Card(p)' = Card(p)
    BY <1>2, UnseenCalls DEF Card
  <2> QED
    BY <2>1 DEF SameRow
<1> QED
  BY <1>1, <1>2

-----------------------------------------------------------------------------
(* What holds of every run                                                 *)

\* The grace of one manifest remembers where a pane was, the status store
\* stays within its cap, and a write that is put off has a tick to come.
THEOREM RadarCorrect == Spec => []RadarInv
<1>1. Init => RadarInv
  BY InitInv
<1>2. RadarInv /\ [Next]_vars => RadarInv'
  BY RadarStep
<1> QED
  BY <1>1, <1>2, PTL DEF Spec

\* A completion that leaves its card is in the ledger, and nothing else is
\* (ledger_receded, and the captures at the top of panes_changed).
THEOREM CompletionsReachLedgerCorrect == Spec => CompletionsReachLedger
<1> DEFINE Only == \A e \in pushed' : Finished(e.card) /\ ~OtherCard(e.card, Card(e.pane))
           All == \A p \in Panes :
                    Leaves(p) /\ (ConfirmsClose(p) \/ (TabOf(p) # NoTab /\ ~Shadowing(p)))
                      => LoadSnapshot \/ \E e \in pushed' : e.pane = p
<1>1. ASSUME RadarInv, Next PROVE Only /\ All
  <2>1. Only
    BY <1>1, OnlyCardsAreFiled DEF Files, RadarInv
  <2>2. All
    BY <1>1, LeavingIsFiled
  <2> QED
    BY <2>1, <2>2
<1>2. RadarInv /\ [Next]_vars => [Only /\ All]_vars
  BY <1>1
<1> QED
  BY <1>2, RadarCorrect, PTL DEF Spec, CompletionsReachLedger

\* What a pane leaves behind when it moves or closes goes where it was, and
\* is forgotten with the second manifest without the pane, not before.
THEOREM ClosesAreCountedCorrect == Spec => ClosesAreCounted
<1> DEFINE Filed == \A e \in pushed' : e.tab = lastTab[e.pane]
           Twice == \A p \in Panes :
                      /\ Remembers(p) /\ ~Remembers(p)' /\ manifest'
                           => missed[p] >= 1 /\ missed'[p] = 2
                      /\ Remembers(p) /\ absent[p] # Present /\ at'[p] = Nowhere /\ manifest'
                           => ~Remembers(p)'
<1>1. RadarInv /\ [Next]_vars => [Filed]_vars
  BY FiledWhereSeated
<1>2. RadarInv /\ [Next]_vars => [Twice]_vars
  BY ForgottenAtTheSecond
<1>3. Spec => FiledUnderLastTab
  BY <1>1, RadarCorrect, PTL DEF Spec, FiledUnderLastTab
<1>4. Spec => TwoAbsencesDrop
  BY <1>2, RadarCorrect, PTL DEF Spec, TwoAbsencesDrop
<1> QED
  BY <1>3, <1>4 DEF ClosesAreCounted

\* No change is lost on the way out of a call: the rail redraws, the snapshot
\* is written, and a write that is put off has a tick to come.
THEOREM ChangesAreSeenCorrect == Spec => ChangesAreSeen
<1> DEFINE Fresh == Rows' # Rows \/ LitTabs' # LitTabs => touched' \/ Lit' # Lit \/ Relabels
           Kept == \A p \in Panes :
                     (\/ Card(p).origin # "none" /\ Card(p)'.origin = "none"
                      \/ sts[p].row.status # sts'[p].row.status
                      \/ Finished(Card(p)) /\ Card(p)'.status \notin {Card(p).status, "absent"})
                       => wrote' # "none" \/ LoadSnapshot
<1>1. RadarInv /\ [Next]_vars => [Fresh]_vars
  BY RowsStay
<1>2. RadarInv /\ [Next]_vars => [Kept]_vars
  BY SilentCalls
<1>3. Spec => RowsMemoIsFresh
  BY <1>1, RadarCorrect, PTL DEF Spec, RowsMemoIsFresh
<1>4. Spec => DropsAndEdgesPersist
  BY <1>2, RadarCorrect, PTL DEF Spec, DropsAndEdgesPersist
<1>5. RadarInv => DeferredHasATick
  BY DEF RadarInv
<1>6. Spec => []DeferredHasATick
  BY <1>5, RadarCorrect, PTL
<1> QED
  BY <1>3, <1>4, <1>6 DEF ChangesAreSeen
==============================================================================
