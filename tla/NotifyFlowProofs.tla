--------------------------- MODULE NotifyFlowProofs ---------------------------
(***************************************************************************)
(* An event is told once, however many instances hear of it and whatever   *)
(* the order of their ticks and of their calls on the claim files.         *)
(*                                                                         *)
(* What makes it so is that a claim outlives every instance that could     *)
(* tell its event again: reports are delivered within their second, and    *)
(* who has one to settle ticks by the end of the next, so that a claim is  *)
(* at most a second old by then.                                           *)
(***************************************************************************)
EXTENDS NotifyFlow, SequenceTheorems, FiniteSetTheorems, TLAPS

\* What is known of the event v that is told of the pane q: its number is that
\* of one report, of this pane and status.
Told(q, v) ==
  /\ v.event <= events
  /\ \A p \in Panes : v.event > 0 /\ v.event = latest[p].event
                        => p = q /\ v.status = latest[p].status

\* Whatever an instance holds was reported.
Knows(i) ==
  /\ \A q \in Panes : Told(q, view[i][q])
  /\ \A k \in 1..Len(inbox[i]) : Told(inbox[i][k][1], inbox[i][k][2])
  /\ \A k \in 1..Len(todo[i]) : Told(todo[i][k].pane, todo[i][k])

\* A closed instance holds nothing, and a reclaim is about a note.
InPlace(i) ==
  /\ i \notin open => /\ inbox[i] = <<>> /\ todo[i] = <<>>
                      /\ \A q \in Panes : view[i][q].event = 0
  /\ stage[i] # "next" => todo[i] # <<>>

ReportsInv ==
  /\ \A p \in Panes : Told(p, latest[p])
  /\ \A i \in Instances : Knows(i) /\ InPlace(i)
  /\ \A n \in 1..MaxEvents : n > events => toasts[n] = 0

\* The three ways in which instance i can still come to tell the last event of
\* p: it has yet to hear of it, to settle it, or to show it.
Unheard(i, p) == \E k \in 1..Len(inbox[i]) : inbox[i][k][2].event = latest[p].event
Unsettles(i, p) == view[i][p].event = latest[p].event /\ prev[i][p] # latest[p].status
Queued(i, p) == \E k \in 1..Len(todo[i]) : todo[i][k].event = latest[p].event

\* In the second after the claim nobody has yet to hear, and who has yet to
\* settle has not ticked.
NextSecond(p) ==
  \A i \in Instances : ~Unheard(i, p) /\ (Unsettles(i, p) => i \notin notified)

Over(p) ==
  \A i \in Instances : ~Unheard(i, p) /\ ~Unsettles(i, p) /\ ~Queued(i, p)

\* Once the last event of p was told, its claim is there for as long as anybody
\* could tell it again.
ToldOnce(p) ==
  LET n == latest[p].event
      key == <<p, latest[p].status>>
  IN n > 0 /\ latest[p].status \in Attention /\ key \notin raced /\ toasts[n] # 0
       => /\ toasts[n] = 1
          /\ (claim[key] = 0 \/ (claim[key] = 1 /\ NextSecond(p)) \/ Over(p))

NotifyInv == TypeOK /\ ReportsInv /\ \A p \in Panes : ToldOnce(p)

-----------------------------------------------------------------------------
(* Lemmas about sequences and what is in them                              *)

\* What is left of a sequence behind its head.
LEMMA TailParts ==
  ASSUME NEW S, NEW s \in Seq(S), s # <<>>
  PROVE  /\ Tail(s) \in Seq(S) /\ Head(s) = s[1] /\ Head(s) \in S /\ 1 \in 1..Len(s)
         /\ \A k \in 1..Len(Tail(s)) : k + 1 \in 1..Len(s) /\ Tail(s)[k] = s[k + 1]
<1>1. Len(s) \in Nat /\ Len(s) >= 1
  BY EmptySeq, LenProperties
<1>2. /\ Head(s) = s[1] /\ Head(s) \in S /\ Tail(s) \in Seq(S) /\ Len(Tail(s)) = Len(s) - 1
      /\ \A k \in 1..Len(Tail(s)) : Tail(s)[k] = s[k + 1]
  BY HeadTailProperties
<1> QED
  BY <1>1, <1>2

\* What is in a sequence that has grown by one at its end.
LEMMA AppendParts ==
  ASSUME NEW S, NEW s \in Seq(S), NEW e \in S, NEW t, t = Append(s, e)
  PROVE  /\ t \in Seq(S)
         /\ \A k \in 1..Len(t) : t[k] = e \/ \E j \in 1..Len(s) : t[k] = s[j]
<1>1. Len(s) \in Nat /\ t \in Seq(S) /\ Len(t) = Len(s) + 1 /\ t[Len(s) + 1] = e
      /\ \A k \in 1..Len(s) : t[k] = s[k]
  BY AppendProperties, LenProperties
<1> QED
  BY <1>1

\* A finite set, made a sequence, has no other elements.
LEMMA SetToSeqParts ==
  ASSUME NEW S, IsFiniteSet(S), NEW T, S \subseteq T
  PROVE  SetToSeq(S) \in Seq(T) /\ \A k \in 1..Len(SetToSeq(S)) : SetToSeq(S)[k] \in S
<1> DEFINE n == Cardinality(S)
<1>1. n \in Nat /\ IsFiniteSet(1..n) /\ Cardinality(1..n) = n
  BY FS_CardinalityType, FS_Interval
<1>2. ExistsBijection(1..n, S)
  BY <1>1, FS_SameCardinalityBij
<1>3. PICK f \in [1..n -> S] : IsInjective(f)
  BY <1>2 DEF ExistsBijection, Bijection, Injection
<1>4. SetToSeq(S) \in [1..n -> S]
  BY <1>3 DEF SetToSeq
<1> HIDE DEF n
<1> QED
  BY <1>1, <1>4, SeqDef, LenProperties

\* A pane's key, and the notes and views of an event.
LEMMA Parts ==
  /\ \A v \in Views : v.status \in Statuses /\ v.acked \in BOOLEAN /\ v.event \in 0..MaxEvents
  /\ \A n \in Notes : /\ n.pane \in Panes /\ n.status \in Attention
                      /\ n.event \in 0..MaxEvents /\ ClaimKey(n) \in Keys
  /\ Unreported \in Views /\ Unreported.event = 0
  /\ \A p \in Panes, s \in Attention : <<p, s>> \in Keys
BY NotifyFlowAssumption DEF Views, Notes, Keys, ClaimKey, Unreported, Statuses

\* What a settle notes: an edge of a pane, with the view it was seen in.
LEMMA DiffParts ==
  ASSUME NEW before \in [Panes -> Statuses], NEW v \in [Panes -> Views], NEW focused,
         NEW notes, notes = SetToSeq(Diff(before, v, focused))
  PROVE  /\ notes \in Seq(Notes)
         /\ \A k \in 1..Len(notes) :
              \E p \in Panes :
                /\ notes[k].pane = p /\ notes[k].status = v[p].status
                /\ notes[k].event = v[p].event /\ v[p].status # before[p]
<1> DEFINE note(p) == [pane |-> p, status |-> v[p].status, event |-> v[p].event]
           edges == {q \in Panes : IsEdge(before[q], v[q]) /\ ~Suppressed(q, focused)}
           d == {note(p) : p \in edges}
<1>1. d = Diff(before, v, focused)
  BY DEF Diff
<1>2. IsFiniteSet(edges)
  BY NotifyFlowAssumption, FS_Subset
<1>3. IsFiniteSet(d)
  <2> DEFINE f == [p \in edges |-> note(p)]
  <2>1. f \in Surjection(edges, d)
    BY DEF Surjection
  <2> QED
    BY <1>2, <2>1, FS_Surjection DEF ExistsSurjection
<1>4. d \subseteq Notes
  BY Parts DEF Notes, IsEdge
<1>5. \A x \in d : \E p \in Panes : /\ x.pane = p /\ x.status = v[p].status
                                   /\ x.event = v[p].event /\ v[p].status # before[p]
  BY DEF IsEdge
<1> HIDE DEF d
<1>6. SetToSeq(d) \in Seq(Notes) /\ \A k \in 1..Len(SetToSeq(d)) : SetToSeq(d)[k] \in d
  BY <1>3, <1>4, SetToSeqParts
<1> QED
  BY <1>1, <1>5, <1>6

\* The ages a claim can have, and the order of its thresholds.
LEMMA Ages ==
  /\ ClaimTtl \in Nat /\ ClaimTtl >= 1 /\ SweepAge \in Nat /\ SweepAge > ClaimTtl
  /\ NoClaim = -1 /\ MaxEvents \in Nat
  /\ \A a \in {NoClaim} \cup (0..(SweepAge + 1)) : Aged(a) \in {NoClaim} \cup (0..(SweepAge + 1))
  /\ Aged(0) = 1
BY NotifyFlowAssumption DEF NoClaim, Aged

\* The sweep takes none that is of an age with the present events.
LEMMA PrunedParts ==
  ASSUME TypeOK
  PROVE  /\ Pruned(claim) \in [Keys -> {NoClaim} \cup (0..(SweepAge + 1))]
         /\ \A k \in Keys : claim[k] \in {0, 1} => Pruned(claim)[k] = claim[k]
BY Ages DEF Pruned, TypeOK

\* The host glue is at a note, which is the first of those left.
LEMMA AtNote ==
  ASSUME TypeOK, NEW i \in Instances, todo[i] # <<>>
  PROVE  /\ Current(i) \in Notes /\ Key(i) \in Keys /\ Key(i) = <<Current(i).pane, Current(i).status>>
         /\ 1 \in 1..Len(todo[i]) /\ Current(i) = todo[i][1]
<1>1. todo[i] \in Seq(Notes)
  BY DEF TypeOK
<1>2. Current(i) \in Notes /\ 1 \in 1..Len(todo[i]) /\ Current(i) = todo[i][1]
  BY <1>1, TailParts DEF Current
<1> QED
  BY <1>2, Parts DEF Key, ClaimKey

\* What a finished note leaves.
LEMMA FinishParts ==
  ASSUME TypeOK, NEW i \in Instances, todo[i] # <<>>, NEW won \in BOOLEAN, Finish(i, won)
  PROVE  /\ UNCHANGED <<open, view, prev, focus, inbox, notified, shared, events, latest>>
         /\ todo' \in [Instances -> Seq(Notes)] /\ \A j \in Instances : j # i => todo'[j] = todo[j]
         /\ \A k \in 1..Len(todo'[i]) : k + 1 \in 1..Len(todo[i]) /\ todo'[i][k] = todo[i][k + 1]
         /\ stage' \in [Instances -> {"next", "stale", "removed"}]
         /\ stage'[i] = "next" /\ \A j \in Instances : j # i => stage'[j] = stage[j]
         /\ toasts' \in [1..MaxEvents -> Nat]
         /\ \A n \in 1..MaxEvents :
              toasts'[n] = IF won /\ n = Current(i).event THEN toasts[n] + 1 ELSE toasts[n]
<1>1. todo[i] \in Seq(Notes) /\ Current(i).event \in 0..MaxEvents
  BY AtNote, Parts DEF TypeOK
<1>2. /\ Tail(todo[i]) \in Seq(Notes)
      /\ \A k \in 1..Len(Tail(todo[i])) : k + 1 \in 1..Len(todo[i]) /\ Tail(todo[i])[k] = todo[i][k + 1]
  BY <1>1, TailParts
<1>3. todo' = [todo EXCEPT ![i] = Tail(todo[i])]
  BY DEF Finish
<1>4. /\ todo' \in [Instances -> Seq(Notes)] /\ \A j \in Instances : j # i => todo'[j] = todo[j]
      /\ todo'[i] = Tail(todo[i])
  BY <1>2, <1>3 DEF TypeOK
<1>5. /\ stage' \in [Instances -> {"next", "stale", "removed"}]
      /\ stage'[i] = "next" /\ \A j \in Instances : j # i => stage'[j] = stage[j]
  BY DEF Finish, TypeOK
<1>6. CASE won /\ Current(i).event > 0
  <2>1. toasts' = [toasts EXCEPT ![Current(i).event] = @ + 1] /\ Current(i).event \in 1..MaxEvents
    BY <1>1, <1>6, Ages DEF Finish
  <2>2. /\ toasts' \in [1..MaxEvents -> Nat]
        /\ \A n \in 1..MaxEvents :
             toasts'[n] = IF won /\ n = Current(i).event THEN toasts[n] + 1 ELSE toasts[n]
    BY <1>6, <2>1 DEF TypeOK
  <2> QED
    BY <1>2, <1>4, <1>5, <2>2 DEF Finish
<1>7. CASE ~(won /\ Current(i).event > 0)
  <2>1. toasts' = toasts
    BY <1>7 DEF Finish
  <2>2. \A n \in 1..MaxEvents : ~(won /\ n = Current(i).event)
    BY <1>1, <1>7, Ages
  <2> QED
    BY <1>2, <1>4, <1>5, <2>1, <2>2 DEF Finish, TypeOK
<1> QED
  BY <1>6, <1>7

\* A dispatch is of a note, and leaves the rest of the instances as they are.
LEMMA DispatchParts ==
  ASSUME TypeOK, NEW i \in Instances, InPlace(i), Dispatch(i)
  PROVE  /\ todo[i] # <<>>
         /\ UNCHANGED <<open, view, prev, focus, inbox, notified, shared, events, latest>>
         /\ todo' \in [Instances -> Seq(Notes)] /\ \A j \in Instances : j # i => todo'[j] = todo[j]
         /\ \A k \in 1..Len(todo'[i]) : \E l \in 1..Len(todo[i]) : todo'[i][k] = todo[i][l]
         /\ stage' \in [Instances -> {"next", "stale", "removed"}]
         /\ stage'[i] # "next" => todo'[i] = todo[i]
         /\ \A j \in Instances : j # i => stage'[j] = stage[j]
         /\ claim' \in [Keys -> {NoClaim} \cup (0..(SweepAge + 1))]
         /\ toasts' \in [1..MaxEvents -> Nat] /\ raced' \in SUBSET Keys /\ raced \subseteq raced'
         /\ \A n \in 1..MaxEvents :
              n # Current(i).event => toasts'[n] = toasts[n]
<1>1. todo[i] # <<>>
  BY DEF Dispatch, SkipFocused, Claim, RemoveStale, Recreate, InPlace
<1>2. Key(i) \in Keys
  BY <1>1, AtNote
<1>3. CASE SkipFocused(i)
  <2>1. Finish(i, FALSE) /\ claim' = claim /\ raced' = raced
    BY <1>3 DEF SkipFocused
  <2> QED
    BY <1>1, <2>1, FinishParts DEF TypeOK
<1>4. CASE Claim(i)
  <2>1. Pruned(claim) \in [Keys -> {NoClaim} \cup (0..(SweepAge + 1))]
    BY PrunedParts
  <2>2. CASE Pruned(claim)[Key(i)] = NoClaim
    <3>1. claim' = [Pruned(claim) EXCEPT ![Key(i)] = 0] /\ Finish(i, TRUE) /\ raced' = raced
      BY <1>4, <2>2 DEF Claim
    <3>2. claim' \in [Keys -> {NoClaim} \cup (0..(SweepAge + 1))]
      BY <1>2, <2>1, <3>1, Ages
    <3> DEFINE won == TRUE
    <3>3. won \in BOOLEAN /\ Finish(i, won)
      BY <3>1
    <3> HIDE DEF won
    <3> QED
      BY <1>1, <3>1, <3>2, <3>3, FinishParts DEF TypeOK
  <2>3. CASE Pruned(claim)[Key(i)] # NoClaim /\ Expired(Pruned(claim)[Key(i)])
    <3>1. claim' = Pruned(claim) /\ stage' = [stage EXCEPT ![i] = "stale"]
          /\ UNCHANGED <<open, view, prev, focus, inbox, todo, notified, shared, history>>
      BY <1>4, <2>3 DEF Claim
    <3> QED
      BY <1>1, <2>1, <3>1 DEF TypeOK, history
  <2>4. CASE Pruned(claim)[Key(i)] # NoClaim /\ ~Expired(Pruned(claim)[Key(i)])
    <3>1. claim' = Pruned(claim) /\ Finish(i, FALSE) /\ raced' = raced
      BY <1>4, <2>4 DEF Claim
    <3> QED
      BY <1>1, <2>1, <3>1, FinishParts DEF TypeOK
  <2> QED
    BY <2>2, <2>3, <2>4
<1>5. CASE RemoveStale(i)
  <2>1. claim' = [claim EXCEPT ![Key(i)] = NoClaim] /\ stage' = [stage EXCEPT ![i] = "removed"]
        /\ raced' \in {raced, raced \cup {Key(i)}}
        /\ UNCHANGED <<open, view, prev, focus, inbox, todo, notified, shared, events, latest, toasts>>
    BY <1>5 DEF RemoveStale
  <2> QED
    BY <1>1, <1>2, <2>1 DEF TypeOK
<1>6. CASE Recreate(i)
  <2>1. claim' = [claim EXCEPT ![Key(i)] = IF @ = NoClaim THEN 0 ELSE @]
        /\ Finish(i, claim[Key(i)] = NoClaim) /\ raced' = raced
    BY <1>6 DEF Recreate
  <2>2. claim' \in [Keys -> {NoClaim} \cup (0..(SweepAge + 1))]
    BY <1>2, <2>1, Ages DEF TypeOK
  <2> DEFINE won == claim[Key(i)] = NoClaim
  <2>3. won \in BOOLEAN /\ Finish(i, won)
    BY <2>1
  <2> HIDE DEF won
  <2> QED
    BY <1>1, <2>1, <2>2, <2>3, FinishParts DEF TypeOK
<1> QED
  BY <1>3, <1>4, <1>5, <1>6 DEF Dispatch

-----------------------------------------------------------------------------
(* What the instances hold was reported                                    *)

\* The first state.
LEMMA NotifyInit ==
  ASSUME Init
  PROVE  NotifyInv
<1>1. TypeOK
  BY Ages, Parts DEF Init, TypeOK, NoPane, Statuses
<1>2. ReportsInv
  BY Parts DEF Init, ReportsInv, Told, Knows, InPlace
<1>3. \A p \in Panes : ToldOnce(p)
  BY Parts DEF Init, ToldOnce
<1> QED
  BY <1>1, <1>2, <1>3 DEF NotifyInv

\* An instance that opens has its view from another, or none.
LEMMA OpenReports ==
  ASSUME NotifyInv, NEW i \in Instances, Open(i)
  PROVE  TypeOK' /\ ReportsInv'
<1>1. TypeOK /\ ReportsInv
  BY DEF NotifyInv
<1>2. PICK v \in [Panes -> Views] :
        /\ \A q \in Panes : Told(q, v[q])
        /\ view' = [view EXCEPT ![i] = v] /\ prev' = [prev EXCEPT ![i] = StatusMap(v)]
  <2>1. PICK v \in {view[j] : j \in open} \cup {[p \in Panes |-> Unreported]} :
          view' = [view EXCEPT ![i] = v] /\ prev' = [prev EXCEPT ![i] = StatusMap(v)]
    BY DEF Open
  <2>2. CASE v = [p \in Panes |-> Unreported]
    <3>1. events \in Nat
      BY <1>1, Ages DEF TypeOK
    <3>2. v \in [Panes -> Views] /\ \A q \in Panes : v[q].event = 0
      BY <2>2, Parts
    <3>3. \A q \in Panes : Told(q, v[q])
      BY <3>1, <3>2 DEF Told
    <3> QED
      BY <2>1, <3>2, <3>3
  <2>3. ASSUME NEW j \in open, v = view[j]
        PROVE  v \in [Panes -> Views] /\ \A q \in Panes : Told(q, v[q])
    BY <1>1, <2>3 DEF TypeOK, ReportsInv, Knows
  <2> QED
    BY <2>1, <2>2, <2>3
<1>3. /\ StatusMap(v) \in [Panes -> Statuses] /\ i \notin open /\ open' = open \cup {i}
      /\ UNCHANGED <<focus, inbox, todo, stage, notified, shared, claim, history>>
  BY <1>2, Parts DEF Open, StatusMap
<1>4. TypeOK'
  BY <1>1, <1>2, <1>3 DEF TypeOK, history
<1>5. \A j \in Instances : view'[j] = IF j = i THEN v ELSE view[j]
  BY <1>1, <1>2 DEF TypeOK
<1>6. \A j \in Instances : Knows(j)' /\ InPlace(j)'
  BY <1>1, <1>2, <1>3, <1>5 DEF ReportsInv, Knows, Told, InPlace, history
<1> QED
  BY <1>1, <1>3, <1>4, <1>6 DEF ReportsInv, Told, history

\* An instance that closes holds nothing.
LEMMA CloseReports ==
  ASSUME NotifyInv, NEW i \in Instances, Close(i)
  PROVE  TypeOK' /\ ReportsInv'
<1>1. TypeOK /\ ReportsInv
  BY DEF NotifyInv
<1>2. /\ view' = [view EXCEPT ![i] = [p \in Panes |-> Unreported]]
      /\ prev' = [prev EXCEPT ![i] = [p \in Panes |-> "quiet"]]
      /\ focus' = [focus EXCEPT ![i] = NoPane] /\ inbox' = [inbox EXCEPT ![i] = <<>>]
      /\ todo[i] = <<>> /\ open' = open \ {i} /\ notified' = notified \ {i}
      /\ UNCHANGED <<todo, stage, shared, claim, events, latest, toasts, raced>>
  BY DEF Close, Idle, history
<1>3. TypeOK'
  <2>1. <<>> \in Seq(Panes \X Views) /\ "quiet" \in Statuses
    BY DEF Statuses
  <2> QED
    BY <1>1, <1>2, <2>1, Parts DEF TypeOK
<1>4. \A j \in Instances :
        /\ view'[j] = IF j = i THEN [p \in Panes |-> Unreported] ELSE view[j]
        /\ inbox'[j] = IF j = i THEN <<>> ELSE inbox[j]
  BY <1>1, <1>2 DEF TypeOK
<1>5. \A j \in Instances : Knows(j)'
  <2> SUFFICES ASSUME NEW j \in Instances PROVE Knows(j)'
    OBVIOUS
  <2>1. CASE j = i
    BY <1>1, <1>2, <1>4, <2>1, Parts DEF Knows, Told, ReportsInv, TypeOK
  <2>2. CASE j # i
    BY <1>1, <1>2, <1>4, <2>2 DEF Knows, Told, ReportsInv
  <2> QED
    BY <2>1, <2>2
<1>6. \A j \in Instances : InPlace(j)'
  BY <1>1, <1>2, <1>4, Parts DEF ReportsInv, InPlace
<1> QED
  BY <1>1, <1>2, <1>3, <1>5, <1>6 DEF ReportsInv, Told

\* A report has a number of its own.
LEMMA ReportReports ==
  ASSUME NotifyInv, NEW p \in Panes, NEW status \in Statuses, NEW acked \in BOOLEAN, Report(p, status, acked)
  PROVE  TypeOK' /\ ReportsInv'
<1>1. TypeOK /\ ReportsInv
  BY DEF NotifyInv
<1> DEFINE obs == [status |-> status, acked |-> acked, event |-> events + 1]
<1>2. /\ events \in 0..MaxEvents /\ events < MaxEvents /\ events' = events + 1
      /\ latest' = [latest EXCEPT ![p] = obs]
      /\ inbox' = [i \in Instances |-> IF i \in open THEN Append(inbox[i], <<p, obs>>) ELSE inbox[i]]
      /\ UNCHANGED <<open, view, prev, focus, todo, stage, notified, shared, claim, toasts, raced>>
  BY <1>1 DEF Report, TypeOK
<1>3. obs \in Views /\ obs.event = events + 1 /\ obs.status = status
  BY <1>2, Ages DEF Views
<1> HIDE DEF obs
<1>4. \A q \in Panes : latest'[q] = IF q = p THEN obs ELSE latest[q]
  BY <1>1, <1>2 DEF TypeOK
<1>5. \A j \in Instances : j \notin open => inbox'[j] = inbox[j]
  BY <1>2
<1>6. \A j \in Instances :
        /\ inbox'[j] \in Seq(Panes \X Views)
        /\ \A k \in 1..Len(inbox'[j]) :
             inbox'[j][k] = <<p, obs>> \/ \E l \in 1..Len(inbox[j]) : inbox'[j][k] = inbox[j][l]
  <2> SUFFICES ASSUME NEW j \in Instances
               PROVE  /\ inbox'[j] \in Seq(Panes \X Views)
                      /\ \A k \in 1..Len(inbox'[j]) :
                           inbox'[j][k] = <<p, obs>> \/ \E l \in 1..Len(inbox[j]) : inbox'[j][k] = inbox[j][l]
    OBVIOUS
  <2>1. inbox[j] \in Seq(Panes \X Views) /\ <<p, obs>> \in Panes \X Views
    BY <1>1, <1>3 DEF TypeOK
  <2>2. CASE j \in open
    <3>1. inbox'[j] = Append(inbox[j], <<p, obs>>)
      BY <1>2, <2>2
    <3> QED
      BY <2>1, <3>1, AppendParts
  <2> QED
    BY <1>5, <2>1, <2>2
<1>7. TypeOK'
  <2>1. events' \in 0..MaxEvents
    BY <1>2, Ages
  <2>2. latest' \in [Panes -> Views]
    BY <1>1, <1>2, <1>3 DEF TypeOK
  <2>3. inbox' \in [Instances -> Seq(Panes \X Views)]
    BY <1>2, <1>6
  <2> QED
    BY <1>1, <1>2, <2>1, <2>2, <2>3 DEF TypeOK
\* what was told before keeps its number
<1>8. ASSUME NEW q \in Panes, NEW v, v.event \in Nat, Told(q, v)
      PROVE  /\ v.event <= events'
             /\ \A x \in Panes : v.event > 0 /\ v.event = latest'[x].event => x = q /\ v.status = latest'[x].status
  BY <1>2, <1>3, <1>4, <1>8 DEF Told
<1>9. /\ obs.event <= events'
      /\ \A x \in Panes : obs.event = latest'[x].event => x = p /\ obs.status = latest'[x].status
  <2>1. \A x \in Panes : latest[x].event <= events
    BY <1>1 DEF ReportsInv, Told
  <2>2. \A x \in Panes : latest[x].event \in 0..MaxEvents
    BY <1>1, Parts DEF TypeOK
  <2> QED
    BY <1>2, <1>3, <1>4, <2>1, <2>2
<1>10. \A j \in Instances : Knows(j)'
  <2> SUFFICES ASSUME NEW j \in Instances PROVE Knows(j)'
    OBVIOUS
  <2>1. \A q \in Panes : Told(q, view[j][q])'
    <3> SUFFICES ASSUME NEW q \in Panes PROVE Told(q, view[j][q])'
      OBVIOUS
    <3>1. view[j][q].event \in Nat /\ Told(q, view[j][q])
      BY <1>1, Parts DEF TypeOK, ReportsInv, Knows
    <3> QED
      BY <1>2, <1>8, <3>1 DEF Told
  <2>2. \A k \in 1..Len(todo'[j]) : Told(todo[j][k].pane, todo[j][k])'
    <3> SUFFICES ASSUME NEW k \in 1..Len(todo[j]) PROVE Told(todo[j][k].pane, todo[j][k])'
      BY <1>2
    <3>1. todo[j] \in Seq(Notes)
      BY <1>1 DEF TypeOK
    <3>2. todo[j][k] \in Notes
      BY <3>1, ElementOfSeq, LenProperties
    <3>3. todo[j][k].event \in Nat /\ todo[j][k].pane \in Panes /\ Told(todo[j][k].pane, todo[j][k])
      BY <1>1, <3>2, Parts DEF ReportsInv, Knows
    <3>4. PICK q, n : q = todo[j][k].pane /\ n = todo[j][k]
      OBVIOUS
    <3>5. /\ n.event <= events'
          /\ \A x \in Panes : n.event > 0 /\ n.event = latest'[x].event => x = q /\ n.status = latest'[x].status
      BY <1>8, <3>3, <3>4
    <3> QED
      BY <1>2, <3>4, <3>5 DEF Told
  <2>3. \A k \in 1..Len(inbox'[j]) : Told(inbox[j][k][1], inbox[j][k][2])'
    <3> SUFFICES ASSUME NEW k \in 1..Len(inbox'[j]) PROVE Told(inbox[j][k][1], inbox[j][k][2])'
      OBVIOUS
    <3>1. CASE inbox'[j][k] = <<p, obs>>
      BY <1>9, <3>1 DEF Told
    <3>2. ASSUME NEW l \in 1..Len(inbox[j]), inbox'[j][k] = inbox[j][l]
          PROVE  Told(inbox[j][k][1], inbox[j][k][2])'
      <4>1. inbox[j] \in Seq(Panes \X Views)
        BY <1>1 DEF TypeOK
      <4>2. inbox[j][l] \in Panes \X Views
        BY <4>1, ElementOfSeq, LenProperties
      <4>3. inbox[j][l][1] \in Panes /\ inbox[j][l][2].event \in Nat /\ Told(inbox[j][l][1], inbox[j][l][2])
        BY <1>1, <4>2, Parts DEF ReportsInv, Knows
      <4> QED
        BY <1>8, <3>2, <4>3 DEF Told
    <3> QED
      BY <1>6, <3>1, <3>2
  <2> QED
    BY <2>1, <2>2, <2>3 DEF Knows
<1>11. \A j \in Instances : InPlace(j)'
  BY <1>1, <1>2, <1>5 DEF ReportsInv, InPlace
<1>12. \A q \in Panes : Told(q, latest[q])'
  <2> SUFFICES ASSUME NEW q \in Panes PROVE Told(q, latest[q])'
    OBVIOUS
  <2>1. CASE q = p
    BY <1>4, <1>9, <2>1 DEF Told
  <2>2. CASE q # p
    <3>1. latest'[q] = latest[q] /\ Told(q, latest[q]) /\ latest[q].event \in Nat
      BY <1>1, <1>4, <2>2, Parts DEF ReportsInv, TypeOK
    <3> QED
      BY <1>8, <3>1 DEF Told
  <2> QED
    BY <2>1, <2>2
<1> QED
  BY <1>1, <1>2, <1>7, <1>10, <1>11, <1>12 DEF ReportsInv

\* A payload moves from the inbox into the view.
LEMMA StatusPipeReports ==
  ASSUME NotifyInv, NEW i \in Instances, StatusPipe(i)
  PROVE  /\ TypeOK' /\ ReportsInv'
         /\ \A j \in Instances : j # i => view'[j] = view[j] /\ inbox'[j] = inbox[j]
         /\ \A k \in 1..Len(inbox'[i]) : k + 1 \in 1..Len(inbox[i]) /\ inbox'[i][k] = inbox[i][k + 1]
         /\ 1 \in 1..Len(inbox[i])
         /\ \A q \in Panes : view'[i][q] = inbox[i][1][2] \/ view'[i][q] = view[i][q]
<1>1. TypeOK /\ ReportsInv
  BY DEF NotifyInv
<1>2. inbox[i] \in Seq(Panes \X Views) /\ inbox[i] # <<>>
  BY <1>1 DEF StatusPipe, TypeOK
<1>3. /\ Head(inbox[i]) = inbox[i][1] /\ inbox[i][1] \in Panes \X Views /\ 1 \in 1..Len(inbox[i])
      /\ Tail(inbox[i]) \in Seq(Panes \X Views)
      /\ \A k \in 1..Len(Tail(inbox[i])) : k + 1 \in 1..Len(inbox[i]) /\ Tail(inbox[i])[k] = inbox[i][k + 1]
  BY <1>2, TailParts
<1>4. PICK p \in Panes, v \in Views : inbox[i][1] = <<p, v>>
  BY <1>3
<1>5. /\ view' = [view EXCEPT ![i][p] = v] /\ inbox' = [inbox EXCEPT ![i] = Tail(inbox[i])]
      /\ i \in open /\ UNCHANGED <<open, prev, focus, todo, stage, notified, shared, claim, events, latest, toasts, raced>>
  <2>1. Head(inbox[i])[1] = p /\ Head(inbox[i])[2] = v
    BY <1>3, <1>4
  <2>2. view' = [view EXCEPT ![i][p] = v]
    BY <2>1 DEF StatusPipe
  <2> QED
    BY <2>2 DEF StatusPipe, Idle, history
<1>6. TypeOK'
  BY <1>1, <1>3, <1>5 DEF TypeOK
<1>7. \A j \in Instances : /\ inbox'[j] = IF j = i THEN Tail(inbox[i]) ELSE inbox[j]
                           /\ \A q \in Panes : view'[j][q] = IF j = i /\ q = p THEN v ELSE view[j][q]
  BY <1>1, <1>5 DEF TypeOK
<1>8. \A j \in Instances : j # i => view'[j] = view[j]
  BY <1>1, <1>5 DEF TypeOK
<1>9. \A j \in Instances : Knows(j)' /\ InPlace(j)'
  <2> SUFFICES ASSUME NEW j \in Instances PROVE Knows(j)' /\ InPlace(j)'
    OBVIOUS
  <2>1. Knows(j) /\ InPlace(j)
    BY <1>1 DEF ReportsInv
  <2>2. CASE j # i
    BY <1>5, <1>7, <2>1, <2>2 DEF Knows, Told, InPlace
  <2>3. CASE j = i
    <3>1. Told(p, v)
      BY <1>3, <1>4, <2>1, <2>3 DEF Knows
    <3>2. \A q \in Panes : Told(q, view[j][q])'
      BY <1>5, <1>7, <2>1, <3>1 DEF Knows, Told
    <3>3. \A k \in 1..Len(inbox'[j]) : Told(inbox[j][k][1], inbox[j][k][2])'
      BY <1>3, <1>5, <1>7, <2>1, <2>3 DEF Knows, Told
    <3> QED
      BY <1>5, <2>1, <2>3, <3>2, <3>3 DEF Knows, Told, InPlace
  <2> QED
    BY <2>2, <2>3
<1>10. ReportsInv'
  BY <1>1, <1>5, <1>9 DEF ReportsInv, Told
<1>11. \A q \in Panes : view'[i][q] = inbox[i][1][2] \/ view'[i][q] = view[i][q]
  BY <1>4, <1>7
<1>12. \A k \in 1..Len(inbox'[i]) : k + 1 \in 1..Len(inbox[i]) /\ inbox'[i][k] = inbox[i][k + 1]
  BY <1>3, <1>7
<1> QED
  BY <1>3, <1>6, <1>7, <1>8, <1>10, <1>11, <1>12

\* The focus is noted and published.
LEMMA PanesChangedReports ==
  ASSUME NotifyInv, NEW i \in Instances, NEW p \in Panes, PanesChanged(i, p)
  PROVE  TypeOK' /\ ReportsInv'
<1>1. TypeOK /\ ReportsInv
  BY DEF NotifyInv
<1>2. /\ focus' = [focus EXCEPT ![i] = p] /\ shared' = p
      /\ UNCHANGED <<open, view, prev, inbox, todo, stage, notified, claim, events, latest, toasts, raced>>
  BY DEF PanesChanged, PublishFocus, history
<1> QED
  BY <1>1, <1>2 DEF TypeOK, ReportsInv, Knows, Told, InPlace

\* A settle queues what it saw, and has settled it.
LEMMA TimerReports ==
  ASSUME NotifyInv, NEW i \in Instances, Timer(i)
  PROVE  /\ TypeOK' /\ ReportsInv'
         /\ \A j \in Instances : j # i => prev'[j] = prev[j] /\ todo'[j] = todo[j]
         /\ \A q \in Panes : prev'[i][q] = view[i][q].status
         /\ \A k \in 1..Len(todo'[i]) :
              \E q \in Panes : /\ todo'[i][k].event = view[i][q].event
                              /\ view[i][q].status # prev[i][q]
<1>1. TypeOK /\ ReportsInv
  BY DEF NotifyInv
<1> DEFINE notes == SetToSeq(Diff(prev[i], view[i], focus[i]))
<1>2. /\ todo' = [todo EXCEPT ![i] = notes] /\ prev' = [prev EXCEPT ![i] = StatusMap(view[i])]
      /\ i \in open /\ notified' = notified \cup {i}
      /\ UNCHANGED <<open, view, focus, inbox, stage, shared, claim, events, latest, toasts, raced>>
      /\ todo[i] = <<>>
  BY DEF Timer, Idle, history
<1>3. prev[i] \in [Panes -> Statuses] /\ view[i] \in [Panes -> Views]
  BY <1>1 DEF TypeOK
<1>4. /\ notes \in Seq(Notes)
      /\ \A k \in 1..Len(notes) :
           \E q \in Panes :
             /\ notes[k].pane = q /\ notes[k].status = view[i][q].status
             /\ notes[k].event = view[i][q].event /\ view[i][q].status # prev[i][q]
  <2> DEFINE before == prev[i]
             seen == view[i]
             at == focus[i]
  <2>1. before \in [Panes -> Statuses] /\ seen \in [Panes -> Views] /\ notes = SetToSeq(Diff(before, seen, at))
    BY <1>3
  <2> HIDE DEF notes, before, seen, at
  <2>2. /\ notes \in Seq(Notes)
        /\ \A k \in 1..Len(notes) :
             \E q \in Panes :
               /\ notes[k].pane = q /\ notes[k].status = seen[q].status
               /\ notes[k].event = seen[q].event /\ seen[q].status # before[q]
    BY <2>1, DiffParts
  <2> QED
    BY <2>2 DEF before, seen
<1> HIDE DEF notes
<1>5. StatusMap(view[i]) \in [Panes -> Statuses] /\ \A q \in Panes : StatusMap(view[i])[q] = view[i][q].status
  BY <1>3, Parts DEF StatusMap
<1>6. TypeOK'
  BY <1>1, <1>2, <1>4, <1>5 DEF TypeOK
<1>7. \A j \in Instances : j # i => prev'[j] = prev[j] /\ todo'[j] = todo[j]
  BY <1>1, <1>2 DEF TypeOK
<1>8. todo'[i] = notes /\ prev'[i] = StatusMap(view[i])
  BY <1>1, <1>2 DEF TypeOK
<1>9. \A j \in Instances : Knows(j)' /\ InPlace(j)'
  <2> SUFFICES ASSUME NEW j \in Instances PROVE Knows(j)' /\ InPlace(j)'
    OBVIOUS
  <2>1. Knows(j) /\ InPlace(j)
    BY <1>1 DEF ReportsInv
  <2>2. CASE j # i
    BY <1>2, <1>7, <2>1, <2>2 DEF Knows, Told, InPlace
  <2>3. CASE j = i
    <3>1. ASSUME NEW k \in 1..Len(notes) PROVE Told(notes[k].pane, notes[k])
      <4>1. PICK q \in Panes : /\ notes[k].pane = q /\ notes[k].status = view[i][q].status
                              /\ notes[k].event = view[i][q].event
        BY <1>4
      <4> QED
        BY <2>1, <2>3, <4>1 DEF Knows, Told
    <3> QED
      BY <1>2, <1>8, <2>1, <2>3, <3>1 DEF Knows, Told, InPlace
  <2> QED
    BY <2>2, <2>3
<1>10. ReportsInv'
  BY <1>1, <1>2, <1>9 DEF ReportsInv, Told
<1>11. ASSUME NEW k \in 1..Len(todo'[i])
       PROVE  \E q \in Panes : todo'[i][k].event = view[i][q].event /\ view[i][q].status # prev[i][q]
  <2>1. PICK q \in Panes :
          notes[k].event = view[i][q].event /\ view[i][q].status # prev[i][q]
    BY <1>4, <1>8
  <2> QED
    BY <1>8, <2>1
<1> QED
  BY <1>5, <1>6, <1>7, <1>8, <1>10, <1>11

\* A dispatch leaves no new notes.
LEMMA DispatchReports ==
  ASSUME NotifyInv, NEW i \in Instances, Dispatch(i)
  PROVE  TypeOK' /\ ReportsInv'
<1>1. TypeOK /\ ReportsInv
  BY DEF NotifyInv
<1>2. InPlace(i)
  BY <1>1 DEF ReportsInv
<1>3. /\ todo[i] # <<>>
      /\ UNCHANGED <<open, view, prev, focus, inbox, notified, shared, events, latest>>
      /\ todo' \in [Instances -> Seq(Notes)] /\ \A j \in Instances : j # i => todo'[j] = todo[j]
      /\ \A k \in 1..Len(todo'[i]) : \E l \in 1..Len(todo[i]) : todo'[i][k] = todo[i][l]
      /\ stage' \in [Instances -> {"next", "stale", "removed"}]
      /\ stage'[i] # "next" => todo'[i] = todo[i]
      /\ \A j \in Instances : j # i => stage'[j] = stage[j]
      /\ claim' \in [Keys -> {NoClaim} \cup (0..(SweepAge + 1))]
      /\ toasts' \in [1..MaxEvents -> Nat] /\ raced' \in SUBSET Keys
      /\ \A n \in 1..MaxEvents : n # Current(i).event => toasts'[n] = toasts[n]
  BY <1>1, <1>2, DispatchParts
<1>4. TypeOK'
  BY <1>1, <1>3 DEF TypeOK
<1>5. \A j \in Instances : Knows(j)'
  <2> SUFFICES ASSUME NEW j \in Instances PROVE Knows(j)'
    OBVIOUS
  <2>1. Knows(j)
    BY <1>1 DEF ReportsInv
  <2>2. view' = view /\ inbox' = inbox /\ events' = events /\ latest' = latest
    BY <1>3
  <2>3. \A k \in 1..Len(todo'[j]) : \E l \in 1..Len(todo[j]) : todo'[j][k] = todo[j][l]
    BY <1>3
  <2>4. \A k \in 1..Len(todo'[j]) : Told(todo[j][k].pane, todo[j][k])'
    <3> SUFFICES ASSUME NEW k \in 1..Len(todo'[j]) PROVE Told(todo[j][k].pane, todo[j][k])'
      OBVIOUS
    <3>1. PICK l \in 1..Len(todo[j]) : todo'[j][k] = todo[j][l]
      BY <2>3
    <3>2. Told(todo[j][l].pane, todo[j][l])
      BY <2>1 DEF Knows
    <3> QED
      BY <2>2, <3>1, <3>2 DEF Told
  <2> QED
    BY <2>1, <2>2, <2>4 DEF Knows, Told
<1>6. i \in open
  BY <1>2, <1>3 DEF InPlace
<1>7. \A j \in Instances : InPlace(j)'
  BY <1>1, <1>3, <1>6 DEF ReportsInv, InPlace
<1>8. \A n \in 1..MaxEvents : n > events' => toasts'[n] = 0
  <2>1. Current(i).event <= events
    <3>1. 1 \in 1..Len(todo[i]) /\ Current(i) = todo[i][1]
      BY <1>1, <1>3, AtNote
    <3> QED
      BY <1>1, <3>1 DEF ReportsInv, Knows, Told
  <2>2. Current(i).event \in Nat /\ events \in Nat
    <3>1. Current(i) \in Notes
      BY <1>1, <1>3, AtNote
    <3> QED
      BY <1>1, <3>1, Parts, Ages DEF TypeOK
  <2> QED
    BY <1>1, <1>3, <2>1, <2>2 DEF ReportsInv
<1> QED
  BY <1>1, <1>3, <1>4, <1>5, <1>7, <1>8 DEF ReportsInv, Told

\* A second ages the claims.
LEMMA ElapseReports ==
  ASSUME NotifyInv, Elapse
  PROVE  TypeOK' /\ ReportsInv'
<1>1. TypeOK /\ ReportsInv
  BY DEF NotifyInv
<1>2. /\ claim' = [k \in Keys |-> Aged(claim[k])] /\ notified' = {}
      /\ UNCHANGED <<open, view, prev, focus, inbox, todo, stage, shared, events, latest, toasts, raced>>
  BY DEF Elapse, history
<1>3. claim' \in [Keys -> {NoClaim} \cup (0..(SweepAge + 1))]
  BY <1>1, <1>2, Ages DEF TypeOK
<1>4. TypeOK'
  BY <1>1, <1>2, <1>3 DEF TypeOK
<1> QED
  BY <1>1, <1>2, <1>4 DEF ReportsInv, Knows, Told, InPlace

-----------------------------------------------------------------------------
(* Whoever can still tell an event finds its claim                         *)

\* A step that makes no toast and leaves the claims alone keeps what it brings
\* nobody to tell.
LEMMA OnceStays ==
  ASSUME NEW p \in Panes, ToldOnce(p), latest' = latest, toasts' = toasts, raced' = raced, claim' = claim,
         latest[p].event > 0 => (NextSecond(p) => NextSecond(p)') /\ (Over(p) => Over(p)')
  PROVE  ToldOnce(p)'
BY DEF ToldOnce

\* An instance that opens takes what it finds as settled, so brings nobody to tell.
LEMMA OpenOnce ==
  ASSUME NotifyInv, NEW i \in Instances, Open(i), NEW p \in Panes
  PROVE  ToldOnce(p)'
<1>1. ToldOnce(p) /\ TypeOK /\ TypeOK' /\ ReportsInv'
  BY OpenReports DEF NotifyInv
<1>2. PICK v : view' = [view EXCEPT ![i] = v] /\ prev' = [prev EXCEPT ![i] = StatusMap(v)]
  BY DEF Open
<1>3. UNCHANGED <<inbox, todo, notified, claim, latest, toasts, raced>>
  BY DEF Open, history
<1>4. /\ view'[i] = v /\ prev'[i] = StatusMap(v)
      /\ \A j \in Instances : j # i => view'[j] = view[j] /\ prev'[j] = prev[j]
  BY <1>1, <1>2 DEF TypeOK
<1>5. prev'[i][p] = view'[i][p].status
  BY <1>4 DEF StatusMap
<1>6. latest[p].event > 0 => ~Unsettles(i, p)'
  <2>1. Told(p, view[i][p])'
    BY <1>1 DEF ReportsInv, Knows
  <2> QED
    BY <1>3, <1>5, <2>1 DEF Told, Unsettles
<1>7. \A j \in Instances : /\ Unheard(j, p)' <=> Unheard(j, p)
                           /\ Queued(j, p)' <=> Queued(j, p)
                           /\ j # i => (Unsettles(j, p)' <=> Unsettles(j, p))
  BY <1>3, <1>4 DEF Unheard, Queued, Unsettles
<1>8. latest[p].event > 0 => (NextSecond(p) => NextSecond(p)') /\ (Over(p) => Over(p)')
  BY <1>3, <1>6, <1>7 DEF NextSecond, Over
<1> QED
  BY <1>1, <1>3, <1>8, OnceStays

\* One that closes leaves fewer to tell.
LEMMA CloseOnce ==
  ASSUME NotifyInv, NEW i \in Instances, Close(i), NEW p \in Panes
  PROVE  ToldOnce(p)'
<1>1. ToldOnce(p) /\ TypeOK
  BY DEF NotifyInv
<1>2. /\ view' = [view EXCEPT ![i] = [q \in Panes |-> Unreported]]
      /\ prev' = [prev EXCEPT ![i] = [q \in Panes |-> "quiet"]]
      /\ inbox' = [inbox EXCEPT ![i] = <<>>] /\ notified' = notified \ {i}
      /\ UNCHANGED <<todo, claim, latest, toasts, raced>>
  BY DEF Close, history
<1>3. /\ view'[i][p] = Unreported /\ inbox'[i] = <<>>
      /\ \A j \in Instances : j # i => view'[j] = view[j] /\ prev'[j] = prev[j] /\ inbox'[j] = inbox[j]
  BY <1>1, <1>2 DEF TypeOK
<1>4. latest[p].event > 0 => ~Unsettles(i, p)' /\ ~Unheard(i, p)'
  BY <1>2, <1>3, Parts DEF Unsettles, Unheard
<1>5. \A j \in Instances : /\ Queued(j, p)' <=> Queued(j, p)
                           /\ j # i => (Unsettles(j, p)' <=> Unsettles(j, p)) /\ (Unheard(j, p)' <=> Unheard(j, p))
  BY <1>2, <1>3 DEF Unheard, Queued, Unsettles
<1>6. latest[p].event > 0 => (NextSecond(p) => NextSecond(p)') /\ (Over(p) => Over(p)')
  BY <1>2, <1>4, <1>5 DEF NextSecond, Over
<1> QED
  BY <1>1, <1>2, <1>6, OnceStays

\* A new event has no toast, and is not the last of another pane.
LEMMA ReportOnce ==
  ASSUME NotifyInv, NEW q \in Panes, NEW status \in Statuses, NEW acked \in BOOLEAN,
         Report(q, status, acked), NEW p \in Panes
  PROVE  ToldOnce(p)'
<1>1. ToldOnce(p) /\ TypeOK /\ ReportsInv
  BY DEF NotifyInv
<1> DEFINE obs == [status |-> status, acked |-> acked, event |-> events + 1]
<1>2. /\ events \in 0..MaxEvents /\ events < MaxEvents
      /\ latest' = [latest EXCEPT ![q] = obs]
      /\ inbox' = [i \in Instances |-> IF i \in open THEN Append(inbox[i], <<q, obs>>) ELSE inbox[i]]
      /\ UNCHANGED <<view, prev, todo, notified, claim, toasts, raced>>
  BY <1>1 DEF Report, TypeOK
<1>3. obs \in Views /\ obs.event = events + 1
  BY <1>2, Ages DEF Views
<1> HIDE DEF obs
<1>4. latest'[p] = IF p = q THEN obs ELSE latest[p]
  BY <1>1, <1>2 DEF TypeOK
<1>5. CASE p = q
  <2>1. events + 1 \in 1..MaxEvents /\ events + 1 > events
    BY <1>2, Ages
  <2>2. toasts'[latest'[p].event] = 0
    BY <1>1, <1>2, <1>3, <1>4, <1>5, <2>1 DEF ReportsInv
  <2> QED
    BY <2>2 DEF ToldOnce
<1>6. CASE p # q
  <2>1. latest'[p] = latest[p] /\ obs.event # latest[p].event
    <3>1. latest[p].event <= events /\ latest[p].event \in 0..MaxEvents
      BY <1>1, Parts DEF ReportsInv, Told, TypeOK
    <3> QED
      BY <1>2, <1>3, <1>4, <1>6, <3>1
  <2>2. ASSUME NEW j \in Instances, Unheard(j, p)'
        PROVE  Unheard(j, p)
    <3>1. CASE j \in open
      <4>1. /\ inbox'[j] = Append(inbox[j], <<q, obs>>)
            /\ inbox[j] \in Seq(Panes \X Views) /\ <<q, obs>> \in Panes \X Views
        BY <1>1, <1>2, <1>3, <3>1 DEF TypeOK
      <4>2. PICK k \in 1..Len(inbox'[j]) : inbox'[j][k][2].event = latest[p].event
        BY <2>1, <2>2 DEF Unheard
      <4>3. PICK l \in 1..Len(inbox[j]) : inbox'[j][k] = inbox[j][l]
        <5>1. inbox'[j][k] = <<q, obs>> \/ \E l \in 1..Len(inbox[j]) : inbox'[j][k] = inbox[j][l]
          BY <4>1, AppendParts
        <5>2. inbox'[j][k] # <<q, obs>>
          BY <2>1, <4>2
        <5> QED
          BY <5>1, <5>2
      <4> QED
        BY <4>2, <4>3 DEF Unheard
    <3>2. CASE j \notin open
      BY <1>2, <2>1, <2>2, <3>2 DEF Unheard
    <3> QED
      BY <3>1, <3>2
  <2>3. \A j \in Instances : (Queued(j, p)' <=> Queued(j, p)) /\ (Unsettles(j, p)' <=> Unsettles(j, p))
    BY <1>2, <2>1 DEF Queued, Unsettles
  <2>4. (NextSecond(p) => NextSecond(p)') /\ (Over(p) => Over(p)')
    BY <1>2, <2>2, <2>3 DEF NextSecond, Over
  <2> QED
    BY <1>1, <1>2, <2>1, <2>4 DEF ToldOnce
<1> QED
  BY <1>5, <1>6

\* Nobody hears of an event again.
LEMMA StatusPipeOnce ==
  ASSUME NotifyInv, NEW i \in Instances, StatusPipe(i), NEW p \in Panes
  PROVE  ToldOnce(p)'
<1>1. ToldOnce(p)
  BY DEF NotifyInv
<1>2. /\ \A j \in Instances : j # i => view'[j] = view[j] /\ inbox'[j] = inbox[j]
      /\ \A k \in 1..Len(inbox'[i]) : k + 1 \in 1..Len(inbox[i]) /\ inbox'[i][k] = inbox[i][k + 1]
      /\ 1 \in 1..Len(inbox[i])
      /\ \A q \in Panes : view'[i][q] = inbox[i][1][2] \/ view'[i][q] = view[i][q]
  BY StatusPipeReports
<1>3. UNCHANGED <<prev, todo, notified, claim, latest, toasts, raced>>
  BY DEF StatusPipe, history
<1>4. \A j \in Instances : Unheard(j, p)' => Unheard(j, p)
  BY <1>2, <1>3 DEF Unheard
<1>5. \A j \in Instances : Unsettles(j, p)' => Unsettles(j, p) \/ Unheard(j, p)
  <2> SUFFICES ASSUME NEW j \in Instances, Unsettles(j, p)' PROVE Unsettles(j, p) \/ Unheard(j, p)
    OBVIOUS
  <2>1. CASE j # i \/ view'[i][p] = view[i][p]
    BY <1>2, <1>3, <2>1 DEF Unsettles
  <2>2. CASE j = i /\ view'[i][p] = inbox[i][1][2]
    BY <1>2, <1>3, <2>2 DEF Unsettles, Unheard
  <2> QED
    BY <1>2, <2>1, <2>2
<1>6. \A j \in Instances : Queued(j, p)' <=> Queued(j, p)
  BY <1>3 DEF Queued
<1>7. (NextSecond(p) => NextSecond(p)') /\ (Over(p) => Over(p)')
  BY <1>3, <1>4, <1>5, <1>6 DEF NextSecond, Over
<1> QED
  BY <1>1, <1>3, <1>7, OnceStays

\* Focus has no part in who can still tell.
LEMMA PanesChangedOnce ==
  ASSUME NotifyInv, NEW i \in Instances, NEW q \in Panes, PanesChanged(i, q), NEW p \in Panes
  PROVE  ToldOnce(p)'
BY DEF NotifyInv, PanesChanged, PublishFocus, history, ToldOnce, NextSecond, Over, Unheard, Unsettles, Queued

\* Who settles has settled, and queues what it had yet to settle only.
LEMMA TimerOnce ==
  ASSUME NotifyInv, NEW i \in Instances, Timer(i), NEW p \in Panes
  PROVE  ToldOnce(p)'
<1>1. ToldOnce(p) /\ TypeOK /\ ReportsInv
  BY DEF NotifyInv
<1>2. /\ \A j \in Instances : j # i => prev'[j] = prev[j] /\ todo'[j] = todo[j]
      /\ \A q \in Panes : prev'[i][q] = view[i][q].status
      /\ \A k \in 1..Len(todo'[i]) :
           \E q \in Panes : todo'[i][k].event = view[i][q].event /\ view[i][q].status # prev[i][q]
  BY TimerReports
<1>3. notified' = notified \cup {i} /\ UNCHANGED <<view, inbox, claim, latest, toasts, raced>>
  BY DEF Timer, history
<1>4. \A q \in Panes : latest[p].event > 0 /\ view[i][q].event = latest[p].event
                        => q = p /\ view[i][q].status = latest[p].status
  BY <1>1 DEF ReportsInv, Knows, Told
<1>5. latest[p].event > 0 => ~Unsettles(i, p)'
  BY <1>2, <1>3, <1>4 DEF Unsettles
<1>6. latest[p].event > 0 /\ Queued(i, p)' => Unsettles(i, p)
  <2> SUFFICES ASSUME latest[p].event > 0, Queued(i, p)' PROVE Unsettles(i, p)
    OBVIOUS
  <2>1. PICK k \in 1..Len(todo'[i]) : todo'[i][k].event = latest[p].event
    BY <1>3 DEF Queued
  <2>2. PICK q \in Panes : todo'[i][k].event = view[i][q].event /\ view[i][q].status # prev[i][q]
    BY <1>2
  <2> QED
    BY <1>4, <2>1, <2>2 DEF Unsettles
<1>7. \A j \in Instances : /\ Unheard(j, p)' <=> Unheard(j, p)
                           /\ j # i => (Unsettles(j, p)' <=> Unsettles(j, p)) /\ (Queued(j, p)' <=> Queued(j, p))
  BY <1>2, <1>3 DEF Unheard, Unsettles, Queued
<1>8. latest[p].event > 0 => (NextSecond(p) => NextSecond(p)') /\ (Over(p) => Over(p)')
  BY <1>3, <1>5, <1>6, <1>7 DEF NextSecond, Over
<1> QED
  BY <1>1, <1>3, <1>8, OnceStays

\* By the end of the second after the claim everybody has settled.
LEMMA ElapseOnce ==
  ASSUME NotifyInv, Elapse, NEW p \in Panes
  PROVE  ToldOnce(p)'
<1>1. ToldOnce(p) /\ TypeOK /\ ReportsInv
  BY DEF NotifyInv
<1>2. /\ claim' = [k \in Keys |-> Aged(claim[k])] /\ notified' = {}
      /\ \A i \in open : todo[i] = <<>> /\ inbox[i] = <<>> /\ (Unsettled(i) => i \in notified)
      /\ UNCHANGED <<view, prev, inbox, todo, latest, toasts, raced>>
  BY DEF Elapse, Idle, history
<1> SUFFICES ASSUME latest[p].event > 0, latest[p].status \in Attention, <<p, latest[p].status>> \notin raced,
                    toasts[latest[p].event] # 0
             PROVE  ToldOnce(p)'
  BY <1>2 DEF ToldOnce
<1> DEFINE key == <<p, latest[p].status>>
<1>3. key \in Keys /\ claim'[key] = Aged(claim[key])
  BY <1>2, Parts
<1>4. \A i \in Instances : ~Unheard(i, p)' /\ ~Queued(i, p)'
  <2> SUFFICES ASSUME NEW i \in Instances PROVE ~Unheard(i, p)' /\ ~Queued(i, p)'
    OBVIOUS
  <2>1. inbox'[i] = <<>> /\ todo'[i] = <<>>
    BY <1>1, <1>2 DEF ReportsInv, InPlace
  <2> QED
    BY <2>1 DEF Unheard, Queued
<1>5. NextSecond(p)'
  BY <1>2, <1>4 DEF NextSecond
<1>6. ASSUME NextSecond(p), NEW i \in Instances
      PROVE  ~Unsettles(i, p)'
  <2> SUFFICES ASSUME Unsettles(i, p) PROVE FALSE
    BY <1>2 DEF Unsettles
  <2>1. view[i][p].event = latest[p].event /\ prev[i][p] # latest[p].status /\ i \notin notified
    BY <1>6 DEF Unsettles, NextSecond
  <2>2. i \in open
    BY <1>1, <2>1 DEF ReportsInv, InPlace
  <2>3. view[i][p].status = latest[p].status
    BY <1>1, <2>1 DEF ReportsInv, Knows, Told
  <2>4. Unsettled(i)
    <3>1. StatusMap(view[i])[p] # prev[i][p]
      BY <2>1, <2>3 DEF StatusMap
    <3> QED
      BY <3>1 DEF Unsettled
  <2> QED
    BY <1>2, <2>1, <2>2, <2>4
<1>7. Over(p) => Over(p)'
  BY <1>2 DEF Over, Unheard, Unsettles, Queued
<1>8. NextSecond(p) => Over(p)'
  BY <1>4, <1>6 DEF Over
<1>9. toasts[latest[p].event] = 1 /\ (claim[key] = 0 \/ (claim[key] = 1 /\ NextSecond(p)) \/ Over(p))
  BY <1>1 DEF ToldOnce
<1>10. claim[key] = 0 => claim'[key] = 1
  BY <1>3, Ages
<1> QED
  BY <1>2, <1>5, <1>7, <1>8, <1>9, <1>10 DEF ToldOnce

\* A claim of this second or the last holds the others off; one that was made
\* where none was is the first toast of its event.
LEMMA DispatchOnce ==
  ASSUME NotifyInv, NEW i \in Instances, Dispatch(i), NEW p \in Panes
  PROVE  ToldOnce(p)'
<1>1. ToldOnce(p) /\ TypeOK /\ ReportsInv /\ InPlace(i)
  BY DEF NotifyInv, ReportsInv
<1>2. /\ todo[i] # <<>>
      /\ UNCHANGED <<view, prev, inbox, notified, latest>>
      /\ \A j \in Instances : j # i => todo'[j] = todo[j]
      /\ \A k \in 1..Len(todo'[i]) : \E l \in 1..Len(todo[i]) : todo'[i][k] = todo[i][l]
      /\ raced \subseteq raced'
      /\ \A n \in 1..MaxEvents : n # Current(i).event => toasts'[n] = toasts[n]
  BY <1>1, DispatchParts
<1>3. /\ Current(i) \in Notes /\ Key(i) \in Keys /\ Key(i) = <<Current(i).pane, Current(i).status>>
      /\ 1 \in 1..Len(todo[i]) /\ Current(i) = todo[i][1]
  BY <1>1, <1>2, AtNote
<1> DEFINE n == latest[p].event
           key == <<p, latest[p].status>>
<1> SUFFICES ASSUME n > 0, latest[p].status \in Attention, key \notin raced', toasts'[n] # 0
             PROVE  ToldOnce(p)'
  BY <1>2 DEF ToldOnce
<1>4. n \in 1..MaxEvents /\ key \in Keys /\ key \notin raced
  <2>1. n \in 0..MaxEvents
    BY <1>1, Parts DEF TypeOK
  <2> QED
    BY <1>2, <2>1, Parts, Ages
<1>5. Current(i).event = n => Key(i) = key /\ Queued(i, p)
  <2>1. Told(Current(i).pane, Current(i))
    BY <1>1, <1>3 DEF ReportsInv, Knows
  <2> QED
    BY <1>3, <2>1 DEF Told, Queued
<1>6. NextSecond(p) => NextSecond(p)'
  BY <1>2 DEF NextSecond, Unheard, Unsettles
<1>7. Over(p) => Over(p)'
  <2>1. ASSUME NEW j \in Instances, Queued(j, p)' PROVE Queued(j, p)
    BY <1>2, <2>1 DEF Queued
  <2> QED
    BY <1>2, <2>1 DEF Over, Unheard, Unsettles
\* what is known of the claim while the event may be told again
<1>8. toasts[n] # 0 => /\ toasts[n] = 1
                      /\ (claim[key] = 0 \/ (claim[key] = 1 /\ NextSecond(p)) \/ Over(p))
  BY <1>1, <1>2, <1>4 DEF ToldOnce
<1>9. toasts[n] # 0 /\ Current(i).event = n => claim[key] \in {0, 1}
  BY <1>5, <1>8 DEF Over
<1>10. /\ claim[key] \in {0, 1} => Pruned(claim)[key] = claim[key] /\ ~Expired(claim[key])
       /\ claim[key] \in {0, 1} => claim[key] # NoClaim
  BY <1>1, <1>4, PrunedParts, Ages DEF Expired
\* it is enough that the toast is the first, or that there is none and that
\* whoever else has a claim of the key has it for good
<1>11. ASSUME toasts'[n] = toasts[n],
              claim[key] \in {0, 1} => claim'[key] \in {0, claim[key]}
       PROVE  ToldOnce(p)'
  <2>1. toasts[n] = 1 /\ (claim[key] = 0 \/ (claim[key] = 1 /\ NextSecond(p)) \/ Over(p))
    BY <1>8, <1>11
  <2>2. claim[key] = 0 => claim'[key] = 0
    BY <1>11
  <2>3. claim[key] = 1 => claim'[key] \in {0, 1}
    BY <1>11
  <2> QED
    BY <1>2, <1>6, <1>7, <1>11, <2>1, <2>2, <2>3 DEF ToldOnce
<1>12. ASSUME toasts[n] = 0, toasts'[n] = 1, claim'[key] = 0
       PROVE  ToldOnce(p)'
  BY <1>2, <1>12 DEF ToldOnce
<1>13. CASE SkipFocused(i)
  <2>1. Finish(i, FALSE) /\ claim' = claim
    BY <1>13 DEF SkipFocused
  <2>2. toasts'[n] = toasts[n]
    BY <1>1, <1>2, <1>4, <2>1, FinishParts
  <2> QED
    BY <1>11, <2>1, <2>2
<1>14. CASE Claim(i)
  <2>1. Pruned(claim) \in [Keys -> {NoClaim} \cup (0..(SweepAge + 1))]
    BY <1>1, PrunedParts
  <2>2. CASE Pruned(claim)[Key(i)] = NoClaim
    <3> DEFINE won == TRUE
    <3>1. claim' = [Pruned(claim) EXCEPT ![Key(i)] = 0] /\ won \in BOOLEAN /\ Finish(i, won)
      BY <1>14, <2>2 DEF Claim
    <3>2. claim'[key] = IF Key(i) = key THEN 0 ELSE Pruned(claim)[key]
      BY <1>3, <1>4, <2>1, <3>1
    <3>3. won /\ (toasts'[n] = IF won /\ n = Current(i).event THEN toasts[n] + 1 ELSE toasts[n])
      <4> HIDE DEF won
      <4>1. \A m \in 1..MaxEvents :
              toasts'[m] = IF won /\ m = Current(i).event THEN toasts[m] + 1 ELSE toasts[m]
        BY <1>1, <1>2, <3>1, FinishParts
      <4> QED
        BY <1>4, <4>1 DEF won
    <3>4. CASE Current(i).event = n
      <4>1. toasts[n] = 0
        BY <1>5, <1>9, <1>10, <2>2, <3>4
      <4> QED
        BY <1>5, <1>12, <3>2, <3>3, <3>4, <4>1
    <3>5. CASE Current(i).event # n
      BY <1>10, <1>11, <3>2, <3>3, <3>5
    <3> QED
      BY <3>4, <3>5
  <2>3. CASE Pruned(claim)[Key(i)] # NoClaim
    <3>1. claim' = Pruned(claim) /\ (toasts' = toasts \/ Finish(i, FALSE))
      BY <1>14, <2>3 DEF Claim, history
    <3>2. toasts'[n] = toasts[n]
      BY <1>1, <1>2, <1>4, <3>1, FinishParts
    <3> QED
      BY <1>10, <1>11, <3>1, <3>2
  <2> QED
    BY <2>2, <2>3
<1>15. CASE RemoveStale(i)
  <2>1. /\ claim' = [claim EXCEPT ![Key(i)] = NoClaim] /\ toasts' = toasts
        /\ claim[Key(i)] \in 0..ClaimTtl => Key(i) \in raced'
    BY <1>15 DEF RemoveStale
  <2>2. claim[key] \in {0, 1} => Key(i) # key
    BY <2>1, Ages
  <2>3. claim[key] \in {0, 1} => claim'[key] = claim[key]
    BY <1>1, <1>3, <1>4, <2>1, <2>2 DEF TypeOK
  <2> QED
    BY <1>11, <2>1, <2>3
<1>16. CASE Recreate(i)
  <2> DEFINE won == claim[Key(i)] = NoClaim
  <2>1. /\ claim' = [claim EXCEPT ![Key(i)] = IF claim[Key(i)] = NoClaim THEN 0 ELSE claim[Key(i)]]
        /\ won \in BOOLEAN /\ Finish(i, won)
    BY <1>16 DEF Recreate
  <2>2. claim'[key] = IF Key(i) = key /\ claim[key] = NoClaim THEN 0 ELSE claim[key]
    BY <1>1, <1>3, <1>4, <2>1 DEF TypeOK
  <2>3. toasts'[n] = IF won /\ n = Current(i).event THEN toasts[n] + 1 ELSE toasts[n]
    <3> HIDE DEF won
    <3>1. \A m \in 1..MaxEvents :
            toasts'[m] = IF won /\ m = Current(i).event THEN toasts[m] + 1 ELSE toasts[m]
      BY <1>1, <1>2, <2>1, FinishParts
    <3> QED
      BY <1>4, <3>1
  <2>4. CASE won /\ n = Current(i).event
    <3>1. toasts[n] = 0
      BY <1>5, <1>9, <1>10, <2>4
    <3> QED
      BY <1>5, <1>12, <2>2, <2>3, <2>4, <3>1
  <2>5. CASE ~(won /\ n = Current(i).event)
    BY <1>10, <1>11, <2>2, <2>3, <2>5
  <2> QED
    BY <2>4, <2>5
<1> QED
  BY <1>13, <1>14, <1>15, <1>16 DEF Dispatch

-----------------------------------------------------------------------------
(* The theorems                                                            *)

\* Every step keeps the invariant.
LEMMA NotifyStep ==
  ASSUME NotifyInv, [Next]_vars
  PROVE  NotifyInv'
<1>1. CASE Elapse
  BY <1>1, ElapseReports, ElapseOnce DEF NotifyInv
<1>2. ASSUME NEW q \in Panes, NEW status \in Statuses, NEW acked \in BOOLEAN, Report(q, status, acked)
      PROVE  NotifyInv'
  BY <1>2, ReportReports, ReportOnce DEF NotifyInv
<1>3. ASSUME NEW i \in Instances, Open(i) PROVE NotifyInv'
  BY <1>3, OpenReports, OpenOnce DEF NotifyInv
<1>4. ASSUME NEW i \in Instances, Close(i) PROVE NotifyInv'
  BY <1>4, CloseReports, CloseOnce DEF NotifyInv
<1>5. ASSUME NEW i \in Instances, StatusPipe(i) PROVE NotifyInv'
  BY <1>5, StatusPipeReports, StatusPipeOnce DEF NotifyInv
<1>6. ASSUME NEW i \in Instances, Timer(i) PROVE NotifyInv'
  BY <1>6, TimerReports, TimerOnce DEF NotifyInv
<1>7. ASSUME NEW i \in Instances, Dispatch(i) PROVE NotifyInv'
  BY <1>7, DispatchReports, DispatchOnce DEF NotifyInv
<1>8. ASSUME NEW i \in Instances, NEW q \in Panes, PanesChanged(i, q) PROVE NotifyInv'
  BY <1>8, PanesChangedReports, PanesChangedOnce DEF NotifyInv
<1>9. CASE UNCHANGED vars
  BY <1>9 DEF NotifyInv, TypeOK, ReportsInv, Knows, Told, InPlace, ToldOnce, NextSecond, Over,
              Unheard, Unsettles, Queued, vars
<1> QED
  BY <1>1, <1>2, <1>3, <1>4, <1>5, <1>6, <1>7, <1>8, <1>9 DEF Next

\* The inductive invariant: what instances hold was reported, and the claim of
\* an event that was told is there while anybody can still tell it.
THEOREM NotifyCorrect == Spec => []NotifyInv
<1>1. Init => NotifyInv
  BY NotifyInit
<1>2. NotifyInv /\ [Next]_vars => NotifyInv'
  BY NotifyStep
<1> QED
  BY <1>1, <1>2, PTL DEF Spec

\* "One toast per event instead of one per visited tab" (claim_notification), but
\* for the keys of which a reclaim removed a claim just made.
THEOREM OneToastPerEventCorrect == Spec => []OneToastPerEvent
<1>1. NotifyInv => OneToastPerEvent
  <2> SUFFICES ASSUME NotifyInv, NEW p \in Panes, NEW s \in Attention, <<p, s>> \notin raced,
                      NEW n \in 1..MaxEvents, latest[p].event = n, latest[p].status = s
               PROVE  toasts[n] <= 1
    BY DEF OneToastPerEvent
  <2>1. toasts[n] = 0 \/ toasts[n] = 1
    BY DEF NotifyInv, ToldOnce
  <2> QED
    BY <2>1
<1> QED
  BY <1>1, NotifyCorrect, PTL
=============================================================================
