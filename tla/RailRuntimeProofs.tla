-------------------------- MODULE RailRuntimeProofs --------------------------
(***************************************************************************)
(* Proofs about the timer chain and the rail that runs on it, for every    *)
(* frame rate, Slow period, lateness and length of a flash.                *)
(*                                                                         *)
(* The chain's inductive invariant has two parts: the books (what is armed *)
(* is in flight, and counted), and the pace (when a fire lands, the second *)
(* it stands for has passed).  Of the rail: what it shows is its row, and  *)
(* whatever waits for a tick has one coming.  Two invariants carry that:   *)
(* what the picture owes (PictureInv), and that a need is among what the   *)
(* last pass wanted (NeedInv), which the chain's invariant turns into a    *)
(* fire in flight.                                                         *)
(*                                                                         *)
(* The last part is about the lines it draws: none is wider than the rail, *)
(* for every width of three columns or more and every text.  Each          *)
(* emitter's texts fit the columns it lays them out over; those a glyph    *)
(* reserves are then free.                                                 *)
(***************************************************************************)
EXTENDS RailRuntime, RailWidths, FiniteSetTheorems, TLAPS

-----------------------------------------------------------------------------
(* The timer chain.                                                        *)

\* No Slow fire was armed this instant unless the chain is still armed and no
\* other fire is due: no second Slow fire is armed in the same instant.
FreshIn(a, out) ==
  \A f \in out : f.cadence = "slow" /\ f.left = SlowTime =>
    a # "none" /\ \A g \in out : g.cadence # "slow" => g.left > 0

\* With `a' armed, `out' in flight and `count' booked: a fire that is not
\* Slow is the armed one, and whatever is armed is in flight.
Booked(a, out, count) ==
  /\ out \subseteq Flights /\ IsFiniteSet(out)
  /\ count = Cardinality(out)
  /\ FreshIn(a, out)
  /\ \A f \in out : f.cadence # "slow" => a = f.cadence
  /\ a # "none" => \E f \in out : f.cadence = a
  /\ \A f, g \in out : f.cadence # "slow" /\ g.cadence # "slow" => f = g
  /\ \A f \in out : f.left <= Length(f.cadence)

\* A fire with `left' to go lands at least `need' after the last tick.
Met(left, t, need) == IF left > 0 THEN t + left >= need ELSE t >= need

Paced(a, out, k, t) ==
  /\ t >= k
  /\ \A f \in out : f.cadence = "fast" => Met(f.left, t, Second)
  /\ \A f \in out : f.cadence = "frame" => Met(f.left, t, k + 1)
  /\ a = "slow" => \E f \in out : f.cadence = "slow" /\ Met(f.left, t, Second)

Wanted == /\ want \in {"fast", "frame"} => armed \in {"fast", "frame"}
          /\ want = "slow" => armed # "none"

ChainInv ==
  /\ TypeOK
  /\ Booked(armed, flights, pending)
  /\ Paced(armed, flights, subtick, since)
  /\ Wanted
-----------------------------------------------------------------------------

\* Arming keeps the books: the new fire differs from all that are out.
LEMMA ArmsBooked ==
  ASSUME NEW a \in Desires, NEW out, NEW count \in Nat, NEW d \in Desires,
         Booked(a, out, count), Arms(a, out, count, d)
  PROVE  /\ Booked(armed, flights, pending)'
         /\ armed' \in Desires /\ want' \in Desires /\ pending' \in Nat
         /\ flights' \subseteq Flights
         /\ Wanted'
<1> USE TimerChainAssumption
<1> DEFINE e == [cadence |-> d, left |-> Length(d)]
<1>1. CASE ~Tops(a, d)
  <2>1. armed' = a /\ pending' = count /\ flights' = out /\ want' = d
    BY <1>1 DEF Arms
  <2>2. Booked(armed, flights, pending)'
    BY <2>1 DEF Booked, FreshIn
  <2>3. Wanted'
    BY <1>1, <2>1 DEF Wanted, Tops, Desires, Cadences
  <2> QED
    BY <2>1, <2>2, <2>3 DEF Booked
<1>2. CASE Tops(a, d)
  <2>1. /\ armed' = d /\ pending' = count + 1 /\ flights' = out \cup {e}
        /\ want' = d
    BY <1>2 DEF Arms
  <2>2. d \in Cadences /\ a \in {"none", "slow"} /\ (a = "slow" => d # "slow")
    BY <1>2 DEF Tops, Desires, Cadences
  <2>3. Length(d) \in 1..SlowTime /\ e \in Flights
    BY <2>2 DEF Length, Flights, Cadences, Second
  <2>4. \A f \in out : f.cadence = "slow"
    BY <2>2 DEF Booked, Flights, Cadences
  <2>5. e \notin out
    <3>1. CASE d = "slow"
      BY <3>1, <2>2 DEF Booked, FreshIn, Length
    <3>2. CASE d # "slow"
      BY <3>2, <2>4
    <3> QED
      BY <3>1, <3>2
  <2>6. /\ IsFiniteSet(flights') /\ pending' = Cardinality(flights')
        /\ flights' \subseteq Flights
    BY <2>1, <2>3, <2>5, FS_AddElement DEF Booked
  <2>7. FreshIn(armed, flights)'
    BY <2>1, <2>2, <2>3, <2>4 DEF FreshIn, Cadences
  <2>8. /\ \A f \in flights' : f.cadence # "slow" => armed' = f.cadence
        /\ \E f \in flights' : f.cadence = armed'
        /\ \A f, g \in flights' : f.cadence # "slow" /\ g.cadence # "slow"
                                    => f = g
        /\ \A f \in flights' : f.left <= Length(f.cadence)
    <3>1. e \in flights' /\ e.cadence = d /\ e.left = Length(d)
      BY <2>1
    <3>2. \A f \in flights' : f = e \/ f \in out
      BY <2>1
    <3>3. Length(d) <= Length(d)
      BY <2>3
    <3> QED
      BY <2>1, <2>4, <3>1, <3>2, <3>3 DEF Booked
  <2>9. Wanted'
    BY <2>1, <2>2 DEF Wanted, Cadences
  <2> QED
    BY <2>1, <2>2, <2>6, <2>7, <2>8, <2>9 DEF Booked, Desires
<1> QED
  BY <1>1, <1>2

\* Arming keeps the pace: the new fire lands a full second, or one frame,
\* from now.
LEMMA ArmsPaced ==
  ASSUME NEW a \in Desires, NEW out, NEW count \in Nat, NEW d \in Desires,
         NEW k \in 0..(Second - 1), NEW t \in 0..Second,
         Paced(a, out, k, t), Arms(a, out, count, d)
  PROVE  Paced(armed', flights', k, t)
<1> USE TimerChainAssumption
<1>1. CASE ~Tops(a, d)
  BY <1>1 DEF Arms, Paced
<1>2. CASE Tops(a, d)
  <2> DEFINE e == [cadence |-> d, left |-> Length(d)]
  <2>1. armed' = d /\ flights' = out \cup {e}
    BY <1>2 DEF Arms
  <2>2. d \in Cadences
    BY <1>2 DEF Tops, Desires, Cadences
  <2>3. /\ d = "fast" => Met(e.left, t, Second)
        /\ d = "frame" => Met(e.left, t, k + 1)
        /\ d = "slow" => Met(e.left, t, Second)
    BY DEF Met, Length, Paced, Second
  <2>4. e \in flights' /\ \A f \in flights' : f = e \/ f \in out
    BY <2>1
  <2>5. e.cadence = d
    OBVIOUS
  <2> HIDE DEF e
  <2>6. \A f \in flights' : f.cadence = "fast" => Met(f.left, t, Second)
    BY <2>3, <2>4, <2>5 DEF Paced
  <2>7. \A f \in flights' : f.cadence = "frame" => Met(f.left, t, k + 1)
    BY <2>3, <2>4, <2>5 DEF Paced
  <2>8. armed' = "slow" => \E f \in flights' :
                             f.cadence = "slow" /\ Met(f.left, t, Second)
    BY <2>1, <2>3, <2>4, <2>5
  <2> QED
    BY <2>6, <2>7, <2>8 DEF Paced
<1> QED
  BY <1>1, <1>2

\* Retiring a fire takes one off the count.
LEMMA RetiredCount ==
  ASSUME ChainInv, NEW f \in flights
  PROVE  /\ Retired = Cardinality(flights \ {f}) /\ Retired \in Nat
         /\ IsFiniteSet(flights \ {f})
         /\ Retired = 0 => flights = {f}
<1>1. /\ IsFiniteSet(flights) /\ pending = Cardinality(flights)
      /\ pending \in Nat
  BY DEF ChainInv, Booked, TypeOK
<1>2. /\ IsFiniteSet(flights \ {f})
      /\ Cardinality(flights \ {f}) = Cardinality(flights) - 1
  BY <1>1, FS_RemoveElement
<1>3. Cardinality(flights \ {f}) \in Nat
  BY <1>2, FS_CardinalityType
<1>4. Retired = Cardinality(flights \ {f})
  BY <1>1, <1>2, <1>3 DEF Retired
<1>5. Retired = 0 => flights \ {f} = {}
  BY <1>2, <1>4, FS_EmptySet
<1> QED
  BY <1>2, <1>3, <1>4, <1>5

\* What a fire in flight has of its type.
LEMMA FlightParts ==
  ASSUME ChainInv, NEW f \in flights
  PROVE  f.cadence \in Cadences /\ f.left \in Int /\ f \in Flights
BY TimerChainAssumption DEF ChainInv, TypeOK, Flights

-----------------------------------------------------------------------------
(* Steps of the chain                                                      *)

\* A pass over the runtime that is no fire keeps the invariant.
LEMMA PassKeeps ==
  ASSUME ChainInv, NEW d \in Desires, Pass(d)
  PROVE  ChainInv'
<1> USE TimerChainAssumption
<1>1. /\ armed \in Desires /\ pending \in Nat
      /\ subtick \in 0..(Second - 1) /\ since \in 0..Second
  BY DEF ChainInv, TypeOK
<1>2. Arms(armed, flights, pending, d) /\ subtick' = subtick /\ since' = since
      /\ ticked' = FALSE
  BY DEF Pass
<1>3. /\ Booked(armed, flights, pending)' /\ Wanted'
      /\ armed' \in Desires /\ want' \in Desires /\ pending' \in Nat
      /\ flights' \subseteq Flights
  BY <1>1, <1>2, ArmsBooked DEF ChainInv
<1>4. Paced(armed', flights', subtick, since)
  BY <1>1, <1>2, ArmsPaced DEF ChainInv
<1> QED
  BY <1>1, <1>2, <1>3, <1>4 DEF ChainInv, TypeOK

\* A due fire that is not stale leaves books and pace in order for the arm
\* that follows.
LEMMA LiveLeaves ==
  ASSUME ChainInv, NEW f \in flights, f.left <= 0, ~Stale(f, Retired)
  PROVE  /\ Booked("none", flights \ {f}, Retired)
         /\ \A g \in flights \ {f} : g.cadence = "slow"
<1> USE TimerChainAssumption
<1>1. /\ Retired = Cardinality(flights \ {f}) /\ Retired \in Nat
      /\ IsFiniteSet(flights \ {f})
      /\ Retired = 0 => flights = {f}
  BY RetiredCount
<1>2. \A g \in flights \ {f} : g.cadence = "slow"
  <2>1. CASE f.cadence = "slow"
    BY <1>1, <2>1 DEF Stale
  <2>2. CASE f.cadence # "slow"
    BY <2>2 DEF ChainInv, Booked
  <2> QED
    BY <2>1, <2>2
<1>3. FreshIn("none", flights \ {f})
  <2>1. CASE f.cadence = "slow"
    BY <1>1, <2>1 DEF Stale, FreshIn
  <2>2. CASE f.cadence # "slow"
    <3>1. ~(f.left > 0)
      BY FlightParts
    <3>2. \A g \in flights : ~(g.cadence = "slow" /\ g.left = SlowTime)
      BY <2>2, <3>1 DEF ChainInv, Booked, FreshIn
    <3> QED
      BY <3>2 DEF FreshIn
  <2> QED
    BY <2>1, <2>2
<1> QED
  BY <1>1, <1>2, <1>3 DEF ChainInv, Booked

\* A fire that lands alone or as the one fast fire lands a second, or a
\* frame, after the last tick.
LEMMA LandsInPace ==
  ASSUME ChainInv, NEW f \in flights, f.left <= 0, ~Stale(f, Retired)
  PROVE  /\ f.cadence = "frame" => since >= subtick + 1
         /\ f.cadence = "fast" => since = Second
         /\ f.cadence = "slow" /\ armed # "none" => since = Second
<1> USE TimerChainAssumption
<1>1. f.left \in Int /\ ~(f.left > 0) /\ since \in 0..Second /\ Second \in Nat
  BY FlightParts DEF ChainInv, TypeOK, Second
<1>2. f.cadence = "frame" => since >= subtick + 1
  BY <1>1 DEF ChainInv, Paced, Met
<1>3. f.cadence = "fast" => since = Second
  BY <1>1 DEF ChainInv, Paced, Met
<1>4. ASSUME f.cadence = "slow", armed # "none"
      PROVE  since = Second
  <2>1. flights = {f}
    <3>1. Retired \in Nat /\ (Retired = 0 => flights = {f})
      BY RetiredCount
    <3> QED
      BY <1>4, <3>1 DEF Stale
  <2>2. armed = "slow"
    BY <1>4, <2>1 DEF ChainInv, Booked
  <2>3. Met(f.left, since, Second)
    BY <2>1, <2>2 DEF ChainInv, Paced
  <2> QED
    BY <1>1, <2>3 DEF Met
<1> QED
  BY <1>2, <1>3, <1>4

\* A live fire keeps the invariant.
LEMMA LiveKeeps ==
  ASSUME ChainInv, NEW f \in flights, NEW d \in Desires, Live(f, d)
  PROVE  ChainInv'
<1> USE TimerChainAssumption
<1>1. /\ f.left <= 0 /\ ~Stale(f, Retired)
      /\ Arms("none", flights \ {f}, Retired, d)
      /\ subtick' = Subtick(f) /\ ticked' = FullTick(f)
      /\ since' = IF FullTick(f) THEN 0 ELSE since
  BY DEF Live, Disarmed
<1>2. /\ subtick \in 0..(Second - 1) /\ since \in 0..Second
      /\ Second \in Nat /\ since >= subtick
  BY DEF ChainInv, TypeOK, Second, Paced
<1>3. /\ Booked("none", flights \ {f}, Retired) /\ Retired \in Nat
      /\ \A g \in flights \ {f} : g.cadence = "slow"
  BY <1>1, LiveLeaves, RetiredCount
<1>4. /\ Booked(armed, flights, pending)' /\ Wanted'
      /\ armed' \in Desires /\ want' \in Desires /\ pending' \in Nat
      /\ flights' \subseteq Flights
  <2>1. "none" \in Desires
    BY DEF Desires
  <2> QED
    BY <1>1, <1>3, <2>1, ArmsBooked
<1>5. /\ subtick' \in 0..(Second - 1) /\ since' \in 0..Second
      /\ since' >= subtick'
  <2>1. f.cadence = "frame" => since >= subtick + 1
    BY <1>1, LandsInPace
  <2> QED
    BY <1>1, <1>2, <2>1 DEF Subtick, FullTick, Second
<1>6. Paced("none", flights \ {f}, subtick', since')
  BY <1>3, <1>5 DEF Paced
<1>7. Paced(armed', flights', subtick', since')
  <2>1. "none" \in Desires
    BY DEF Desires
  <2> QED
    BY <1>1, <1>3, <1>5, <1>6, <2>1, ArmsPaced
<1>8. ticked' \in BOOLEAN
  BY <1>1 DEF FullTick
<1> QED
  BY <1>4, <1>5, <1>7, <1>8 DEF ChainInv, TypeOK

\* A swallowed fire leaves a chain that is as armed as before.
LEMMA SwallowKeeps ==
  ASSUME ChainInv, NEW f \in flights, Swallow(f)
  PROVE  ChainInv'
<1> USE TimerChainAssumption
<1> DEFINE out == flights \ {f}
<1>1. /\ f.left <= 0 /\ f.cadence = "slow" /\ Retired > 0
      /\ flights' = out /\ pending' = Retired /\ ticked' = FALSE
      /\ armed' = armed /\ subtick' = subtick /\ since' = since /\ want' = want
  BY DEF Swallow, Stale
<1>2. Retired = Cardinality(out) /\ Retired \in Nat /\ IsFiniteSet(out)
  BY RetiredCount
<1>3. PICK h \in out : TRUE
  BY <1>1, <1>2, FS_EmptySet
<1>4. armed = "slow" => h.cadence = "slow"
  BY DEF ChainInv, Booked
<1>5. armed # "none" => \E g \in out : g.cadence = armed
  BY <1>1, <1>4 DEF ChainInv, Booked
<1>6. Booked(armed, out, Retired)
  BY <1>2, <1>5 DEF ChainInv, Booked, FreshIn
<1>7. armed = "slow" => \E g \in out : /\ g.cadence = "slow"
                                       /\ Met(g.left, since, Second)
  <2> SUFFICES ASSUME armed = "slow"
               PROVE  \E g \in out : /\ g.cadence = "slow"
                                     /\ Met(g.left, since, Second)
    OBVIOUS
  <2>1. PICK g \in flights : g.cadence = "slow" /\ Met(g.left, since, Second)
    BY DEF ChainInv, Paced
  <2>2. CASE g # f
    BY <2>1, <2>2
  <2>3. CASE g = f
    <3>1. since >= Second /\ since \in Nat /\ Second \in Nat /\ h.left \in Int
      BY <1>1, <2>1, <2>3, FlightParts DEF Met, ChainInv, TypeOK, Second
    <3>2. Met(h.left, since, Second)
      BY <3>1 DEF Met
    <3> QED
      BY <1>4, <3>2
  <2> QED
    BY <2>2, <2>3
<1>8. Paced(armed, out, subtick, since)
  BY <1>7 DEF ChainInv, Paced
<1> QED
  BY <1>1, <1>2, <1>6, <1>8 DEF ChainInv, TypeOK, Booked, Wanted

\* Time keeps fires apart: as many are in flight as before.
LEMMA ElapseCount ==
  ASSUME ChainInv, Elapse
  PROVE  IsFiniteSet(flights') /\ Cardinality(flights') = Cardinality(flights)
<1> DEFINE shift == [f \in flights |-> [f EXCEPT !.left = @ - 1]]
<1>1. flights' = {[f EXCEPT !.left = @ - 1] : f \in flights}
  BY DEF Elapse
<1>2. shift \in Surjection(flights, flights')
  BY <1>1 DEF Surjection
<1>3. \A f, g \in flights : shift[f] = shift[g] => f = g
  <2> SUFFICES ASSUME NEW f \in flights, NEW g \in flights, shift[f] = shift[g]
               PROVE  f = g
    OBVIOUS
  <2>1. f \in Flights /\ g \in Flights /\ f.left \in Int /\ g.left \in Int
    BY FlightParts
  <2>2. [f EXCEPT !.left = @ - 1] = [g EXCEPT !.left = @ - 1]
    OBVIOUS
  <2>3. /\ [f EXCEPT !.left = @ - 1].cadence = f.cadence
        /\ [g EXCEPT !.left = @ - 1].cadence = g.cadence
        /\ [f EXCEPT !.left = @ - 1].left = f.left - 1
        /\ [g EXCEPT !.left = @ - 1].left = g.left - 1
    BY <2>1 DEF Flights
  <2>4. f.cadence = g.cadence
    BY <2>2, <2>3
  <2>5. f.left - 1 = g.left - 1
    BY <2>2, <2>3
  <2>6. f.left = g.left
    BY <2>1, <2>5
  <2> QED
    BY <2>1, <2>4, <2>6 DEF Flights
<1>4. shift \in Bijection(flights, flights')
  <2>1. DOMAIN shift = flights
    OBVIOUS
  <2> HIDE DEF shift
  <2> QED
    BY <1>2, <1>3, <2>1 DEF Bijection, Injection, IsInjective, Surjection
<1>5. ExistsBijection(flights, flights')
  BY <1>4 DEF ExistsBijection
<1> QED
  BY <1>5, FS_Bijection DEF ChainInv, Booked

\* Time keeps the pace: every fire comes a frame closer and the last tick
\* moves a frame away.
LEMMA MetElapses ==
  ASSUME NEW left \in Int, NEW t \in 0..Second, NEW need \in 0..Second,
         Met(left, t, need)
  PROVE  Met(left - 1, IF t < Second THEN t + 1 ELSE Second, need)
BY TimerChainAssumption DEF Met, Second

\* Time keeps the invariant.
LEMMA ElapseKeeps ==
  ASSUME ChainInv, Elapse
  PROVE  ChainInv'
<1> USE TimerChainAssumption
<1> DEFINE back(f) == [f EXCEPT !.left = @ - 1]
<1>1. /\ \A f \in flights : f.left > 0 - MaxLate
      /\ flights' = {back(f) : f \in flights}
      /\ since' = IF since < Second THEN since + 1 ELSE Second
      /\ ticked' = FALSE /\ armed' = armed /\ pending' = pending
      /\ subtick' = subtick /\ want' = want
  BY DEF Elapse
<1>2. /\ subtick \in 0..(Second - 1) /\ since \in 0..Second
      /\ Second \in Nat /\ since >= subtick
  BY DEF ChainInv, TypeOK, Second, Paced
<1>3. \A f \in flights : /\ back(f).cadence = f.cadence
                         /\ back(f).left = f.left - 1 /\ back(f) \in flights'
                         /\ back(f) \in Flights /\ f.left \in Int
  <2> SUFFICES ASSUME NEW f \in flights
               PROVE  /\ back(f).cadence = f.cadence
                      /\ back(f).left = f.left - 1 /\ back(f) \in flights'
                      /\ back(f) \in Flights /\ f.left \in Int
    OBVIOUS
  <2>1. f \in Flights /\ f.left \in Int
    BY FlightParts
  <2>2. f.left - 1 \in (0 - MaxLate)..SlowTime
    BY <1>1, <2>1 DEF Flights
  <2> QED
    BY <1>1, <2>1, <2>2 DEF Flights
<1>4. \A g \in flights' : \E f \in flights : g = back(f)
  BY <1>1
<1> HIDE DEF back
<1>5. flights' \subseteq Flights
  BY <1>3, <1>4
<1>6. FreshIn(armed', flights')
  <2>1. \A g \in flights' : g.left # SlowTime
    <3> SUFFICES ASSUME NEW f \in flights
                 PROVE  f.left - 1 # SlowTime
      BY <1>3, <1>4
    <3> QED
      BY <1>3, FlightParts DEF Flights
  <2> QED
    BY <2>1 DEF FreshIn
<1>7. Booked(armed, flights, pending)'
  <2>1. \A g \in flights' : g.left <= Length(g.cadence)
    <3> SUFFICES ASSUME NEW f \in flights
                 PROVE  f.left - 1 <= Length(f.cadence)
      BY <1>3, <1>4
    <3>1. f.left <= Length(f.cadence) /\ f.left \in Int
      BY <1>3 DEF ChainInv, Booked
    <3>2. Length(f.cadence) \in Int
      BY DEF Length, Second
    <3> QED
      BY <3>1, <3>2
  <2>2. \A g \in flights' : g.cadence # "slow" => armed' = g.cadence
    BY <1>1, <1>3, <1>4 DEF ChainInv, Booked
  <2>3. armed' # "none" => \E g \in flights' : g.cadence = armed'
    BY <1>1, <1>3 DEF ChainInv, Booked
  <2>4. \A g, h \in flights' : g.cadence # "slow" /\ h.cadence # "slow" => g = h
    BY <1>3, <1>4 DEF ChainInv, Booked
  <2>5. IsFiniteSet(flights') /\ pending' = Cardinality(flights')
    BY <1>1, ElapseCount DEF ChainInv, Booked
  <2> QED
    BY <1>5, <1>6, <2>1, <2>2, <2>3, <2>4, <2>5 DEF Booked
<1>8. Paced(armed, flights, subtick, since)'
  <2>1. \A left \in Int, need \in 0..Second :
          Met(left, since, need) => Met(left - 1, since', need)
    BY <1>1, <1>2, MetElapses
  <2>2. \A g \in flights' : g.cadence = "fast" => Met(g.left, since', Second)
    BY <1>2, <1>3, <1>4, <2>1 DEF ChainInv, Paced
  <2>3. subtick' + 1 \in 0..Second
    BY <1>1, <1>2
  <2>4. \A g \in flights' :
          g.cadence = "frame" => Met(g.left, since', subtick' + 1)
    BY <1>1, <1>3, <1>4, <2>1, <2>3 DEF ChainInv, Paced
  <2>5. armed' = "slow" => \E g \in flights' :
          g.cadence = "slow" /\ Met(g.left, since', Second)
    BY <1>1, <1>2, <1>3, <2>1 DEF ChainInv, Paced
  <2>6. since' >= subtick'
    BY <1>1, <1>2
  <2> QED
    BY <2>2, <2>4, <2>5, <2>6 DEF Paced
<1>9. TypeOK'
  <2>1. since' \in 0..Second
    BY <1>1, <1>2
  <2> QED
    BY <1>1, <1>2, <1>5, <2>1 DEF ChainInv, TypeOK
<1> QED
  BY <1>1, <1>7, <1>8, <1>9 DEF ChainInv, Wanted

-----------------------------------------------------------------------------
(* The theorems                                                            *)

\* A fresh runtime has no timer out.
LEMMA InitEstablishes == Init => ChainInv
<1> USE TimerChainAssumption
<1> SUFFICES ASSUME Init
             PROVE  ChainInv
  OBVIOUS
<1>1. armed = "none" /\ want = "none" /\ pending = 0 /\ flights = {}
      /\ subtick = 0 /\ since = Second /\ ticked = FALSE
  BY DEF Init
<1>2. TypeOK
  <2>1. "none" \in Desires
    BY DEF Desires
  <2>2. subtick \in 0..(Second - 1) /\ since \in 0..Second
    BY <1>1 DEF Second
  <2>3. flights \subseteq Flights /\ pending \in Nat /\ ticked \in BOOLEAN
    BY <1>1
  <2> QED
    BY <1>1, <2>1, <2>2, <2>3 DEF TypeOK
<1>3. Booked(armed, flights, pending)
  BY <1>1, FS_EmptySet DEF Booked, FreshIn
<1> QED
  BY <1>1, <1>2, <1>3 DEF ChainInv, Paced, Wanted, Second

\* Every step of the chain keeps its books and its pace.
LEMMA NextKeeps == ChainInv /\ [Next]_vars => ChainInv'
<1> SUFFICES ASSUME ChainInv, [Next]_vars
             PROVE  ChainInv'
  OBVIOUS
<1>1. CASE Fire
  BY <1>1, SwallowKeeps, LiveKeeps DEF Fire
<1>2. CASE Elapse
  BY <1>2, ElapseKeeps
<1>3. CASE \E d \in Desires : Pass(d)
  BY <1>3, PassKeeps
<1>4. CASE UNCHANGED vars
  BY <1>4 DEF vars, ChainInv, TypeOK, Booked, FreshIn, Paced, Wanted
<1> QED
  BY <1>1, <1>2, <1>3, <1>4 DEF Next

\* The chain's books and pace hold in every reachable state.
THEOREM ChainCorrect == Spec => []ChainInv
<1> QED
  BY InitEstablishes, NextKeeps, PTL DEF Spec

\* Every reachable state of the timer chain is well typed.
THEOREM ChainTypeCorrect == Spec => []TypeOK
<1>1. ChainInv => TypeOK
  BY DEF ChainInv
<1> QED
  BY <1>1, ChainCorrect, PTL

\* pending_fires is the number of fires in flight.
THEOREM CountCorrect == Spec => []PendingCountsFlights
<1>1. ChainInv => PendingCountsFlights
  BY DEF ChainInv, Booked, PendingCountsFlights
<1> QED
  BY <1>1, ChainCorrect, PTL

\* Never two chains of ticks.
THEOREM OneChainCorrect == Spec => []OneChain
<1>1. ChainInv => OneChain
  BY DEF ChainInv, Booked, OneChain
<1> QED
  BY <1>1, ChainCorrect, PTL

\* A cadence wanted within the second has its fire in flight.
LEMMA InFlight ==
  ASSUME ChainInv, want \in {"fast", "frame"}
  PROVE  \E f \in flights : f.cadence # "slow" /\ f.left <= Second
<1> USE TimerChainAssumption
<1>1. armed \in {"fast", "frame"}
  BY DEF ChainInv, Wanted
<1>2. PICK f \in flights : f.cadence = armed
  BY <1>1 DEF ChainInv, Booked
<1>3. f.left \in Int /\ f.left <= Length(f.cadence)
  BY FlightParts DEF ChainInv, Booked
<1>4. Length(f.cadence) <= Second /\ Length(f.cadence) \in Int /\ Second \in Int
  BY <1>1, <1>2 DEF Length, Second
<1> QED
  BY <1>1, <1>2, <1>3, <1>4

\* What the last pass wanted is in flight.
THEOREM WantedCorrect == Spec => []WantedIsInFlight
<1>1. ChainInv => WantedIsInFlight
  <2> SUFFICES ASSUME ChainInv
               PROVE  WantedIsInFlight
    OBVIOUS
  <2> QED
    BY InFlight DEF ChainInv, Booked, Wanted, WantedIsInFlight
<1> QED
  BY <1>1, ChainCorrect, PTL

\* A step that ticks an armed chain comes a second after the last tick.
LEMMA TickTakesASecond ==
  ChainInv /\ [Next]_vars => [ticked' /\ armed # "none" => since = Second]_vars
<1> SUFFICES ASSUME ChainInv, Next, ticked', armed # "none"
             PROVE  since = Second
  BY DEF vars
<1> USE TimerChainAssumption
<1>1. CASE Fire
  <2>1. PICK f \in flights : Swallow(f) \/ \E d \in Desires : Live(f, d)
    BY <1>1 DEF Fire
  <2>2. \E d \in Desires : Live(f, d)
    BY <2>1 DEF Swallow
  <2>3. f.left <= 0 /\ ~Stale(f, Retired) /\ FullTick(f)
    BY <2>2 DEF Live
  <2>4. /\ f.cadence = "frame" => since >= subtick + 1
        /\ f.cadence = "fast" => since = Second
        /\ f.cadence = "slow" => since = Second
    BY <2>3, LandsInPace
  <2>5. f.cadence = "frame" => since = Second
    BY <2>3, <2>4 DEF FullTick, ChainInv, TypeOK, Second
  <2>6. f.cadence \in Cadences
    BY FlightParts
  <2> QED
    BY <2>4, <2>5, <2>6 DEF Cadences
<1>2. CASE Elapse
  BY <1>2 DEF Elapse
<1>3. CASE \E d \in Desires : Pass(d)
  BY <1>3 DEF Pass
<1> QED
  BY <1>1, <1>2, <1>3 DEF Next

\* While the chain is armed, no tick comes within a second of the last.
THEOREM PaceCorrect == Spec => TicksAreSecondsApart
<1> QED
  BY TickTakesASecond, ChainCorrect, PTL DEF Spec, TicksAreSecondsApart

-----------------------------------------------------------------------------
(* The rail.                                                               *)

\* A rail on screen that a repaint was due in and that has been drawn.
Accountable == OnScreen /\ ~bare /\ drawn.face = "rail"

\* What is drawn is the row, but for the label of an animating one.
PictureInv ==
  Accountable =>
    /\ drawn.row.status = row.status
    /\ ~Spins(row) => drawn.row = row
    /\ flash > 0 => drawn.lit
    /\ picked # "none" => drawn.picked = picked

Needs ==
  \/ perm \in {"waiting", "requesting"}
  \/ Granted /\ (row.status \in {"running", "done"} \/ ~settled \/ flash > 0 \/ picked # "none")

\* What waits for a tick is wanted of the timer, and what is wanted is armed.
NeedInv == Needs => want \in {"fast", "frame"}

RailInv == ChainInv /\ PictureInv /\ NeedInv

-----------------------------------------------------------------------------
(* Passes and what they ask for                                            *)

\* A cadence is always one of the timer's.
LEMMA CadenceType ==
  ASSUME NEW p, NEW n, NEW h, NEW r, NEW known, NEW f, NEW sel
  PROVE  DesiredCadence(p, n, h, r, known, f, sel) \in Desires
BY DEF DesiredCadence, FastCadence, Desires, Cadences

\* A rail that needs a tick asks for one within the second.
LEMMA NeedIsDesired ==
  ASSUME NEW p, NEW n, NEW h, NEW r, NEW known, NEW f, NEW sel,
         \/ p \in {"waiting", "requesting"}
         \/ p = "granted" /\ (r.status \in {"running", "done"} \/ ~known \/ f > 0 \/ sel # "none")
  PROVE  DesiredCadence(p, n, h, r, known, f, sel) \in {"fast", "frame"}
BY DEF DesiredCadence, FastCadence, TimerShouldContinue

\* What the last pass wanted is armed: to ask for it again changes nothing.
LEMMA AgainIsNothing ==
  ASSUME ChainInv, UNCHANGED <<armed, pending, flights, subtick, since, want>>, ticked' = FALSE
  PROVE  \E d \in Desires : Pass(d)
<1>1. want \in Desires /\ armed \in Desires
  BY DEF ChainInv, TypeOK
<1>2. ~Tops(armed, want)
  BY <1>1 DEF ChainInv, Wanted, Tops, Desires, Cadences
<1>3. Pass(want)
  BY <1>2 DEF Pass, Arms
<1> QED
  BY <1>1, <1>3

\* A pass of the rail is one of the chain.
LEMMA DesirePasses ==
  ASSUME NEW known, Pass(Desire(known))
  PROVE  Next
<1>1. Desire(known) \in Desires
  BY CadenceType DEF Desire
<1> QED
  BY <1>1 DEF Next

-----------------------------------------------------------------------------
(* The rail's timer is the timer chain                                     *)

\* Every step of a rail is one of its timer chain, or leaves the chain alone.
LEMMA RailStepIsChainStep ==
  ASSUME ChainInv, RailNext
  PROVE  [Next]_vars
<1>1. CASE RailFire
  <2>1. PICK f \in flights : StaleFire(f) \/ FullFire(f) \/ FrameFire(f)
    BY <1>1 DEF RailFire
  <2>2. CASE StaleFire(f)
    BY <2>2 DEF StaleFire, Next, Fire
  <2>3. CASE FullFire(f) \/ FrameFire(f)
    <3>1. Live(f, Desire(Known))
      BY <2>3 DEF FullFire, FrameFire
    <3>2. Desire(Known) \in Desires
      BY CadenceType DEF Desire
    <3> QED
      BY <3>1, <3>2 DEF Next, Fire
  <2> QED
    BY <2>1, <2>2, <2>3
<1>2. CASE RailElapse
  BY <1>2 DEF RailElapse, Next
<1>3. CASE \E granted \in BOOLEAN : PermissionResult(granted)
  <2>1. ticked' = FALSE /\ UNCHANGED <<armed, pending, flights, subtick, since, want>>
    BY <1>3 DEF PermissionResult
  <2> QED
    BY <2>1, AgainIsNothing DEF Next
<1>4. CASE \E to \in StatusRows : StatusPipe(to)
  BY <1>4, DesirePasses DEF StatusPipe
<1>5. CASE \E exits \in BOOLEAN : PanesChanged(exits)
  <2>1. Pass(Desire(Known))
    BY <1>5 DEF PanesChanged, Project
  <2> QED
    BY <2>1, DesirePasses
<1>6. CASE TabsChanged
  <2>1. Pass(Desire(Known))
    BY <1>6 DEF TabsChanged
  <2> QED
    BY <2>1, DesirePasses
<1>7. CASE \E visible \in BOOLEAN : VisibilityChanged(visible)
  <2>1. PICK visible \in BOOLEAN : Reveal(visible)
    BY <1>7 DEF VisibilityChanged
  <2>2. CASE hidden /\ visible
    <3>1. Pass(Desire(Known))
      BY <2>1, <2>2 DEF Reveal, Project
    <3> QED
      BY <3>1, DesirePasses
  <2>3. CASE ~(hidden /\ visible)
    <3>1. ticked' = FALSE /\ UNCHANGED <<armed, pending, flights, subtick, since, want>>
      BY <2>1, <2>3 DEF Reveal
    <3> QED
      BY <3>1, AgainIsNothing DEF Next
  <2> QED
    BY <2>2, <2>3
<1>8. CASE LearnSessionName \/ ConfigPipe \/ Control
  <2>1. Pass(Desire(Known))
    BY <1>8 DEF LearnSessionName, ConfigPipe, Control, Project
  <2> QED
    BY <2>1, DesirePasses
<1> QED
  BY <1>1, <1>2, <1>3, <1>4, <1>5, <1>6, <1>7, <1>8 DEF RailNext, RailEvent

-----------------------------------------------------------------------------
(* What the picture owes                                                   *)

\* A repaint owes nothing.
LEMMA PaintedIsTrue ==
  ASSUME NEW paint, Shows(paint), paint
  PROVE  PictureInv'
BY DEF Shows, PictureInv, Picture

\* A repaint that the gate for identical rows drops owes nothing.
LEMMA GateDropsWhatIsShown ==
  ASSUME NEW paint, Shows(paint), ~paint, NEW forced, ~PassesGates(forced)
  PROVE  PictureInv'
<1> SUFFICES ASSUME Accountable'
             PROVE  /\ drawn'.row = row'
                    /\ drawn'.lit = (flash' > 0)
                    /\ drawn'.picked = picked'
  BY DEF PictureInv
<1>1. drawn' = drawn /\ ~hidden'
  BY DEF Shows, Accountable, OnScreen
<1>2. drawn.face = "rail"
  BY <1>1 DEF Accountable
<1>3. DrawnKey = Key'
  BY <1>1, <1>2 DEF PassesGates
<1> QED
  BY <1>1, <1>3 DEF DrawnKey, Key

\* What is neither painted nor changed is as true as before.
LEMMA UnchangedIsTrue ==
  ASSUME PictureInv, UNCHANGED <<perm, row, flash, picked, drawn>>, ~bare' /\ ~hidden' => ~bare /\ ~hidden
  PROVE  PictureInv'
BY DEF PictureInv, Accountable, OnScreen, Granted, Spins

\* Every event keeps what the picture owes.
LEMMA EventsDraw ==
  ASSUME PictureInv, RailEvent
  PROVE  PictureInv'
<1>1. CASE \E granted \in BOOLEAN : PermissionResult(granted)
  BY <1>1, PaintedIsTrue DEF PermissionResult
<1>2. ASSUME NEW to \in StatusRows, StatusPipe(to)
      PROVE  PictureInv'
  <2> DEFINE paint == row # to /\ ~LabelOnly(row, to) /\ PassesGates(FALSE)
  <2>1. Shows(paint) /\ row' = to /\ UNCHANGED <<perm, hidden, picked>>
    BY <1>2 DEF StatusPipe
  <2>2. flash' = IF to.status = "pending" /\ row.status # "pending" THEN FlashTicks ELSE flash
    BY <1>2 DEF StatusPipe
  <2>3. CASE paint
    BY <2>1, <2>3, PaintedIsTrue
  <2>4. CASE row # to /\ ~LabelOnly(row, to) /\ ~PassesGates(FALSE)
    BY <2>1, <2>4, GateDropsWhatIsShown
  <2>5. CASE row = to
    <3>1. flash' = flash /\ row' = row /\ drawn' = drawn /\ bare' = (bare /\ ~hidden')
      BY <2>1, <2>2, <2>5 DEF Shows
    <3> QED
      BY <2>1, <3>1, UnchangedIsTrue
  <2>6. CASE LabelOnly(row, to) /\ row # to
    <3>1. /\ flash' = flash /\ row'.status = row.status /\ Spins(row')
          /\ drawn' = drawn /\ bare' = (bare /\ ~hidden')
      BY <2>1, <2>2, <2>6 DEF LabelOnly, Spins, Shows
    <3> QED
      BY <2>1, <3>1 DEF PictureInv, Accountable, OnScreen, Granted, Spins
  <2> QED
    BY <2>3, <2>4, <2>5, <2>6
<1>3. CASE \E exits \in BOOLEAN : PanesChanged(exits)
  <2>1. Shows(TRUE /\ PassesGates(FALSE))
    BY <1>3 DEF PanesChanged, Project
  <2> QED
    BY <2>1, PaintedIsTrue, GateDropsWhatIsShown
<1>4. CASE TabsChanged
  BY <1>4, UnchangedIsTrue DEF TabsChanged
<1>5. CASE \E visible \in BOOLEAN : VisibilityChanged(visible)
  <2>1. PICK visible \in BOOLEAN : Reveal(visible) /\ UNCHANGED <<perm, row, flash, picked>>
    BY <1>5 DEF VisibilityChanged
  <2>2. CASE hidden /\ visible
    <3>1. Shows(TRUE /\ PassesGates(TRUE))
      BY <2>1, <2>2 DEF Reveal, Project
    <3> QED
      BY <3>1, PaintedIsTrue, GateDropsWhatIsShown
  <2>3. CASE ~(hidden /\ visible)
    <3>1. Shows(FALSE) /\ hidden' = ~visible
      BY <2>1, <2>3 DEF Reveal
    <3> QED
      BY <2>1, <2>3, <3>1, UnchangedIsTrue DEF Shows
  <2> QED
    BY <2>2, <2>3
<1>6. CASE LearnSessionName
  BY <1>6, UnchangedIsTrue DEF LearnSessionName, Project, Shows
<1>7. CASE ConfigPipe
  <2>1. Shows(TRUE /\ PassesGates(TRUE))
    BY <1>7 DEF ConfigPipe, Project
  <2> QED
    BY <2>1, PaintedIsTrue, GateDropsWhatIsShown
<1>8. CASE Control
  BY <1>8, PaintedIsTrue DEF Control
<1> QED
  BY <1>1, <1>2, <1>3, <1>4, <1>5, <1>6, <1>7, <1>8 DEF RailEvent

\* Every fire, and time, keeps what the picture owes.
LEMMA FiresDraw ==
  ASSUME PictureInv, RailFire \/ RailElapse
  PROVE  PictureInv'
<1>1. CASE RailElapse
  BY <1>1, UnchangedIsTrue DEF RailElapse, domain
<1>2. ASSUME NEW f \in flights, StaleFire(f)
      PROVE  PictureInv'
  BY <1>2, UnchangedIsTrue DEF StaleFire, domain, Shows
<1>3. ASSUME NEW f \in flights, FrameFire(f)
      PROVE  PictureInv'
  <2>1. CASE hidden
    <3>1. hidden'
      BY <1>3, <2>1 DEF FrameFire, domain
    <3> QED
      BY <3>1 DEF PictureInv, Accountable, OnScreen
  <2>2. CASE ~hidden
    BY <1>3, <2>2, PaintedIsTrue DEF FrameFire, Shows
  <2> QED
    BY <2>1, <2>2
<1>4. ASSUME NEW f \in flights, FullFire(f)
      PROVE  PictureInv'
  <2> DEFINE paint == TimerPaints(f) /\ PassesGates(TRUE)
  <2>1. Shows(paint) /\ hidden' = hidden /\ picked' \in {picked, "none"}
    BY <1>4 DEF FullFire, TickSelection
  <2>2. CASE paint
    BY <2>1, <2>2, PaintedIsTrue DEF Shows
  <2>3. CASE hidden'
    BY <2>3 DEF PictureInv, Accountable, OnScreen
  <2>4. CASE ~TimerPaints(f) /\ ~hidden'
    <3>1. perm' = perm /\ row' = row /\ ~(flash' > 0)
      BY <2>4 DEF TimerPaints, TimerShouldContinue
    <3>2. drawn' = drawn /\ bare' = (bare /\ ~hidden')
      BY <2>1, <2>4 DEF Shows
    <3> QED
      BY <2>1, <3>1, <3>2 DEF PictureInv, Accountable, OnScreen, Granted, Spins
  <2> QED
    BY <2>2, <2>3, <2>4 DEF PassesGates
<1> QED
  BY <1>1, <1>2, <1>3, <1>4 DEF RailFire

-----------------------------------------------------------------------------
(* What is needed is wanted                                                *)

\* A pass that knows no more of the status than it has settled asks for the
\* tick the rail needs.
LEMMA PassWantsTheNeed ==
  ASSUME NEW known, want' = Desire(known), ~settled' => ~known
  PROVE  NeedInv'
BY NeedIsDesired DEF NeedInv, Needs, Granted, Desire

\* Where neither the need nor the want changed, it is wanted as before.
LEMMA NeedStays ==
  ASSUME NeedInv, want' = want, Needs' => Needs
  PROVE  NeedInv'
BY DEF NeedInv

\* After an event the chain is set for what the rail then waits for.
LEMMA EventsWant ==
  ASSUME NeedInv, RailEvent
  PROVE  NeedInv'
<1>1. CASE \E granted \in BOOLEAN : PermissionResult(granted)
  BY <1>1, NeedStays DEF PermissionResult, Needs
<1>2. CASE \E to \in StatusRows : StatusPipe(to)
  <2>1. want' = Desire(settled')
    BY <1>2 DEF StatusPipe, Pass, Arms
  <2> QED
    BY <2>1, PassWantsTheNeed
<1>3. CASE \E exits \in BOOLEAN : PanesChanged(exits)
  <2>1. want' = Desire(Known) /\ settled' = TRUE
    BY <1>3 DEF PanesChanged, Project, Pass, Arms
  <2> QED
    BY <2>1, PassWantsTheNeed
<1>4. CASE TabsChanged \/ LearnSessionName \/ ConfigPipe \/ Control
  <2>1. want' = Desire(Known) /\ settled' = settled
    BY <1>4 DEF TabsChanged, LearnSessionName, ConfigPipe, Control, Project, Pass, Arms, domain
  <2> QED
    BY <2>1, PassWantsTheNeed DEF Known
<1>5. CASE \E visible \in BOOLEAN : VisibilityChanged(visible)
  <2>1. PICK visible \in BOOLEAN : Reveal(visible) /\ UNCHANGED <<perm, row, settled, flash, picked>>
    BY <1>5 DEF VisibilityChanged
  <2>2. CASE hidden /\ visible
    <3>1. want' = Desire(Known)
      BY <2>1, <2>2 DEF Reveal, Project, Pass, Arms
    <3> QED
      BY <2>1, <3>1, PassWantsTheNeed DEF Known
  <2>3. CASE ~(hidden /\ visible)
    <3>1. want' = want
      BY <2>1, <2>3 DEF Reveal
    <3> QED
      BY <2>1, <3>1, NeedStays DEF Needs, Granted
  <2> QED
    BY <2>2, <2>3
<1> QED
  BY <1>1, <1>2, <1>3, <1>4, <1>5 DEF RailEvent

\* The same after a fire, swallowed ones included.
LEMMA FiresWant ==
  ASSUME NeedInv, RailFire \/ RailElapse
  PROVE  NeedInv'
<1>1. CASE RailElapse
  BY <1>1, NeedStays DEF RailElapse, Elapse, domain, Needs, Granted
<1>2. ASSUME NEW f \in flights, StaleFire(f)
      PROVE  NeedInv'
  BY <1>2, NeedStays DEF StaleFire, Swallow, domain, Needs, Granted
<1>3. ASSUME NEW f \in flights, FullFire(f) \/ FrameFire(f)
      PROVE  NeedInv'
  <2>1. want' = Desire(Known)
    BY <1>3 DEF FullFire, FrameFire, Live, Arms
  <2>2. CASE FullFire(f)
    <3>1. settled'
      BY <2>2 DEF FullFire
    <3> QED
      BY <2>1, <3>1, PassWantsTheNeed
  <2>3. CASE FrameFire(f)
    BY <2>1, <2>3, PassWantsTheNeed DEF Known, FrameFire, domain
  <2> QED
    BY <1>3, <2>2, <2>3
<1> QED
  BY <1>1, <1>2, <1>3 DEF RailFire

-----------------------------------------------------------------------------
(* The theorems                                                            *)

\* A rail that loads has drawn nothing, and has the timer its permission and
\* its row call for.
LEMMA RailInitEstablishes == RailInit => RailInv
<1> SUFFICES ASSUME RailInit
             PROVE  RailInv
  OBVIOUS
<1> USE TimerChainAssumption
<1> DEFINE e == [cadence |-> want, left |-> Length(want)]
<1>1. /\ want = DesiredCadence(perm, named, hidden, row, settled, flash, picked)
      /\ armed = want /\ pending = Cardinality(flights)
      /\ flights = IF want = "none" THEN {} ELSE {e}
      /\ subtick = 0 /\ since = Second /\ ticked = FALSE
  BY DEF RailInit
<1>2. want \in Desires
  BY <1>1, CadenceType
<1>3. ASSUME want # "none"
      PROVE  e \in Flights /\ e.left \in Nat /\ e.left > 0 /\ e.cadence = want
  <2>1. want \in Cadences
    BY <1>2, <1>3 DEF Desires
  <2>2. Length(want) \in 1..SlowTime
    BY <2>1 DEF Length, Cadences, Second
  <2> QED
    BY <2>1, <2>2 DEF Flights
<1>4. IsFiniteSet(flights)
  BY <1>1, FS_EmptySet, FS_Singleton
<1>5. pending \in Nat
  BY <1>1, <1>4, FS_CardinalityType
<1>6. TypeOK
  <2>1. subtick \in 0..(Second - 1) /\ since \in 0..Second
    BY <1>1 DEF Second
  <2>2. flights \subseteq Flights
    BY <1>1, <1>3
  <2> QED
    BY <1>1, <1>2, <1>5, <2>1, <2>2 DEF TypeOK
<1>7. Booked(armed, flights, pending)
  <2>1. flights = IF armed = "none" THEN {} ELSE {e}
    BY <1>1
  <2>2. CASE armed = "none"
    BY <1>1, <1>4, <2>1, <2>2 DEF Booked, FreshIn
  <2>3. CASE armed # "none"
    <3>1. /\ e \in Flights /\ e.left = Length(e.cadence) /\ e.left \in Nat
          /\ e.cadence = armed
      BY <1>1, <1>3, <2>3
    <3> HIDE DEF e
    <3>2. flights = {e} /\ flights \subseteq Flights
      BY <2>1, <2>3, <3>1
    <3>3. FreshIn(armed, flights)
      BY <2>3, <3>1, <3>2 DEF FreshIn
    <3> QED
      BY <1>1, <1>4, <2>3, <3>1, <3>2, <3>3 DEF Booked
  <2> QED
    BY <2>1, <2>2, <2>3
<1>8. Paced(armed, flights, subtick, since)
  <2>1. \A f \in flights : f = e /\ want # "none"
    BY <1>1
  <2>2. \A f \in flights : Met(f.left, since, Second) /\ Met(f.left, since, 1)
    BY <1>1, <1>3, <2>1 DEF Met, Second
  <2>3. armed = "slow" => e \in flights /\ e.cadence = "slow"
    BY <1>1
  <2> QED
    BY <1>1, <2>2, <2>3 DEF Paced, Second
<1>9. Wanted
  BY <1>1, <1>2 DEF Wanted
<1>10. PictureInv
  BY DEF RailInit, Nothing, PictureInv, Accountable
<1>11. NeedInv
  BY <1>1, NeedIsDesired DEF NeedInv, Needs, Granted
<1> QED
  BY <1>6, <1>7, <1>8, <1>9, <1>10, <1>11 DEF RailInv, ChainInv

\* Every event, fire and frame keeps the three parts of the invariant.
LEMMA RailNextKeeps == RailInv /\ [RailNext]_railVars => RailInv'
<1> SUFFICES ASSUME RailInv, [RailNext]_railVars
             PROVE  RailInv'
  OBVIOUS
<1>1. CASE RailNext
  <2>1. ChainInv'
    BY <1>1, RailStepIsChainStep, NextKeeps DEF RailInv
  <2>2. PictureInv'
    BY <1>1, EventsDraw, FiresDraw DEF RailInv, RailNext
  <2>3. NeedInv'
    BY <1>1, EventsWant, FiresWant DEF RailInv, RailNext
  <2> QED
    BY <2>1, <2>2, <2>3 DEF RailInv
<1>2. CASE UNCHANGED railVars
  <2>1. UNCHANGED <<vars, domain, drawn, bare>>
    BY <1>2 DEF railVars
  <2>2. ChainInv'
    BY <2>1, NextKeeps DEF RailInv
  <2>3. PictureInv'
    BY <2>1, UnchangedIsTrue DEF RailInv, domain
  <2>4. NeedInv'
    BY <2>1, NeedStays DEF RailInv, domain, vars, Needs, Granted
  <2> QED
    BY <2>2, <2>3, <2>4 DEF RailInv
<1> QED
  BY <1>1, <1>2

\* The invariant holds in every reachable state of a rail.
THEOREM RailCorrect == RailSpec => []RailInv
<1> QED
  BY RailInitEstablishes, RailNextKeeps, PTL DEF RailSpec

\* Whatever the gates drop, a rail on screen shows its row's status, the flash
\* and the selection (runtime.rs: project).
THEOREM StatusesAreDrawnCorrect == RailSpec => []StatusesAreDrawn
<1>1. RailInv => StatusesAreDrawn
  BY DEF RailInv, PictureInv, Accountable, StatusesAreDrawn
<1> QED
  BY <1>1, RailCorrect, PTL

\* Whatever waits for a tick has one coming within the second, hidden or not
\* (runtime.rs: desired_cadence).
THEOREM NeedIsTimedCorrect == RailSpec => []NeedIsTimed
<1>1. RailInv => NeedIsTimed
  BY InFlight DEF RailInv, NeedInv, Needs, NeedIsTimed
<1> QED
  BY <1>1, RailCorrect, PTL

\* A label left to the tick rides one that comes within the second
\* (runtime.rs: status_pipe).
THEOREM StaleIsFollowedUpCorrect == RailSpec => []StaleIsFollowedUp
<1>1. RailInv => StaleIsFollowedUp
  <2> SUFFICES ASSUME RailInv, Accountable, drawn.row # row
               PROVE  \E f \in flights : f.cadence # "slow" /\ f.left <= Second
    BY DEF StaleIsFollowedUp, Accountable
  <2>1. Spins(row)
    BY DEF RailInv, PictureInv
  <2>2. Needs
    BY <2>1 DEF Needs, Spins, Accountable, OnScreen
  <2> QED
    BY <2>2, InFlight DEF RailInv, NeedInv
<1> QED
  BY <1>1, RailCorrect, PTL

\* The rail drives its timer as any client of the chain may: every step of a
\* rail is one of TimerChain's, so its books and its pace hold here too.
THEOREM RailIsAChain == RailSpec => [][Next]_vars
<1>1. RailInv /\ [RailNext]_railVars => [Next]_vars
  BY RailStepIsChainStep DEF RailInv, railVars
<1> QED
  BY <1>1, RailCorrect, PTL DEF RailSpec

\* Whatever events come between, no tick comes within a second of the last.
THEOREM RailTicksAreSecondsApart == RailSpec => TicksAreSecondsApart
<1>1. RailInv /\ [RailNext]_railVars => [ticked' /\ armed # "none" => since = Second]_vars
  <2> SUFFICES ASSUME RailInv, [RailNext]_railVars
               PROVE  [ticked' /\ armed # "none" => since = Second]_vars
    OBVIOUS
  <2>1. ChainInv /\ [Next]_vars
    BY RailStepIsChainStep DEF RailInv, railVars
  <2> QED
    BY <2>1, TickTakesASecond
<1> QED
  BY <1>1, RailCorrect, PTL DEF RailSpec, TicksAreSecondsApart

-----------------------------------------------------------------------------
(* The lines and their hotspots.                                           *)

\* A cut text fits the columns it was cut to (truncate).
LEMMA TruncatedFits ==
  ASSUME NEW text \in Nat, NEW columns \in Nat, NEW cut \in Truncated(text, columns)
  PROVE  cut \in Nat /\ cut <= columns
  BY DEF Truncated

\* What is laid out over a hotspot's content width leaves it its columns.
LEMMA ContentLeavesSlot ==
  ASSUME NEW width \in Nat, NEW minimum \in Nat, minimum >= SlotColumns, NEW wanted \in BOOLEAN
  PROVE  /\ ContentWidth(width, minimum, wanted) \in Nat
         /\ ContentWidth(width, minimum, wanted) <= width
         /\ Admitted(width, minimum, wanted) =>
              ContentWidth(width, minimum, wanted) = width - SlotColumns
         /\ ~Admitted(width, minimum, wanted) => ContentWidth(width, minimum, wanted) = width
  BY DEF ContentWidth, Admitted, Less, SlotColumns

\* A line whose text fits its content width fits the rail with its glyph, and
\* the glyph and its separator have their columns (HotspotSlot::finish).
LEMMA GlyphFits ==
  ASSUME NEW width \in Nat, NEW minimum \in Nat, minimum >= SlotColumns, NEW wanted \in BOOLEAN,
         NEW texts,
         \A text \in texts : text \in Nat /\ text <= ContentWidth(width, minimum, wanted)
  PROVE  /\ \A text \in texts : Admitted(width, minimum, wanted) => text + SlotColumns <= width
         /\ \A cols \in WithGlyph(width, minimum, wanted, texts) : cols <= width
  BY ContentLeavesSlot DEF WithGlyph, SlotColumns

-----------------------------------------------------------------------------
\* The tab's header line (tab_header_line): number, markers and name each get
\* what the ones before left, from three columns up.
LEMMA TabHeaderFits ==
  ASSUME NEW width \in Nat, width >= 3, NEW number \in Nat, NEW name \in Nat, NEW remote \in Nat,
         NEW bell \in {0, 1}, NEW hot \in BOOLEAN,
         NEW text \in TabHeaderText(width, number, name, remote, bell, hot)
  PROVE  text \in Nat /\ text <= ContentWidth(width, TabHeaderMin, hot)
<1> DEFINE content == ContentWidth(width, TabHeaderMin, hot)
           glyphs == remote + bell
           After(num) == 3 + num + IF 3 + num < content THEN 1 ELSE 0
           Marker(num) == IF glyphs > 0 /\ After(num) + glyphs + 1 <= content THEN glyphs + 1 ELSE 0
           Used(num, nm) == After(num) + nm + Marker(num)
<1>1. content \in Nat /\ content >= 3
  BY DEF ContentWidth, Admitted, Less, SlotColumns, TabHeaderMin
<1>2. PICK num \in Truncated(number, Less(content, 3)) :
        \E nm \in Truncated(name, Less(content, After(num) + Marker(num))) :
          text = Used(num, nm) + Less(content, Used(num, nm))
  BY DEF TabHeaderText
<1>3a. PICK nm \in Truncated(name, Less(content, After(num) + Marker(num))) :
         text = Used(num, nm) + Less(content, Used(num, nm))
  BY <1>2
<1> HIDE DEF content
<1>3. num \in Nat /\ num <= content - 3
  <2>1. Less(content, 3) \in Nat /\ Less(content, 3) = content - 3
    BY <1>1 DEF Less
  <2> QED BY <2>1, <1>2, TruncatedFits
<1>4. After(num) \in Nat /\ Marker(num) \in Nat /\ After(num) + Marker(num) <= content
  BY <1>1, <1>3
<1> HIDE DEF After, Marker
<1>5. Less(content, After(num) + Marker(num)) \in Nat
      /\ Less(content, After(num) + Marker(num)) = content - (After(num) + Marker(num))
  BY <1>1, <1>4 DEF Less
<1>6. nm \in Nat /\ nm <= content - (After(num) + Marker(num))
  BY <1>3a, <1>5, TruncatedFits
<1>7. Used(num, nm) \in Nat /\ Used(num, nm) <= content
  BY <1>1, <1>4, <1>6
<1> HIDE DEF Used
<1> QED BY <1>1, <1>3a, <1>7 DEF Less, content

\* A command and its outcome fit the columns they get (compose_activity).
LEMMA ActivityFits ==
  ASSUME NEW columns \in Nat, NEW command \in Nat, NEW full \in Nat,
         NEW activity \in Activity(columns, command, full)
  PROVE  activity \in Nat /\ activity <= columns
<1>1. CASE full = 0
  BY <1>1, TruncatedFits DEF Activity
<1>2. CASE full # 0 /\ command = 0
  BY <1>2, TruncatedFits DEF Activity
<1>3. CASE full # 0 /\ command # 0 /\ full + 2 <= columns
  <2>1. PICK cmd \in Truncated(command, columns - full - 1) : activity = cmd + 1 + full
    BY <1>3 DEF Activity
  <2>2. columns - full - 1 \in Nat
    BY <1>3
  <2> QED BY <2>1, <2>2, TruncatedFits
<1>4. CASE full # 0 /\ command # 0 /\ ~(full + 2 <= columns) /\ 3 <= columns
  <2>1. PICK cmd \in Truncated(command, columns - 2) : activity = cmd + 2
    BY <1>4 DEF Activity
  <2>2. columns - 2 \in Nat
    BY <1>4
  <2> QED BY <2>1, <2>2, TruncatedFits
<1>5. CASE full # 0 /\ command # 0 /\ ~(full + 2 <= columns) /\ ~(3 <= columns)
  BY <1>5, TruncatedFits DEF Activity
<1> QED BY <1>1, <1>2, <1>3, <1>4, <1>5

\* A fixed prefix and a tail that fits the rest (prefixed_line).
LEMMA PrefixedFits ==
  ASSUME NEW width \in Nat, NEW prefix \in Nat, NEW plain \in Nat, NEW tails,
         width >= prefix => \A tail \in tails : tail \in Nat /\ tail <= width - prefix,
         NEW line \in Prefixed(width, prefix, plain, tails)
  PROVE  line \in Nat /\ line <= width
<1>1. CASE width < prefix
  BY <1>1, TruncatedFits DEF Prefixed
<1>2. CASE ~(width < prefix)
  BY <1>2 DEF Prefixed
<1> QED BY <1>1, <1>2

\* The same for a text cut to what the prefix leaves: detail, peer and session
\* lines.
LEMMA PrefixedTextFits ==
  ASSUME NEW width \in Nat, NEW prefix \in Nat, NEW text \in Nat,
         NEW line \in Prefixed(width, prefix, prefix + text, Truncated(text, width - prefix))
  PROVE  line \in Nat /\ line <= width
<1>1. width >= prefix => \A tail \in Truncated(text, width - prefix) : tail \in Nat /\ tail <= width - prefix
  BY TruncatedFits
<1> QED BY <1>1, PrefixedFits

\* A pane's line: the tasks' count is reserved before the activity is cut
\* (emit_pane_line).
LEMMA PaneFits ==
  ASSUME NEW width \in Nat, NEW glyph \in Nat, NEW mark \in Nat, NEW identity \in Nat,
         NEW full \in Nat, NEW tag \in Nat, NEW hot \in BOOLEAN,
         NEW text \in PaneText(width, glyph, mark, identity, full, tag, hot)
  PROVE  text \in Nat /\ text <= ContentWidth(width, PaneLineMin, hot)
<1> DEFINE content == ContentWidth(width, PaneLineMin, hot)
           prefix  == 3 + glyph + 1 + mark + 1
           columns == content - prefix
           counted == IF tag > 0 /\ tag + 1 < columns THEN tag + 1 ELSE 0
           tails == {activity + counted : activity \in Activity(columns - counted, identity, full)}
<1>1. content \in Nat
  BY DEF ContentWidth, Admitted, Less, SlotColumns, PaneLineMin
<1>2. text \in Prefixed(content, prefix, prefix + identity, tails)
  BY DEF PaneText
<1> HIDE DEF content
<1>3. prefix \in Nat
  OBVIOUS
<1>4. content >= prefix => \A tail \in tails : tail \in Nat /\ tail <= content - prefix
  <2> SUFFICES ASSUME content >= prefix, NEW tail \in tails
               PROVE  tail \in Nat /\ tail <= content - prefix
    OBVIOUS
  <2>1. columns \in Nat /\ counted \in Nat /\ counted <= columns
    BY <1>1, <1>3
  <2>2. PICK activity \in Activity(columns - counted, identity, full) : tail = activity + counted
    OBVIOUS
  <2>3. columns - counted \in Nat
    BY <2>1
  <2> HIDE DEF columns, counted
  <2>4. activity \in Nat /\ activity <= columns - counted
    BY <2>2, <2>3, ActivityFits
  <2>5. tail \in Nat /\ tail <= columns
    BY <2>1, <2>2, <2>4
  <2> QED BY <2>5 DEF columns
<1> HIDE DEF prefix, tails
<1>5. prefix + identity \in Nat
  BY <1>3
<1>6. text \in Nat /\ text <= content
  BY <1>1, <1>2, <1>3, <1>4, <1>5, PrefixedFits
<1> QED BY <1>6 DEF content

\* A session's line (render_session_badge).
LEMMA BadgeFits ==
  ASSUME NEW width \in Nat, NEW label \in Nat, NEW hot \in BOOLEAN,
         NEW text \in BadgeText(width, label, hot)
  PROVE  text \in Nat /\ text <= ContentWidth(width, BadgeLineMin, hot)
<1>1. ContentWidth(width, BadgeLineMin, hot) \in Nat
  BY DEF ContentWidth, Admitted, Less, SlotColumns, BadgeLineMin
<1> QED BY <1>1, PrefixedTextFits DEF BadgeText
-----------------------------------------------------------------------------
\* A task's line, from the width below which none is laid (emit_task_line).
LEMMA TaskFits ==
  ASSUME NEW width \in Nat, width >= TaskLinesMin, NEW label \in Nat, NEW age \in Nat,
         NEW line \in TaskLine(width, 1, label, age)
  PROVE  line <= width
<1> DEFINE columns == width - 5
           tag == IF 2 + age < columns THEN age ELSE 0
           tails == {2 + text + tag : text \in Truncated(label, Less(columns, 2 + tag))}
<1>1. columns \in Nat /\ tag \in Nat /\ 2 + tag <= columns
  BY DEF TaskLinesMin
<1>2. line \in Prefixed(width, 5, 5 + 2 + label + age, tails)
  BY DEF TaskLine
<1> HIDE DEF tag
<1>3. ASSUME NEW tail \in tails
      PROVE  tail \in Nat /\ tail <= columns
  <2>1. PICK text \in Truncated(label, Less(columns, 2 + tag)) : tail = 2 + text + tag
    BY <1>3
  <2>2. Less(columns, 2 + tag) \in Nat /\ Less(columns, 2 + tag) = columns - (2 + tag)
    BY <1>1 DEF Less
  <2> HIDE DEF columns
  <2>3. text \in Nat /\ text <= columns - (2 + tag)
    BY <2>2, TruncatedFits
  <2> QED BY <1>1, <2>1, <2>3
<1> HIDE DEF tails
<1>4. 5 + 2 + label + age \in Nat
  OBVIOUS
<1> QED BY <1>2, <1>3, <1>4, PrefixedFits

\* The title line: the right slot first, then the title (render_header).
LEMMA TitleFits ==
  ASSUME NEW width \in Nat, NEW census \in Nat, NEW badge \in Nat, NEW overflow \in BOOLEAN,
         NEW line \in Title(width, census, badge, overflow)
  PROVE  line <= width
<1> DEFINE slot == IF badge > 0 /\ census + 1 + badge <= Less(width, 6) THEN census + 1 + badge
                   ELSE IF badge > 0 /\ ~overflow THEN badge
                   ELSE census
           right == IF slot < width THEN slot ELSE width
           gap   == Less(width, 6 + right)
<1>1. slot \in Nat
  BY DEF Less
<1>2. PICK text \in Truncated(6, Less(width, right + gap)),
           shown \in IF slot > width THEN Truncated(slot, right) ELSE {slot} :
        line = text + gap + shown
  BY DEF Title
<1> HIDE DEF slot
<1>3. right \in Nat /\ right <= width /\ gap \in Nat /\ right + gap <= width
  BY <1>1 DEF Less
<1>4. shown \in Nat /\ shown <= right
  BY <1>1, <1>2, <1>3, TruncatedFits
<1> HIDE DEF right, gap
<1>5. Less(width, right + gap) \in Nat /\ Less(width, right + gap) = width - (right + gap)
  BY <1>3 DEF Less
<1>6. text \in Nat /\ text <= width - (right + gap)
  BY <1>2, <1>5, TruncatedFits
<1> QED BY <1>2, <1>3, <1>4, <1>6

\* The footer's tally with the mode's label (footer_tally).
LEMMA TallyFits ==
  ASSUME NEW width \in Nat, NEW tally \in Nat, NEW mode \in Nat, NEW line \in Tally(width, tally, mode)
  PROVE  line <= width
  BY TruncatedFits DEF Tally

\* A ledger entry: the tab's name, then what the label's separator leaves
\* (ledger_entry_line).
LEMMA LedgerFits ==
  ASSUME NEW width \in Nat, NEW age \in Nat, NEW name \in Nat, NEW label \in Nat,
         NEW line \in LedgerLine(width, age, name, label)
  PROVE  line <= width
<1> DEFINE prefix  == age + 3
           columns == width - prefix
           least == IF LedgerNameColumns < columns THEN LedgerNameColumns ELSE columns
           Left(nm) == Less(columns, nm + 1)
           Label(nm) == IF Left(nm) > 0 /\ label > 0 THEN {1 + text : text \in Truncated(label, Left(nm))} ELSE {0}
           tails == UNION {{nm + text : text \in Label(nm)} : nm \in Truncated(name, least)}
<1>1. prefix \in Nat /\ prefix + name + 1 + label \in Nat
  OBVIOUS
<1>2. line \in Prefixed(width, prefix, prefix + name + 1 + label, tails)
  BY DEF LedgerLine
<1>3. ASSUME width >= prefix, NEW tail \in tails
      PROVE  tail \in Nat /\ tail <= width - prefix
  <2>1. columns \in Nat /\ least \in Nat /\ least <= columns
    <3> HIDE DEF tails, Label, Left
    <3>1. columns \in Nat
      BY <1>1, <1>3
    <3> HIDE DEF columns
    <3> QED BY <3>1 DEF LedgerNameColumns
  <2>2. PICK nm \in Truncated(name, least) : tail \in {nm + text : text \in Label(nm)}
    BY <1>3
  <2>3. nm \in Nat /\ nm <= columns
    <3> HIDE DEF least, columns, Label, Left, tails
    <3>1. nm \in Nat /\ nm <= least
      BY <2>1, <2>2, TruncatedFits
    <3> QED BY <2>1, <3>1
  <2>4. PICK text \in Label(nm) : tail = nm + text
    BY <2>2
  <2> HIDE DEF columns, Label, tails, least
  <2>5. Left(nm) \in Nat /\ (Left(nm) > 0 => nm + 1 + Left(nm) = columns)
    BY <2>1, <2>3 DEF Less
  <2> HIDE DEF Left
  <2> USE DEF Label
  <2>6. text \in Nat /\ nm + text <= columns
    <3>1. CASE Left(nm) > 0 /\ label > 0
      <4>1. PICK cut \in Truncated(label, Left(nm)) : text = 1 + cut
        BY <2>4, <3>1
      <4> QED BY <2>1, <2>3, <2>5, <3>1, <4>1, TruncatedFits
    <3>2. CASE ~(Left(nm) > 0 /\ label > 0)
      BY <2>1, <2>3, <2>4, <3>2
    <3> QED BY <3>1, <3>2
  <2> QED BY <2>3, <2>4, <2>6 DEF columns
<1> HIDE DEF prefix, tails
<1> QED BY <1>1, <1>2, <1>3, PrefixedFits

\* The rules, with the mark that travels along one, and the lines that are one
\* cut text (header_rule, ledger_rule, render_strip, push_panel_line).
LEMMA RuleFits ==
  ASSUME NEW width \in Nat, NEW a \in Nat, NEW b \in Nat,
         NEW line \in HeaderRule(width) \cup LedgerRule(width) \cup StripLine(width, a) \cup PanelLine(width, b)
  PROVE  line <= width
<1>1. CASE line \in HeaderRule(width)
  BY <1>1 DEF HeaderRule, Less
<1>2. CASE line \in LedgerRule(width)
  BY <1>2, TruncatedFits DEF LedgerRule
<1>3. CASE line \in StripLine(width, a) \cup PanelLine(width, b)
  BY <1>3, TruncatedFits DEF StripLine, PanelLine
<1> QED BY <1>1, <1>2, <1>3

-----------------------------------------------------------------------------
\* Every glyph-bearing line of the rail, one of them at a time.
LEMMA HotLinesFit ==
  ASSUME NEW width \in Nat, width >= 3, NEW a \in Nat, NEW b \in Nat, NEW c \in Nat, NEW hot \in BOOLEAN,
         NEW line \in HotLines(width, a, b, c, hot)
  PROVE  /\ line.least \in Nat /\ line.least >= SlotColumns
         /\ \A text \in line.texts : text \in Nat /\ text <= ContentWidth(width, line.least, hot)
<1>1. ASSUME NEW bell \in {0, 1},
             line = [least |-> TabHeaderMin, texts |-> TabHeaderText(width, a, b, c, bell, hot)]
      PROVE  \A text \in line.texts : text \in Nat /\ text <= ContentWidth(width, line.least, hot)
  BY <1>1, TabHeaderFits
<1>2. ASSUME line = [least |-> PaneLineMin, texts |-> PaneText(width, 1, 1, a, b, c, hot)]
      PROVE  \A text \in line.texts : text \in Nat /\ text <= ContentWidth(width, line.least, hot)
  BY <1>2, PaneFits
<1>3. ASSUME line = [least |-> BadgeLineMin, texts |-> BadgeText(width, a, hot)]
      PROVE  \A text \in line.texts : text \in Nat /\ text <= ContentWidth(width, line.least, hot)
  BY <1>3, BadgeFits
<1>4. line.least \in Nat /\ line.least >= SlotColumns
  BY DEF HotLines, TabHeaderMin, PaneLineMin, BadgeLineMin, SlotColumns
<1> QED BY <1>1, <1>2, <1>3, <1>4 DEF HotLines

\* No line of the emitters without a hot spot is wider than the rail.
LEMMA PlainLinesFit ==
  ASSUME NEW width \in Nat, width >= 3, NEW a \in Nat, NEW b \in Nat, NEW c \in Nat, NEW overflow \in BOOLEAN,
         NEW line \in PlainLines(width, a, b, c, overflow)
  PROVE  line <= width
<1>1. CASE line \in DetailLine(width, a) \cup PeerTabLine(width, a) \cup PeerPaneLine(width, b)
  BY <1>1, PrefixedTextFits DEF DetailLine, PeerTabLine, PeerPaneLine
<1>2. CASE width >= TaskLinesMin /\ line \in TaskLine(width, 1, a, b)
  BY <1>2, TaskFits
<1>3. CASE line \in Title(width, a, b, overflow)
  BY <1>3, TitleFits
<1>4. CASE line \in Tally(width, a, b)
  BY <1>4, TallyFits
<1>5. CASE line \in LedgerLine(width, a, b, c)
  BY <1>5, LedgerFits
<1>6. CASE line \in HeaderRule(width) \cup LedgerRule(width) \cup StripLine(width, a) \cup PanelLine(width, b)
  BY <1>6, RuleFits
<1>7. CASE line \in MorePanesLine(width, a)
  <2>1. Less(width, 3) = width - 3 /\ width - 3 \in Nat
    BY DEF Less
  <2>2. \A text \in Truncated(a, width - 3) : text \in Nat /\ text <= width - 3
    BY <2>1, TruncatedFits
  <2> QED BY <1>7, <2>1, <2>2 DEF MorePanesLine
<1>8. CASE line \in MoreTasksLine(width, a)
  BY <1>8, PrefixedTextFits DEF MoreTasksLine
<1> QED BY <1>1, <1>2, <1>3, <1>4, <1>5, <1>6, <1>7, <1>8 DEF PlainLines

\* For every width of three columns or more and every text, no line the rail
\* draws is wider than the rail, and no glyph is left out that had its columns
\* reserved (prefixed_line, HotspotSlot).
THEOREM EveryLineFits ==
  \A width \in Nat : width >= 3 =>
    \A a, b, c \in Nat : \A flag \in BOOLEAN : LinesFit(width, a, b, c, flag)
<1> SUFFICES ASSUME NEW width \in Nat, width >= 3, NEW a \in Nat, NEW b \in Nat, NEW c \in Nat,
                    NEW flag \in BOOLEAN
             PROVE  LinesFit(width, a, b, c, flag)
  OBVIOUS
<1>1. ASSUME NEW line \in HotLines(width, a, b, c, flag)
      PROVE  /\ \A text \in line.texts : Admitted(width, line.least, flag) => text + SlotColumns <= width
             /\ \A cols \in WithGlyph(width, line.least, flag, line.texts) : cols <= width
  BY <1>1, HotLinesFit, GlyphFits
<1>2. \A line \in PlainLines(width, a, b, c, flag) : line <= width
  BY PlainLinesFit
<1> QED BY <1>1, <1>2 DEF LinesFit

\* However a rail is resized and whatever its lines come to say, each fits.
THEOREM LinesFitCorrect == WidthsSpec => []LinesFitNow
<1>1. laid \in Layouts => LinesFitNow
  <2> SUFFICES ASSUME laid \in Layouts PROVE LinesFitNow
    OBVIOUS
  <2>1. /\ laid.width \in Nat /\ laid.width >= 3
        /\ laid.a \in Nat /\ laid.b \in Nat /\ laid.c \in Nat /\ laid.hot \in BOOLEAN
    BY DEF Layouts
  <2> QED BY <2>1, EveryLineFits DEF LinesFitNow
<1>2. laid \in Layouts /\ [laid' \in Layouts]_laid => (laid \in Layouts)'
  OBVIOUS
<1> QED BY <1>1, <1>2, PTL DEF WidthsSpec
=============================================================================
