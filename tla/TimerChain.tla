------------------------------ MODULE TimerChain ------------------------------
(***************************************************************************)
(* The one-shot timer chain of a plugin instance (runtime.rs, TimerChain   *)
(* and the entry points that arm and drain it).                            *)
(*                                                                         *)
(* Zellij's set_timeout cannot be cancelled: arming Fast over an armed     *)
(* Slow leaves both fires in flight, and a fire says only how long it was  *)
(* armed for.  Time passes in frames of 1/Fps s; a fire may be late by up  *)
(* to MaxLate frames, and fires that are due land in any order.            *)
(*                                                                         *)
(* `since' is the time since the last full tick (up to a second), `ticked' *)
(* whether the last step was one, `want' the cadence that the last pass    *)
(* over the runtime desired.                                               *)
(***************************************************************************)
EXTENDS Integers, FiniteSets

CONSTANTS
  Fps,        \* spinner_fps: frame fires in a second
  SlowTime,   \* frames in a Slow period
  MaxLate     \* bound: frames a fire can be late

ASSUME TimerChainAssumption ==
  /\ Fps \in Nat \ {0}
  /\ SlowTime \in Nat /\ SlowTime > Fps
  /\ MaxLate \in Nat

Second == Fps
Cadences == {"slow", "fast", "frame"}
Desires == Cadences \cup {"none"}

Length(c) == IF c = "slow" THEN SlowTime ELSE IF c = "fast" THEN Second ELSE 1

Flights == [cadence : Cadences, left : (0 - MaxLate)..SlowTime]

VARIABLES armed, pending, flights, subtick, since, ticked, want

vars == <<armed, pending, flights, subtick, since, ticked, want>>

-----------------------------------------------------------------------------

\* TimerChain::arm: a disarmed chain starts, an armed Slow is topped up.
Tops(a, d) == \/ a = "none" /\ d # "none"
              \/ a = "slow" /\ d \in {"fast", "frame"}

\* TimerChain::on_fire, `others' fires still out: only a Slow fire is told by
\* its elapsed time.
Stale(f, others) == f.cadence = "slow" /\ others > 0

\* Mutant: a full tick does not start the next second.
SubtickNeverResets(f) == IF f.cadence = "frame" THEN subtick + 1 ELSE 0

\* The seconds a fire adds up to: a frame fire carries until a full second.
Subtick(f) == IF f.cadence = "frame" /\ subtick + 1 < Second
                THEN subtick + 1 ELSE 0

FullTick(f) == f.cadence # "frame" \/ subtick + 1 >= Second

\* A live fire disarms; its handler arms again.
Disarmed(a) == "none"

\* arm_timer_if_needed, with `a' armed and `out' in flight.
Arms(a, out, count, desired) ==
  /\ want' = desired
  /\ IF Tops(a, desired)
       THEN /\ armed' = desired
            /\ pending' = count + 1
            /\ flights' = out \cup {[cadence |-> desired,
                                     left |-> Length(desired)]}
       ELSE armed' = a /\ pending' = count /\ flights' = out

Retired == IF pending > 0 THEN pending - 1 ELSE 0

-----------------------------------------------------------------------------

Init ==
  /\ armed = "none" /\ want = "none"
  /\ pending = 0 /\ flights = {}
  /\ subtick = 0 /\ since = Second /\ ticked = FALSE

\* Any event but a fire: load, project, or a session verb.
Pass(desired) ==
  /\ Arms(armed, flights, pending, desired)
  /\ ticked' = FALSE
  /\ UNCHANGED <<subtick, since>>

Swallow(f) ==
  /\ f.left <= 0 /\ Stale(f, Retired)
  /\ flights' = flights \ {f}
  /\ pending' = Retired
  /\ ticked' = FALSE
  /\ UNCHANGED <<armed, subtick, since, want>>

\* timer: a full tick, or frame_fire for the fires in between.
Live(f, desired) ==
  /\ f.left <= 0 /\ ~Stale(f, Retired)
  /\ Arms(Disarmed(armed), flights \ {f}, Retired, desired)
  /\ subtick' = Subtick(f)
  /\ ticked' = FullTick(f)
  /\ since' = IF FullTick(f) THEN 0 ELSE since

Fire == \E f \in flights : Swallow(f) \/ \E d \in Desires : Live(f, d)

Elapse ==
  /\ \A f \in flights : f.left > 0 - MaxLate
  /\ flights' = {[f EXCEPT !.left = @ - 1] : f \in flights}
  /\ since' = IF since < Second THEN since + 1 ELSE Second
  /\ ticked' = FALSE
  /\ UNCHANGED <<armed, pending, subtick, want>>

Next == Fire \/ Elapse \/ \E d \in Desires : Pass(d)

Spec == Init /\ [][Next]_vars

\* Time passes, and Zellij delivers every timeout.
FairSpec == Spec /\ WF_vars(Elapse) /\ WF_vars(Fire)

-----------------------------------------------------------------------------

TypeOK ==
  /\ armed \in Desires /\ want \in Desires
  /\ pending \in Nat
  /\ flights \subseteq Flights
  /\ subtick \in 0..(Second - 1)
  /\ since \in 0..Second
  /\ ticked \in BOOLEAN

\* The count that tells a stale fire from the live chain is the number of
\* fires in flight, through every top-up and wind-down.
PendingCountsFlights == pending = Cardinality(flights)

\* However often the cadence flips while Slow fires are still out, one fire
\* at most drives ticks: a second chain would run every tick-window N times
\* too fast.
OneChain ==
  \A f, g \in flights : f.cadence # "slow" /\ g.cadence # "slow" => f = g

\* A swallowed fire runs none of its tick's duties; that loses nothing, for
\* what the last pass wanted is in flight: a Fast or Frame fire within the
\* second, or for Slow any live fire.
WantedIsInFlight ==
  /\ want \in {"fast", "frame"} =>
       \E f \in flights : f.cadence # "slow" /\ f.left <= Second
  /\ want = "slow" =>
       /\ armed # "none"
       /\ \E f \in flights : f.cadence = armed

\* While the chain is armed the tick counter never runs faster than the
\* clock, whatever mix of Fast, Frame and Slow fires feeds it.
TicksAreSecondsApart == [][ticked' /\ armed # "none" => since = Second]_vars
==============================================================================
