---------------------------- MODULE PresenceWriter ----------------------------
(***************************************************************************)
(* How one session keeps its presence file, which the other sessions read  *)
(* as its sign of life: every tab's instance publishes (project, in        *)
(* runtime.rs), and a token file names the one whose view counts           *)
(* (claim_presence_writer and persist_presence, in session_files.rs).      *)
(*                                                                         *)
(* Time is in units of a fraction of the heartbeat.  A handler's effects   *)
(* are carried out one by one, each with calls on the files between which  *)
(* other instances run: `op' is the effect an instance is at.  `stamp' is  *)
(* the age of last_presence_write_epoch_s, `lag' that of last_now_epoch_s, *)
(* which the handlers without a clock of their own take for the present.   *)
(* `foreign' is history: for how long the file has not shown the view of   *)
(* the live instance that holds the token, since that instance last had    *)
(* anything but its timer to handle.                                       *)
(***************************************************************************)
EXTENDS Integers

CONSTANTS
  Rails,        \* plugin instances
  Heartbeat,    \* PRESENCE_HEARTBEAT_S, and the Slow cadence
  Skip,         \* PRESENCE_HEARTBEAT_SKIP
  Rescue,       \* PRESENCE_RESCUE_AFTER
  StaleAfter,   \* STALE_AFTER_SECS
  DeadAfter     \* DEAD_AFTER_SECS

PresenceWriterAssumption ==
  /\ Heartbeat \in Nat \ {0} /\ Skip \in 1..Heartbeat
  /\ StaleAfter \in Nat /\ DeadAfter \in Nat
  /\ Rescue = Heartbeat + Skip
  /\ Rescue < StaleAfter
  /\ StaleAfter < DeadAfter
  /\ Rescue + 2 * (Heartbeat - 1) <= DeadAfter
  /\ "nobody" \notin Rails

VARIABLES life, hidden, busy, fire, stamp, lag, op, token, file, foreign

vars == <<life, hidden, busy, fire, stamp, lag, op, token, file, foreign>>

Nobody == "nobody"
Unarmed == -1
Quiet == [at |-> "idle", kind |-> "none"]

Older(age, cap) == IF age < cap THEN age + 1 ELSE cap
StampCap == 2 * Heartbeat

Open(i) == life[i] \in {"nameless", "named"}
Named(i) == life[i] = "named"
AtRest(i) == op[i].at = "idle"
Holds(i) == token.by = i

Init ==
  /\ life = [i \in Rails |-> "unborn"]
  /\ hidden = [i \in Rails |-> FALSE]
  /\ busy = [i \in Rails |-> FALSE]
  /\ fire = [i \in Rails |-> Unarmed]
  /\ stamp = [i \in Rails |-> StampCap]
  /\ lag = [i \in Rails |-> 0]
  /\ op = [i \in Rails |-> Quiet]
  /\ token = [by |-> Nobody, young |-> FALSE]
  /\ file = [by |-> Nobody, fresh |-> FALSE, age |-> 0]
  /\ foreign = 0

-----------------------------------------------------------------------------
(* project: the one place that decides to publish.                         *)

\* Mutant: the heartbeat is left to the content edges.
EdgesOnly(moved, age) == IF moved THEN "edge" ELSE "none"

\* A content edge, or a heartbeat once the last write is old enough.
Publishes(moved, age) ==
  IF moved THEN "edge" ELSE IF age >= Heartbeat THEN "beat" ELSE "none"

\* arm_timer_if_needed: Fast while there is work, else Slow; a Fast wish
\* overtakes a Slow timer in flight, and a Slow one waits for the fire.
Armed(left, works) ==
  IF left = Unarmed THEN (IF works THEN 1 ELSE Heartbeat)
  ELSE IF works /\ left > 1 THEN 1 ELSE left

\* project after an optional claim, at the instant the handler believes it is
\* (`ago': a stale clock's error), with `left' on the timer in flight.
Project(i, claim, moved, works, ago, left) ==
  LET kind == Publishes(moved, stamp[i] - ago)
  IN /\ busy' = [busy EXCEPT ![i] = works]
     /\ stamp' = [stamp EXCEPT ![i] = IF kind = "none" THEN @ ELSE ago]
     /\ lag' = [lag EXCEPT ![i] = ago]
     /\ op' = [op EXCEPT ![i] =
                 [at |-> IF claim # "none" THEN claim
                         ELSE IF kind # "none" THEN "persist" ELSE "idle",
                  kind |-> kind]]
     /\ fire' = [fire EXCEPT ![i] = Armed(left, works)]
     /\ file' = [file EXCEPT !.fresh = @ /\ ~(moved /\ file.by = i)]

-----------------------------------------------------------------------------
(* The events of one instance, each while no effect is under way.          *)

\* load: no name yet, so nothing is published.
Load(i) ==
  /\ life[i] = "unborn"
  /\ life' = [life EXCEPT ![i] = "nameless"]
  /\ UNCHANGED <<hidden, busy, fire, stamp, lag, op, token, file, foreign>>

\* learn_session_name, the first: an instance on screen claims at once.
LearnName(i) ==
  /\ life[i] = "nameless" /\ AtRest(i)
  /\ life' = [life EXCEPT ![i] = "named"]
  /\ \E works \in BOOLEAN, left \in Unarmed..Heartbeat :
       Project(i, IF hidden[i] THEN "none" ELSE "preempt", TRUE, works, lag[i],
               left)
  /\ UNCHANGED <<hidden, token, foreign>>

\* Anything but a timer at the token's holder begins a new silence.
Disturbed(i) == foreign' = IF Holds(i) THEN 0 ELSE foreign

\* tabs_changed and panes_changed: the tab is active, whatever Visible said.
Manifest(i, moved, works) ==
  /\ Open(i) /\ AtRest(i)
  /\ hidden' = [hidden EXCEPT ![i] = FALSE]
  /\ IF Named(i) THEN Project(i, "claim", moved, works, 0, fire[i])
     ELSE /\ lag' = [lag EXCEPT ![i] = 0]
          /\ UNCHANGED <<busy, fire, stamp, op, file>>
  /\ Disturbed(i)
  /\ UNCHANGED <<life, token>>

\* A broadcast or a command report: the content may move, or the work to do.
Hears(i, moved, works) ==
  /\ Named(i) /\ AtRest(i)
  /\ Project(i, "none", moved, works, 0, fire[i])
  /\ Disturbed(i)
  /\ UNCHANGED <<life, hidden, token>>

\* The name again, or another one, or a scan's answer: no clock of their own.
Relearns(i, moved) ==
  /\ Named(i) /\ AtRest(i)
  /\ Project(i, "none", moved, busy[i], lag[i], fire[i])
  /\ Disturbed(i)
  /\ UNCHANGED <<life, hidden, token>>

\* visibility_changed
Hide(i) ==
  /\ Open(i) /\ AtRest(i) /\ ~hidden[i]
  /\ hidden' = [hidden EXCEPT ![i] = TRUE]
  /\ UNCHANGED <<life, busy, fire, stamp, lag, op, token, file, foreign>>

Reveal(i) ==
  /\ Open(i) /\ AtRest(i) /\ hidden[i]
  /\ hidden' = [hidden EXCEPT ![i] = FALSE]
  /\ IF Named(i) THEN Project(i, "preempt", FALSE, busy[i], lag[i], fire[i])
     ELSE UNCHANGED <<busy, fire, stamp, lag, op, file>>
  /\ Disturbed(i)
  /\ UNCHANGED <<life, token>>

\* timer: the work may be over, and with it what the content says.
Timer(i, moved) ==
  /\ Named(i) /\ AtRest(i) /\ fire[i] = 0
  /\ \E works \in {busy[i], FALSE} : Project(i, "none", moved, works, 0, Unarmed)
  /\ UNCHANGED <<life, hidden, token, foreign>>

\* The tab closes, between two handlers.
Unload(i) ==
  /\ Open(i) /\ AtRest(i)
  /\ life' = [life EXCEPT ![i] = "closed"]
  /\ hidden' = [hidden EXCEPT ![i] = FALSE]
  /\ busy' = [busy EXCEPT ![i] = FALSE]
  /\ fire' = [fire EXCEPT ![i] = Unarmed]
  /\ stamp' = [stamp EXCEPT ![i] = StampCap]
  /\ lag' = [lag EXCEPT ![i] = 0]
  /\ UNCHANGED <<op, token, file, foreign>>

-----------------------------------------------------------------------------
(* handle_effects                                                          *)

\* Mutant: a manifest takes a token however young it is.
TakesAnyToken(i, preempt) == ~Holds(i)

\* claim_presence_writer leaves a young foreign token alone, unless the claim
\* preempts.
TakesToken(i, preempt) == ~Holds(i) /\ (preempt \/ ~token.young)

ToPersist(kind) ==
  [at |-> IF kind = "none" THEN "idle" ELSE "persist", kind |-> kind]

Claim(i) ==
  /\ op[i].at \in {"claim", "preempt"}
  /\ op' = [op EXCEPT ![i] = IF TakesToken(i, op[i].at = "preempt")
                               THEN [@ EXCEPT !.at = "take"]
                               ELSE ToPersist(op[i].kind)]
  /\ UNCHANGED <<life, hidden, busy, fire, stamp, lag, token, file, foreign>>

\* The token is written, and presence_writer_acquired republishes in the place
\* of the handler's own write.
Take(i) ==
  /\ op[i].at = "take"
  /\ token' = [by |-> i, young |-> TRUE]
  /\ op' = [op EXCEPT ![i] = ToPersist("edge")]
  /\ stamp' = [stamp EXCEPT ![i] = lag[i]]
  /\ foreign' = 0
  /\ UNCHANGED <<life, hidden, busy, fire, lag, file>>

\* Mutant: any instance writes like the holder.
AnyoneWrites(i, kind) == IF kind = "edge" THEN 0 ELSE Skip

\* The age the file must have for this write to happen.
MinAge(i, kind) ==
  IF ~Holds(i) THEN Rescue ELSE IF kind = "edge" THEN 0 ELSE Skip

\* persist_presence: stat first, then write and rename.
Persist(i) ==
  /\ op[i].at = "persist"
  /\ op' = [op EXCEPT ![i] =
              IF file.by # Nobody /\ file.age < MinAge(i, @.kind)
                THEN Quiet ELSE [@ EXCEPT !.at = "write"]]
  /\ UNCHANGED <<life, hidden, busy, fire, stamp, lag, token, file, foreign>>

Write(i) ==
  /\ op[i].at = "write"
  /\ file' = [by |-> i, fresh |-> TRUE, age |-> 0]
  /\ op' = [op EXCEPT ![i] = Quiet]
  /\ foreign' = IF Holds(i) THEN 0 ELSE foreign
  /\ UNCHANGED <<life, hidden, busy, fire, stamp, lag, token>>

Effect(i) == Claim(i) \/ Take(i) \/ Persist(i) \/ Write(i)

-----------------------------------------------------------------------------

ShowsHolder == file.by = token.by /\ file.fresh

\* A unit of time passes once handlers are over and due timers have fired.
Elapse ==
  /\ \A i \in Rails : AtRest(i) /\ fire[i] # 0
  /\ fire' = [i \in Rails |-> IF fire[i] = Unarmed THEN Unarmed ELSE fire[i] - 1]
  /\ stamp' = [i \in Rails |-> Older(stamp[i], StampCap)]
  /\ lag' = [i \in Rails |-> Older(lag[i], StampCap)]
  /\ token' = [token EXCEPT !.young = FALSE]
  /\ file' = [file EXCEPT !.age = IF file.by = Nobody THEN @
                                ELSE Older(@, DeadAfter + 1)]
  /\ foreign' = IF (\E i \in Rails : Holds(i) /\ Named(i)) /\ ~ShowsHolder
                 THEN Older(foreign, 4 * Heartbeat) ELSE 0
  /\ UNCHANGED <<life, hidden, busy, op>>

Event(i) ==
  \/ Load(i) \/ LearnName(i) \/ Hide(i) \/ Reveal(i) \/ Unload(i)
  \/ \E moved \in BOOLEAN : Timer(i, moved) \/ Relearns(i, moved)
  \/ \E moved, works \in BOOLEAN : Manifest(i, moved, works) \/ Hears(i, moved, works)

Next == Elapse \/ \E i \in Rails : Event(i) \/ Effect(i)

Spec == Init /\ [][Next]_vars

-----------------------------------------------------------------------------

TypeOK ==
  /\ life \in [Rails -> {"unborn", "nameless", "named", "closed"}]
  /\ hidden \in [Rails -> BOOLEAN] /\ busy \in [Rails -> BOOLEAN]
  /\ fire \in [Rails -> Unarmed..Heartbeat]
  /\ stamp \in [Rails -> 0..StampCap]
  /\ lag \in [Rails -> 0..StampCap]
  /\ op \in [Rails -> [at : {"idle", "claim", "preempt", "take", "persist",
                             "write"},
                       kind : {"none", "edge", "beat"}]]
  /\ token \in [by : Rails \cup {Nobody}, young : BOOLEAN]
  /\ file \in [by : Rails \cup {Nobody}, fresh : BOOLEAN, age : 0..(DeadAfter + 1)]
  /\ foreign \in 0..(4 * Heartbeat)

\* "A live session is never reaped" (PRESENCE_RESCUE_AFTER): while an instance
\* that knows the session's name is open, the file never gets as old as peers
\* need to delete it, whichever tab held the token and closed.
NeverReaped ==
  (\E i \in Rails : Named(i)) /\ (\A i \in Rails : AtRest(i))
     => file.by # Nobody /\ file.age <= DeadAfter

\* The view of the instance that was active last is what peers read: one
\* that another instance's rescue, or its write that raced the takeover, put
\* in its place is gone before four heartbeats in which the instance has
\* nothing but its timer to handle ("last-claim-wins is exactly the freshest
\* view writes").
ForeignViewIsReplaced ==
  (\E i \in Rails : Holds(i) /\ Named(i)) => foreign < 4 * Heartbeat

\* A manifest never takes a token another instance took in the same unit of
\* time, so two clients on two tabs do not trade it with every manifest.
YoungTokenIsKept ==
  [][\A i \in Rails :
       op[i].at = "claim" /\ op'[i].at = "take" => ~token.young]_vars

\* The freshest view writes: another's is replaced in time, and a token that was
\* just taken is not taken back.
FreshestViewWrites == []ForeignViewIsReplaced /\ YoungTokenIsKept

\* "A live holder never triggers a rescue" (PRESENCE_RESCUE_AFTER, set to the
\* holder's "worst-case write gap"): no other instance finds the file older
\* than that, and writes its own view over it, while the instance that wrote
\* it lives and holds the token.  Does not hold, and no run checks it (README,
\* Where code and text disagree).
LiveHolderIsNotRescued ==
  [][\A i, j \in Rails :
       Persist(i) /\ op'[i].at = "write" /\ ~Holds(i)
         => ~(Holds(j) /\ Named(j) /\ file.by = j /\ file.age > Rescue)]_vars
==============================================================================
