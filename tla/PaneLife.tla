------------------------------- MODULE PaneLife -------------------------------
(***************************************************************************)
(* What the command store promises of a pane's card, without debounce,     *)
(* clocks or books: a run begins and finishes; a success recedes to rest   *)
(* by itself while a failure stays until something takes its place; and    *)
(* every outcome that stops being shown is filed by that very call, once.  *)
(***************************************************************************)
CONSTANTS
  Panes,
  Names,    \* programs, and no program
  Codes     \* exit statuses, "none" for a run nobody saw exit

VARIABLES
  card,     \* what the pane shows
  filed     \* the outcomes the last call handed over

vars == <<card, filed>>

Outcomes == {"done", "error"}

Cards == [status : {"absent", "idle", "running"} \cup Outcomes,
          name : Names, code : Codes]

\* What a call that replaces the card has to hand over.
Displaced(old) == {c \in {old} : c.status \in Outcomes}

Stay(old, new, out) == new = old /\ out = {}

\* A run shows up, or the next one takes its place.
Begin(old, new, out) ==
  /\ new.status = "running" /\ new.code = "none"
  /\ new # old
  /\ out = Displaced(old)

\* A run ends, on show or before it was; the outcome may equal the last one.
Finish(old, new, out) ==
  /\ new.status \in Outcomes
  /\ out = Displaced(old)

\* Only a success goes by itself.
Recede(old, new, out) ==
  /\ old.status = "done"
  /\ new = [old EXCEPT !.status = "idle"]
  /\ out = {old}

\* The user declares the program interactive: its row rests.
Demote(old, new, out) ==
  /\ old.status = "running"
  /\ new = [old EXCEPT !.status = "idle"]
  /\ out = {}

\* The pane is gone.
Forget(old, new, out) ==
  /\ new.status = "absent"
  /\ out = Displaced(old)

Moves(old, new, out) ==
  \/ Stay(old, new, out)
  \/ Begin(old, new, out)
  \/ Finish(old, new, out)
  \/ Recede(old, new, out)
  \/ Demote(old, new, out)
  \/ Forget(old, new, out)

Init ==
  /\ card \in [Panes -> {c \in Cards : c.status = "absent"}]
  /\ filed = [p \in Panes |-> {}]

\* One call may move several panes.
Next ==
  /\ card' \in [Panes -> Cards]
  /\ filed' \in [Panes -> SUBSET Cards]
  /\ \A p \in Panes : Moves(card[p], card'[p], filed'[p])

Spec == Init /\ [][Next]_vars
==============================================================================
