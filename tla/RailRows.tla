------------------------------- MODULE RailRows -------------------------------
(***************************************************************************)
(* A tab's panes rolled up into the row the rail draws                     *)
(* (crates/plugin/src/rollup.rs).  A pane is what `resolve' and `quiet'    *)
(* say of it: its observation, or Unobserved, and whether an interactive   *)
(* `command' holds its foreground.                                         *)
(*                                                                         *)
(* Text is NoText or one of a few values: rows differ by whether a pane    *)
(* says anything and whether its message repeats its task.                 *)
(***************************************************************************)
EXTENDS Integers, Sequences, FiniteSets, SequencesExt

NoText == ""
Unobserved == [origin |-> "none"]

\* Status: Ord (status.rs).
Severity(status) ==
  CASE status = "idle" -> 0 [] status = "done" -> 1 [] status = "running" -> 2
    [] status = "pending" -> 3 [] status = "error" -> 4

NeedsYou(status)       == status \in {"pending", "error"}
NeedsAttention(status) == status \in {"pending", "error", "done"}

IsActive(status) == status # "idle"
IsSteady(kind)   == kind \in {"service", "remote"}
IsAnimating(obs) == obs.status = "running" /\ ~IsSteady(obs.kind)

\* pane_outcome: only a command that ended wears one, and Ok draws no tag.
FailureTag(obs) == obs.origin = "command" /\ obs.status = "error"

-----------------------------------------------------------------------------
Observed(pane) == pane.obs # Unobserved

\* An observation counts for nothing until it has once been active.
Counts(pane) == Observed(pane) /\ pane.obs.everActive

\* What a pane shows (PaneDisplay): a live observation outranks the editor in
\* its foreground, the editor outranks one at rest.
PaneFace(pane) ==
  IF Counts(pane) /\ ~(pane.quiet /\ pane.obs.status = "idle") THEN "tracked"
  ELSE IF pane.quiet THEN "interactive"
  ELSE "untracked"

EarnsPaneLine(pane) == PaneFace(pane) # "untracked"
Tracked(pane) == PaneFace(pane) = "tracked"

\* The status, message and task its line is drawn from.
ShownStatus(pane) == IF Tracked(pane) THEN pane.obs.status ELSE "idle"
ShownMsg(pane)  == IF Tracked(pane) THEN pane.obs.msg ELSE pane.command
ShownTask(pane) == IF Tracked(pane) THEN pane.obs.task ELSE NoText
ShownTasks(pane) == IF Tracked(pane) THEN pane.obs.tasks ELSE <<>>

UnacknowledgedPending(pane) ==
  /\ Tracked(pane)
  /\ pane.obs.status = "pending" /\ ~pane.obs.acknowledged
  /\ pane.obs.origin = "status"

\* Ranks panes for the tab's headline: severity, then a bounded job over a row
\* that is merely up, then the most recent change; the last pane on a full tie.
Outranks(panes, i, j) ==
  LET a == panes[i].obs
      b == panes[j].obs
      Job(obs) == IF IsSteady(obs.kind) THEN 0 ELSE 1
      key == <<Severity(a.status) - Severity(b.status), Job(a) - Job(b), a.since - b.since, i - j>>
  IN  \E n \in DOMAIN key : key[n] > 0 /\ \A m \in 1..(n - 1) : key[m] = 0

\* 0 where no pane is active.
Headline(panes) ==
  LET active == {i \in DOMAIN panes : Observed(panes[i]) /\ IsActive(panes[i].obs.status)}
  IN  IF active = {} THEN 0
      ELSE CHOOSE i \in active : \A j \in active \ {i} : Outranks(panes, i, j)

RollUp(panes) ==
  LET headline == Headline(panes)
      Of(status) == {i \in DOMAIN panes : Counts(panes[i]) /\ panes[i].obs.status = status}
      observed == {i \in DOMAIN panes : Observed(panes[i])}
  IN  [status    |-> IF headline = 0 THEN "idle" ELSE panes[headline].obs.status,
       headline  |-> headline,
       done      |-> Cardinality(Of("done")),
       pending   |-> Cardinality(Of("pending")),
       total     |-> Cardinality({i \in DOMAIN panes : Counts(panes[i])}),
       animating |-> \E i \in observed : IsAnimating(panes[i].obs),
       remote    |-> \E i \in observed : panes[i].obs.kind = "remote" /\ panes[i].obs.status = "running",
       panes     |-> panes]

-----------------------------------------------------------------------------
\* Mutant: the last tab that needs attention is the end of the round.
CycleNoFurther(statusAt, active, direction) ==
  LET ahead == {p \in DOMAIN statusAt : NeedsAttention(statusAt[p]) /\
                  IF direction = "next" THEN p > active ELSE p < active}
  IN  IF ahead = {} THEN 0
      ELSE CHOOSE p \in ahead : \A q \in ahead : IF direction = "next" THEN p <= q ELSE p >= q

\* cycle_attention (radar_state.rs): the next or previous position, round the
\* end, whose tab needs attention; 0 for none, or only the active one.
CycleAttention(statusAt, active, direction) ==
  LET members == {p \in DOMAIN statusAt : NeedsAttention(statusAt[p])}
      ahead   == {p \in members : active # 0 /\ IF direction = "next" THEN p > active ELSE p < active}
      Lowest(set)  == CHOOSE p \in set : \A q \in set : p <= q
      Highest(set) == CHOOSE p \in set : \A q \in set : p >= q
      Nearest(set) == IF direction = "next" THEN Lowest(set) ELSE Highest(set)
      target  == IF ahead # {} THEN Nearest(ahead) ELSE Nearest(members)
  IN  IF members = {} \/ target = active THEN 0 ELSE target
===============================================================================
