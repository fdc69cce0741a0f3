------------------------------ MODULE RailLayout ------------------------------
(***************************************************************************)
(* Which cards the rail draws and at how many lines each                   *)
(* (crates/plugin/src/render/layout.rs): `plan_overflow' squeezes the      *)
(* cards' lines into the room the body has, `plan_layout' spends what is   *)
(* left on the blank lines between cards.                                  *)
(*                                                                         *)
(* A row is [status, full, compact]: the card's lines as drawn whole, and  *)
(* with its background tasks folded into a `+N' tag.  A plan is a sequence *)
(* of [row, lines] in rail order.                                          *)
(***************************************************************************)
EXTENDS Integers, Sequences, SequencesExt

Gap(density) == IF density = "compact" THEN 0 ELSE 1      \* card_spacing
IsCalm(status) == status \in {"done", "running"}

Height(plan) == FoldLeft(LAMBDA sum, card : sum + card.lines, 0, plan)

Whole(rows) == [i \in DOMAIN rows |-> [row |-> i, lines |-> rows[i].full]]

\* One pass down the plan, which stops as soon as the plan fits: Shorter(card,
\* over) is what becomes of a card when the plan is `over' lines too high.
Squeeze(plan, room, Shorter(_, _)) ==
  FoldLeft(LAMBDA done, at :
             LET over == Height(done) - room
             IN  IF over <= 0 THEN done
                 ELSE [done EXCEPT ![at].lines = Shorter(done[at], over)],
           plan, [at \in DOMAIN plan |-> at])

LesserOf(a, b) == IF a < b THEN a ELSE b

\* Step 5: from the top, as long as there is room.
Trim(plan, room) ==
  FoldLeft(LAMBDA done, card :
             LET left == room - Height(done)
             IN  IF left <= 0 THEN done
                 ELSE Append(done, [card EXCEPT !.lines = LesserOf(@, left)]),
           <<>>, plan)

FoldTasks(plan, rows, room) ==
  Squeeze(plan, room, LAMBDA card, over : LesserOf(card.lines, rows[card.row].compact))

CalmToOne(plan, rows, room) ==
  Squeeze(plan, room, LAMBDA card, over : IF IsCalm(rows[card.row].status) THEN 1 ELSE card.lines)

UrgentLineByLine(plan, rows, room) ==
  Squeeze(plan, room, LAMBDA card, over :
            IF IsCalm(rows[card.row].status) THEN card.lines
            ELSE card.lines - LesserOf(card.lines - 1, over))

\* Mutant: the rows that ask for the user give way before the calm ones.
SqueezeUrgentFirst(kept, rows, room) ==
  Trim(CalmToOne(UrgentLineByLine(FoldTasks(kept, rows, room), rows, room), rows, room), room)

SqueezeCards(kept, rows, room) ==
  Trim(UrgentLineByLine(CalmToOne(FoldTasks(kept, rows, room), rows, room), rows, room), room)

\* [plan, strip]: the cards and how many idle ones the strip line stands for.
\* The strip's own line is given up before anything is squeezed, so a plan with
\* a strip is never squeezed.
PlanOverflow(rows, room) ==
  LET whole == Whole(rows)
      kept  == SelectSeq(whole, LAMBDA card : rows[card.row].status # "idle")
      idle  == Len(rows) - Len(kept)
  IN  IF Height(whole) <= room THEN [plan |-> whole, strip |-> 0]
      ELSE IF Height(kept) < room THEN [plan |-> kept, strip |-> idle]
      ELSE [plan |-> SqueezeCards(kept, rows, room), strip |-> 0]

\* The gap between cards is kept only where it fits on top of the content.
PlanLayout(rows, room, density) ==
  LET gap     == Gap(density)
      squeezed == PlanOverflow(rows, room)
      content == Height(squeezed.plan) + IF squeezed.strip > 0 THEN 1 ELSE 0
  IN  IF Height(Whole(rows)) + gap * Len(rows) <= room
      THEN [plan |-> Whole(rows), strip |-> 0, gap |-> gap]
      ELSE [plan |-> squeezed.plan, strip |-> squeezed.strip,
            gap |-> IF content + gap * Len(squeezed.plan) <= room THEN gap ELSE 0]
===============================================================================
