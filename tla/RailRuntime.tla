----------------------------- MODULE RailRuntime -----------------------------
(***************************************************************************)
(* One rail at run time: what its events change, when they repaint and     *)
(* which timer they arm (crates/plugin/src/runtime.rs: project and the     *)
(* handlers that end in it, timer, render).  TimerChain is the timer       *)
(* itself; here each pass arms the cadence `desired_cadence' asks for.     *)
(*                                                                         *)
(* The rail has one row, [status, label]: a running row animates, a        *)
(* service does not, a command's done recedes.  The selection is the       *)
(* session a cycle has picked.  The rest of the render key (ledger, peers, *)
(* theme, mode) changes only where a handler asks for a repaint, like the  *)
(* row, and is left out.                                                   *)
(***************************************************************************)
EXTENDS TimerChain

CONSTANT FlashTicks       \* FLASH_TICKS
ASSUME FlashAssumption == FlashTicks \in Nat

Labels == {"a", "b"}
Row(status, label) == [status |-> status, label |-> label]
StatusRows == {Row(s, "a") : s \in {"idle", "pending"}} \cup {Row(s, l) : s \in {"running", "service"}, l \in Labels}
Rows == StatusRows \cup {Row("done", "a")}
Spins(r) == r.status = "running"

Nothing == [face |-> "none", row |-> Row("idle", "a"), lit |-> FALSE, picked |-> "none"]

VARIABLES
  perm,         \* permission: waiting, requesting, granted or denied
  named,        \* own_session_name is known
  hidden,
  row,
  settled,      \* notify_prev has the row's status
  flash,        \* ticks until flash_until
  picked,       \* the selection
  drawn,        \* the last picture; its row, lit and picked are last_render_key
  bare          \* history: `hidden' was cleared by a TabUpdate that changed nothing

domain == <<perm, named, hidden, row, settled, flash, picked>>
railVars == <<vars, domain, drawn, bare>>

-----------------------------------------------------------------------------
\* The timer's cadence.
\* Mutant: an unsettled status does not keep the timer awake.
ForgetsUnsettled(r, known, f) == r.status \in {"running", "done"} \/ f > 0

TimerShouldContinue(r, known, f) == r.status \in {"running", "done"} \/ ~known \/ f > 0

FastCadence(p, h, r) == IF Fps > 1 /\ ~h /\ p = "granted" /\ Spins(r) THEN "frame" ELSE "fast"

DesiredCadence(p, n, h, r, known, f, sel) ==
  IF p = "denied" THEN "none"
  ELSE IF p \in {"waiting", "requesting"} \/ TimerShouldContinue(r, known, f) \/ sel # "none"
       THEN FastCadence(p, h, r)
  ELSE IF n \/ r.status = "pending" THEN "slow" ELSE "none"

\* What a pass over `project' asks for. The timer is armed before the pass
\* settles, when a status that has just moved is not yet known.
Known == settled /\ row'.status = row.status
Desire(known) == DesiredCadence(perm', named', hidden', row', known, flash', picked')

-----------------------------------------------------------------------------
\* Painting.
Key == [row |-> row, lit |-> flash > 0, picked |-> picked]
DrawnKey == [row |-> drawn.row, lit |-> drawn.lit, picked |-> drawn.picked]
Picture == [face |-> IF perm = "granted" THEN "rail" ELSE "prompt", row |-> row, lit |-> flash > 0, picked |-> picked]

\* The gates of project: identical rows, and a hidden rail.
PassesGates(forced) ==
  /\ forced \/ drawn.face = "none" \/ DrawnKey # Key'
  /\ ~hidden'

Shows(paint) ==
  /\ drawn' = IF paint THEN Picture' ELSE drawn
  /\ bare' = (bare /\ ~paint /\ ~hidden')

\* project, for everything but a timer fire.
Project(render, forced) == Shows(render /\ PassesGates(forced)) /\ Pass(Desire(Known))

-----------------------------------------------------------------------------
\* Events.  Before the grant Zellij delivers none but the timer and the answer.
Granted == perm = "granted"

\* load and begin_permission_flow
RailInit ==
  /\ perm \in {"waiting", "requesting", "granted", "denied"}
  /\ named = FALSE /\ hidden = FALSE
  /\ row \in {Row("idle", "a"), Row("running", "a"), Row("pending", "a")} /\ settled = TRUE
  /\ flash = 0 /\ picked = "none"
  /\ drawn = Nothing /\ bare = FALSE
  /\ want = DesiredCadence(perm, named, hidden, row, settled, flash, picked)
  /\ armed = want
  /\ flights = IF want = "none" THEN {} ELSE {[cadence |-> want, left |-> Length(want)]}
  /\ pending = Cardinality(flights)
  /\ subtick = 0 /\ since = Second /\ ticked = FALSE

\* A marker is found, or the peer's lock lapsed and this rail asks itself.
CheckPermission == perm' \in IF perm = "waiting" THEN {"waiting", "requesting", "granted", "denied"} ELSE {perm}

\* permission_result: painted whatever the gates say.
PermissionResult(granted) ==
  /\ perm = "requesting"
  /\ perm' = IF granted THEN "granted" ELSE "denied"
  /\ UNCHANGED <<named, hidden, row, settled, flash, picked>>
  /\ Shows(TRUE) /\ ticked' = FALSE
  /\ UNCHANGED <<armed, pending, flights, subtick, since, want>>

\* Mutant: a tool's label waits for the next tick, in a row that needs none.
AnyLabelOnly(from, to) == from.status = to.status /\ from.status \in {"running", "service"}

\* status_pipe: the steady stream of labels of a running row is left to the tick.
LabelOnly(from, to) == from.status = to.status /\ Spins(to)

StatusPipe(to) ==
  /\ Granted
  /\ row' = to
  /\ flash' = IF to.status = "pending" /\ row.status # "pending" THEN FlashTicks ELSE flash
  /\ settled' \in {Known} \cup IF settled THEN {} ELSE {TRUE}      \* back to the status told of last
  /\ UNCHANGED <<perm, named, hidden, picked>>
  /\ Shows(row # to /\ ~LabelOnly(row, to) /\ PassesGates(FALSE)) /\ Pass(Desire(settled'))

\* panes_changed: a manifest, which may carry the exit of a command; settles.
PanesChanged(exits) ==
  /\ Granted
  /\ exits => row.status \in {"running", "service"}
  /\ hidden' = FALSE
  /\ row' = IF exits THEN Row("done", "a") ELSE row
  /\ settled' = TRUE
  /\ UNCHANGED <<perm, named, flash, picked>>
  /\ Project(TRUE, FALSE)

\* tabs_changed: Zellij sends it far more often than tabs change.
TabsChanged ==
  /\ Granted
  /\ hidden' = FALSE
  /\ bare' = (bare \/ hidden)
  /\ UNCHANGED <<perm, named, row, settled, flash, picked, drawn>>
  /\ Pass(Desire(Known))

\* Mutant: a reveal asks for no repaint.
RevealUnpainted(visible) ==
  /\ hidden' = ~visible
  /\ IF hidden /\ visible THEN Project(FALSE, FALSE)
     ELSE Shows(FALSE) /\ ticked' = FALSE /\ UNCHANGED <<armed, pending, flights, subtick, since, want>>

Reveal(visible) ==
  /\ hidden' = ~visible
  /\ IF hidden /\ visible THEN Project(TRUE, TRUE)
     ELSE Shows(FALSE) /\ ticked' = FALSE /\ UNCHANGED <<armed, pending, flights, subtick, since, want>>

VisibilityChanged(visible) ==
  /\ Granted
  /\ UNCHANGED <<perm, named, row, settled, flash, picked>>
  /\ Reveal(visible)

\* learn_session_name
LearnSessionName ==
  /\ Granted /\ ~named
  /\ named' = TRUE
  /\ UNCHANGED <<perm, hidden, row, settled, flash, picked>>
  /\ Project(FALSE, FALSE)

\* config_pipe, and a resize: drawn again as it is.
ConfigPipe ==
  /\ Granted
  /\ UNCHANGED domain
  /\ Project(TRUE, TRUE)

\* control: a tap moves the selection, and arms the timer at once.
Control ==
  /\ Granted /\ ~hidden /\ named
  /\ picked' = "peer"
  /\ UNCHANGED <<perm, named, hidden, row, settled, flash>>
  /\ Shows(TRUE) /\ Pass(Desire(Known))

-----------------------------------------------------------------------------
\* Timer fires.

\* RadarState::timer: a command confirmed done, a done receded, a running row
\* whose agent was killed expired.
Matured(r) ==
  {r} \cup IF r.status = "running" THEN {Row("done", "a"), Row("idle", "a")}
           ELSE IF r.status = "done" THEN {Row("idle", "a")} ELSE {}

\* Sessions::tick: the first fire after no tap commits or cancels (PeerSessions
\* has the taps).
TickSelection == picked' \in {picked, "none"}

TimerPaints(f) ==
  \/ perm' # perm \/ perm' = "requesting"
  \/ row' # row
  \/ TimerShouldContinue(row', Known, flash')
  \/ f.cadence = "slow"

FullFire(f) ==
  /\ FullTick(f)
  /\ UNCHANGED <<named, hidden>>
  /\ CheckPermission
  /\ flash' = IF flash > 0 THEN flash - 1 ELSE 0
  /\ row' \in Matured(row)
  /\ TickSelection
  /\ settled' = TRUE
  /\ Shows(TimerPaints(f) /\ PassesGates(TRUE))
  /\ Live(f, Desire(Known))

\* frame_fire
FrameFire(f) ==
  /\ ~FullTick(f)
  /\ UNCHANGED domain
  /\ Shows(~hidden)
  /\ Live(f, Desire(Known))

StaleFire(f) == UNCHANGED domain /\ Swallow(f) /\ Shows(FALSE)

RailFire == \E f \in flights : StaleFire(f) \/ FullFire(f) \/ FrameFire(f)

RailElapse == Elapse /\ UNCHANGED <<domain, drawn, bare>>

RailEvent ==
  \/ \E granted \in BOOLEAN : PermissionResult(granted)
  \/ \E to \in StatusRows : StatusPipe(to)
  \/ \E exits \in BOOLEAN : PanesChanged(exits)
  \/ TabsChanged
  \/ \E visible \in BOOLEAN : VisibilityChanged(visible)
  \/ LearnSessionName \/ ConfigPipe \/ Control

RailNext == RailFire \/ RailElapse \/ RailEvent
RailSpec == RailInit /\ [][RailNext]_railVars

-----------------------------------------------------------------------------
OnScreen == Granted /\ ~hidden

\* Zellij delivers each broadcast to every rail and most change nothing, so a
\* repaint is dropped where the picture would be the same, and all of them while
\* the rail is hidden. Whatever the gates drop, a rail on screen shows its row
\* as it is, but for the label of an animating row (StaleIsFollowedUp), and for a
\* rail that an unchanged TabUpdate called visible.
StatusesAreDrawn ==
  OnScreen /\ ~bare /\ drawn.face = "rail" =>
    /\ drawn.row.status = row.status
    /\ flash > 0 => drawn.lit
    /\ picked # "none" => drawn.picked = picked

\* A label that was not painted when it came rides the next tick: one is in
\* flight within the second (status_pipe's `label_only').
StaleIsFollowedUp ==
  OnScreen /\ ~bare /\ drawn.face = "rail" /\ drawn.row # row =>
    \E f \in flights : f.cadence # "slow" /\ f.left <= Second

\* Whatever waits for a tick has one coming within the second, hidden or not: a
\* prompt to repaint, a spinner, a done to recede, a status to tell of, a flash
\* to end, a selection to commit. `want' says what the last pass saw; this is
\* about the state after every handler, those that arm no timer included.
NeedIsTimed ==
  \/ perm \in {"waiting", "requesting"}
  \/ Granted /\ (row.status \in {"running", "done"} \/ ~settled \/ flash > 0 \/ picked # "none")
  => \E f \in flights : f.cadence # "slow" /\ f.left <= Second

\* "Two ticks (approximately two seconds at the Fast cadence)": the flash is off the screen
\* once its ticks are over.
FlashEndsOnScreen == OnScreen /\ drawn.lit => flash > 0
=============================================================================
