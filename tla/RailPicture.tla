----------------------------- MODULE RailPicture -----------------------------
(***************************************************************************)
(* The lines `render_rail' draws (crates/plugin/src/render.rs): header,    *)
(* sessions, one card per tab, the idle strip, peers' trees, and the       *)
(* ledger and footer at the floor, in a rail of a given height.            *)
(*                                                                         *)
(* A line is [kind, target, hotspot, red]: what it is, the tab, pane or    *)
(* session a click on it goes to, the glyph action it carries, and whether *)
(* it reports a failed task.  Text, colour and columns are left out        *)
(* (RailWidths has the columns).                                           *)
(*                                                                         *)
(* `opts' is RenderOpts: width, height, density, header, jumpHint,         *)
(* taskLines ("full", "count", "off"), sessionTree, and badge, the         *)
(* sessions as [name, current, stale, attention, tabs], each tab           *)
(* [position, panes] with the number of its agents.                        *)
(***************************************************************************)
EXTENDS RailLayout, RailRows

MaxPaneLines     == 6      \* MAX_PANE_LINES
MaxTaskLines     == 3      \* MAX_TASK_LINES
TaskLinesMinWidth == 20    \* TASK_LINES_MIN_WIDTH
TabHeaderHotspotMin == 6   \* TAB_HEADER_HOTSPOT_MIN
PaneLineHotspotMin  == 8   \* PANE_LINE_HOTSPOT_MIN
BadgeLineHotspotMin == 4   \* BADGE_LINE_HOTSPOT_MIN
LedgerDisplayCap == 10     \* LEDGER_DISPLAY_CAP

-----------------------------------------------------------------------------
\* Lines and click targets.
Here == "here"             \* RailTarget.session: None
NoTarget == [session |-> "nowhere", tab |-> 0, pane |-> 0]

TabTarget(tab)       == [session |-> Here, tab |-> tab, pane |-> 0]
PaneTarget(tab, id)  == [session |-> Here, tab |-> tab, pane |-> id]
SessionTarget(entry, tab) == [session |-> entry.name, tab |-> tab, pane |-> 0]   \* 0: NO_ATTENTION

Line(kind, target) == [kind |-> kind, target |-> target, hotspot |-> "none", red |-> FALSE]
Inert(kind)        == Line(kind, NoTarget)

\* HotspotSlot: an action is admitted from a minimum width.
WithHotspot(line, wanted, action, width, minimum) ==
  IF wanted /\ width >= minimum THEN [line EXCEPT !.hotspot = action] ELSE line

Repeat(line, n) == [i \in 1..n |-> line]

-----------------------------------------------------------------------------
\* Background tasks under a pane.
TaskRank(task) ==
  IF task.state = "running" THEN IF task.holds THEN 0 ELSE 2
  ELSE IF task.state = "failed" THEN 1 ELSE 3

\* Within a rank the oldest running task and the latest ended one come first.
TaskBefore(tasks, i, j) ==
  LET a == tasks[i]
      b == tasks[j]
      age == IF a.state = "running" THEN a.at - b.at ELSE b.at - a.at
      key == <<TaskRank(a) - TaskRank(b), age, i - j>>
  IN  \E n \in DOMAIN key : key[n] < 0 /\ \A m \in 1..(n - 1) : key[m] = 0

OrderedTasks(tasks) ==
  LET order == SortSeq([i \in DOMAIN tasks |-> i], LAMBDA i, j : TaskBefore(tasks, i, j))
  IN  [n \in DOMAIN order |-> tasks[order[n]]]

Failed(tasks) == {i \in DOMAIN tasks : tasks[i].state = "failed"}
FirstFailed(tasks) == CHOOSE i \in Failed(tasks) : \A j \in Failed(tasks) : i <= j

\* Mutant: a fold takes whatever comes last.
NothingMoved(ordered, show) == ordered

\* A fold keeps the first failure on a line: the last shown task gives its slot.
FailureMovedUp(ordered, show) ==
  IF Failed(ordered) = {} \/ FirstFailed(ordered) <= show THEN ordered
  ELSE LET at == FirstFailed(ordered)
       IN  InsertAt(RemoveAt(ordered, at), show, ordered[at])

\* emit_task_lines
TaskLines(tasks, target) ==
  LET show == IF Len(tasks) > MaxTaskLines THEN MaxTaskLines - 1 ELSE Len(tasks)
      ordered == FailureMovedUp(OrderedTasks(tasks), show)
      Drawn(n) == [Line("task", target) EXCEPT !.red = n \in Failed(ordered)]
      more == [Line("more tasks", target) EXCEPT !.red = \E n \in Failed(ordered) : n > show]
  IN  [n \in 1..show |-> Drawn(n)] \o IF Len(tasks) > show THEN <<more>> ELSE <<>>

\* compact_tasks_tag: the tag counts running and failed work, and is red when a
\* task failed.
TagIsRed(tasks) == Failed(tasks) # {}

-----------------------------------------------------------------------------
\* A card: its tab's header line and its panes' lines (render_row_form).
ActingAs(opts, compact) == compact \/ opts.width < TaskLinesMinWidth \/ opts.taskLines = "count"
VisibleTasks(pane, opts) == IF opts.taskLines = "off" THEN <<>> ELSE ShownTasks(pane)

Identity(pane) == IF ShownTask(pane) = NoText THEN ShownMsg(pane) ELSE ShownTask(pane)

\* The question under the identity line: only where it says something new.
HasDetail(pane) ==
  /\ NeedsYou(ShownStatus(pane))
  /\ ShownTask(pane) # NoText
  /\ ShownMsg(pane) \notin {NoText, ShownTask(pane)}

\* A tab's only pane earns no line when it is at rest or says nothing.
IsSilent(pane, opts) ==
  \/ Tracked(pane) /\ pane.obs.status = "idle"
  \/ Identity(pane) = NoText /\ ~(Tracked(pane) /\ FailureTag(pane.obs)) /\ VisibleTasks(pane, opts) = <<>>

PaneLines(row, pane, opts, compact) ==
  LET target == PaneTarget(row.tab, pane.id)
      tasks  == VisibleTasks(pane, opts)
      identity == [WithHotspot(Line("pane", target), UnacknowledgedPending(pane), "acknowledge",
                               opts.width, PaneLineHotspotMin)
                     EXCEPT !.red = compact /\ TagIsRed(tasks)]
  IN  <<identity>>
      \o (IF HasDetail(pane) THEN <<Line("detail", target)>> ELSE <<>>)
      \o (IF compact THEN <<>> ELSE TaskLines(tasks, target))

RowPanes(row) == SelectSeq(row.panes, EarnsPaneLine)
IsMultiPane(row) == Len(RowPanes(row)) > 1

\* The panes of a card that get lines.
DrawnPanes(row, opts) ==
  LET panes == RowPanes(row)
  IN  IF IsMultiPane(row) THEN SubSeq(panes, 1, LesserOf(Len(panes), MaxPaneLines))
      ELSE SelectSeq(panes, LAMBDA pane : ~IsSilent(pane, opts))

CardLines(row, opts, asCompact) ==
  LET compact == ActingAs(opts, asCompact)
      drawn   == DrawnPanes(row, opts)
      header  == WithHotspot(Line("tab", TabTarget(row.tab)),
                             \E i \in DOMAIN row.panes : UnacknowledgedPending(row.panes[i]),
                             "acknowledge", opts.width, TabHeaderHotspotMin)
      folded  == IsMultiPane(row) /\ Len(RowPanes(row)) > MaxPaneLines
  IN  <<header>>
      \o FlattenSeq([i \in DOMAIN drawn |-> PaneLines(row, drawn[i], opts, compact)])
      \o IF folded THEN <<Line("more panes", TabTarget(row.tab))>> ELSE <<>>

IsTaskLine(line) == line.kind \in {"task", "more tasks"}

\* What the planner is told of a card.
RowMeta(row, opts) ==
  LET block == CardLines(row, opts, FALSE)
  IN  [status |-> row.status, full |-> Len(block),
       compact |-> Len(block) - Len(SelectSeq(block, IsTaskLine))]

-----------------------------------------------------------------------------
\* The other sections.
HasContent(rows, ledger, opts) ==
  rows # <<>> \/ ledger # <<>> \/ (opts.sessionTree /\ Len(opts.badge) > 1)     \* shows_peer_tree

HeaderLines(rows, ledger, opts) ==
  IF ~opts.header \/ ~HasContent(rows, ledger, opts) THEN <<>>
  ELSE IF opts.density = "cards" THEN <<Inert("title")>>
  ELSE <<Inert("title"), Inert("rule")>>

\* render_session_badge: a heading per session once there is more than one.
Heading(entry, opts) ==
  WithHotspot(Line("session", IF entry.current THEN NoTarget ELSE SessionTarget(entry, entry.attention)),
              entry.stale /\ ~entry.current, "dismiss", opts.width, BadgeLineHotspotMin)

BadgeOf(opts) == IF Len(opts.badge) <= 1 THEN <<>> ELSE opts.badge

HeadsTheCards(entry, opts) == entry.current \/ ~opts.sessionTree
AboveCards(opts) == SelectSeq(BadgeOf(opts), LAMBDA entry : HeadsTheCards(entry, opts))
BelowCards(opts) == SelectSeq(BadgeOf(opts), LAMBDA entry : ~HeadsTheCards(entry, opts))
Spacer(opts) == IF BadgeOf(opts) = <<>> THEN <<>> ELSE <<Inert("spacer")>>

Headings(entries, opts) == [i \in DOMAIN entries |-> Heading(entries[i], opts)]

\* render_peer_children: a peer's tabs, each followed by its agents.
PeerTree(entry) ==
  FlattenSeq([t \in DOMAIN entry.tabs |->
    Repeat(Line("peer", SessionTarget(entry, entry.tabs[t].position)), 1 + entry.tabs[t].panes)])

\* Each peer's heading and as much of its tree as the peers before it left.
PeerLines(entries, opts, room) ==
  FoldLeft(LAMBDA drawn, entry :
             LET children == Len(drawn) - Len(SelectSeq(drawn, LAMBDA line : line.kind = "session"))
                 tree == PeerTree(entry)
             IN  drawn \o <<Heading(entry, opts)>>
                       \o SubSeq(tree, 1, LesserOf(Len(tree), room - children)),
           <<>>, entries)

Footer(opts) == <<Inert("rule"), Inert("tally")>> \o IF opts.jumpHint THEN <<Inert("hint")>> ELSE <<>>

\* Mutant: the rule above the ledger is forgotten.
ReserveNoRule(ledger, opts) ==
  LET entries == LesserOf(Len(ledger), LedgerDisplayCap)
  IN  Len(Footer(opts)) + IF entries > 0 THEN 1 + entries ELSE 0

\* bottom_reserve: the height the region below needs to show all it has.
BottomReserve(ledger, opts) ==
  LET entries == LesserOf(Len(ledger), LedgerDisplayCap)
  IN  Len(Footer(opts)) + IF entries > 0 THEN 2 + entries ELSE 0

GreaterOf(a, b) == IF a > b THEN a ELSE b

\* render_bottom
BottomLines(ledger, leftover, opts) ==
  LET footer  == Footer(opts)
      entries == GreaterOf(0, LesserOf(LesserOf(Len(ledger), leftover - Len(footer) - 2), LedgerDisplayCap))
      Entry(i) == Line("ledger", IF ledger[i] = 0 THEN NoTarget ELSE TabTarget(ledger[i]))
  IN  IF leftover <= 1 THEN <<>>
      ELSE IF leftover <= Len(footer) THEN SubSeq(footer, 1, leftover)
      ELSE IF entries = 0 THEN Repeat(Inert("filler"), leftover - Len(footer)) \o footer
      ELSE Repeat(Inert("filler"), leftover - Len(footer) - 2 - entries)
           \o <<Inert("earlier")>> \o [i \in 1..entries |-> Entry(i)] \o <<Inert("filler")>> \o footer

-----------------------------------------------------------------------------
\* The body (render_body) and the rail (render_rail).
BodyRoom(rows, ledger, opts) ==
  GreaterOf(0, opts.height - Len(HeaderLines(rows, ledger, opts)) - Len(BadgeOf(opts)) - Len(Spacer(opts)))

Metas(rows, opts) == [i \in DOMAIN rows |-> RowMeta(rows[i], opts)]
LayoutOf(rows, metas, ledger, opts) == PlanLayout(metas, BodyRoom(rows, ledger, opts), opts.density)

\* A card planned below its whole height sheds its task lines first.
Block(row, meta, planned, opts) ==
  IF planned < meta.full /\ meta.compact < meta.full THEN CardLines(row, opts, TRUE)
  ELSE CardLines(row, opts, FALSE)

Card(rows, metas, card, opts) ==
  LET block == Block(rows[card.row], metas[card.row], card.lines, opts)
  IN  SubSeq(block, 1, LesserOf(Len(block), card.lines))

\* The cards with their gaps, and the strip.
LocalLines(rows, metas, layout, opts) ==
  FlattenSeq([n \in DOMAIN layout.plan |->
                Card(rows, metas, layout.plan[n], opts) \o Repeat(Inert("gap"), layout.gap)])
  \o IF layout.strip > 0 THEN <<Inert("strip")>> ELSE <<>>

\* `metas' and `layout' are Metas and LayoutOf of the same rows.
Body(rows, metas, layout, ledger, opts) ==
  LET planned == Height(layout.plan) + layout.gap * Len(layout.plan) + IF layout.strip > 0 THEN 1 ELSE 0
      childRoom == GreaterOf(0, BodyRoom(rows, ledger, opts) - planned - BottomReserve(ledger, opts))
      spacer == Spacer(opts)
  IN  HeaderLines(rows, ledger, opts)
      \o Headings(AboveCards(opts), opts) \o (IF opts.sessionTree THEN <<>> ELSE spacer)
      \o LocalLines(rows, metas, layout, opts)
      \o PeerLines(BelowCards(opts), opts, childRoom) \o (IF opts.sessionTree THEN spacer ELSE <<>>)

\* The body with the region below it.
Filled(body, ledger, opts) == body \o BottomLines(ledger, GreaterOf(0, opts.height - Len(body)), opts)

\* Mutant: what does not fit is drawn below the pane.
UncutAt(lines, height) == lines

CutAt(lines, height) == SubSeq(lines, 1, LesserOf(Len(lines), height))

\* A rail's pictures, of which there is one; nothing where it has no content.
Rails(rows, ledger, opts) ==
  UNION {UNION {
    {[metas |-> metas, layout |-> layout,
      lines |-> IF HasContent(rows, ledger, opts) THEN CutAt(Filled(body, ledger, opts), opts.height) ELSE <<>>] :
        body \in {Body(rows, metas, layout, ledger, opts)}} :
      layout \in {LayoutOf(rows, metas, ledger, opts)}} :
    metas \in {Metas(rows, opts)}}

-----------------------------------------------------------------------------
\* A click on a line of the last picture, on its glyph or beside it (mouse_click),
\* and a right click (mouse_right_click), answered by the tabs and the sessions of
\* now: `rows' by position, `gone' the panes the stores still hold of no tab.
PanesOfTab(rows, tab) == UNION {Range(rows[i].panes) : i \in {i \in DOMAIN rows : rows[i].tab = tab}}
AllPanes(rows, gone)  == gone \cup UNION {Range(rows[i].panes) : i \in DOMAIN rows}
AwaitsAnswer(pane)    == Observed(pane) /\ pane.obs.origin = "status" /\ pane.obs.status = "pending"

\* Mutant: the pane of a line is looked for in the tab it was drawn in.
AcknowledgeInTab(rows, gone, target) ==
  {pane \in PanesOfTab(rows, target.tab) : target.pane \in {0, pane.id} /\ AwaitsAnswer(pane)}

\* acknowledge_pending_targets: the pane of the line, wherever it is by now, or
\* every pane of the tab that is at the line's position, of those that wait.
Acknowledge(rows, gone, target) ==
  LET panes == IF target.pane = 0 THEN PanesOfTab(rows, target.tab)
               ELSE {pane \in AllPanes(rows, gone) : pane.id = target.pane}
  IN  {pane \in panes : AwaitsAnswer(pane)}

\* Mutant: what was drawn stale is taken for stale.
DismissAnyway(entries, target) == {entry \in Range(entries) : entry.name = target.session}

\* dismiss_stale_session
Dismiss(entries, target) == {entry \in Range(entries) : entry.name = target.session /\ entry.stale}

Click(line, onGlyph, rows, gone, entries) ==
  CASE onGlyph /\ line.hotspot = "dismiss"     -> [verb |-> "dismiss", on |-> Dismiss(entries, line.target)]
    [] onGlyph /\ line.hotspot = "acknowledge" -> [verb |-> "acknowledge", on |-> Acknowledge(rows, gone, line.target)]
    [] line.target = NoTarget                  -> [verb |-> "none", on |-> {}]
    [] line.target.session # Here              -> [verb |-> "switch session", on |-> {line.target.session}]
    [] line.target.pane # 0                    -> [verb |-> "show pane", on |-> {line.target.pane}]
    [] OTHER                                   -> [verb |-> "switch tab", on |-> {line.target.tab}]

RightClick(line, rows, gone, entries) ==
  CASE line.target = NoTarget       -> [verb |-> "none", on |-> {}]
    [] line.target.session # Here -> [verb |-> "dismiss", on |-> Dismiss(entries, line.target)]
    [] OTHER                        -> [verb |-> "acknowledge", on |-> Acknowledge(rows, gone, line.target)]
=============================================================================
