------------------------------ MODULE RailWidths ------------------------------
(***************************************************************************)
(* How many columns each line of the rail takes (the emitters of           *)
(* crates/plugin/src/render.rs).  A piece of text is the number of columns *)
(* it takes; what is left of one after a cut is any of several numbers,    *)
(* for a character is one column or two.  An emitter is the set of widths  *)
(* its line can come to in a rail `width' columns wide.                    *)
(***************************************************************************)
EXTENDS Integers

Less(a, b) == IF a > b THEN a - b ELSE 0        \* saturating_sub

\* truncate: whole where it fits, else what fits before the ellipsis.
Truncated(text, columns) ==
  IF text <= columns THEN {text} ELSE IF columns = 0 THEN {0} ELSE 1..columns

\* prefixed_line: below the prefix the line is one plain run, clamped.
Prefixed(width, prefix, plain, tails) ==
  IF width < prefix THEN Truncated(plain, width) ELSE {prefix + tail : tail \in tails}

-----------------------------------------------------------------------------
\* HotspotSlot: a separator and a glyph, admitted from a minimum width.
SlotColumns == 2
Admitted(width, minimum, wanted) == wanted /\ width >= minimum

\* Mutant: the line is laid out over the columns the glyph will take.
UnreservedWidth(width, minimum, wanted) == width

ContentWidth(width, minimum, wanted) ==
  IF Admitted(width, minimum, wanted) THEN Less(width, SlotColumns) ELSE width

\* finish: the glyph goes in the last column of the text that was laid out, and
\* is left out where it would not fit.
WithGlyph(width, minimum, wanted, lines) ==
  {IF Admitted(width, minimum, wanted) /\ used + 1 <= width THEN width ELSE used : used \in lines}

-----------------------------------------------------------------------------
\* tab_header_line: spine, glyph and a space; number; name; markers.  The
\* markers are `remote' columns for a live connection and one for a bell.
TabHeaderMin == 6
TabHeaderText(width, number, name, remote, bell, hot) ==
  LET content == ContentWidth(width, TabHeaderMin, hot)
      glyphs  == remote + bell
      After(num) == 3 + num + IF 3 + num < content THEN 1 ELSE 0
      Marker(num) == IF glyphs > 0 /\ After(num) + glyphs + 1 <= content THEN glyphs + 1 ELSE 0
      Used(num, nm) == After(num) + nm + Marker(num)
  IN  UNION {{Used(num, nm) + Less(content, Used(num, nm)) :
                nm \in Truncated(name, Less(content, After(num) + Marker(num)))} :
             num \in Truncated(number, Less(content, 3))}

\* compose_activity: a command and how it failed (`full' columns, or the one
\* of the bare mark; 0 for no tag).
Activity(columns, command, full) ==
  IF full = 0 THEN Truncated(command, columns)
  ELSE IF command = 0 THEN IF full <= columns THEN {full} ELSE Truncated(1, columns)
  ELSE IF full + 2 <= columns THEN {cmd + 1 + full : cmd \in Truncated(command, columns - full - 1)}
  ELSE IF 3 <= columns THEN {cmd + 2 : cmd \in Truncated(command, columns - 2)}
  ELSE Truncated(1, columns)

\* emit_pane_line: tree, glyph, mark, activity, and the tasks' count.
PaneLineMin == 8
PaneText(width, glyph, mark, identity, full, tag, hot) ==
  LET content == ContentWidth(width, PaneLineMin, hot)
      prefix  == 3 + glyph + 1 + mark + 1
      columns == content - prefix
      counted == IF tag > 0 /\ tag + 1 < columns THEN tag + 1 ELSE 0
  IN  Prefixed(content, prefix, prefix + identity,
               {activity + counted : activity \in Activity(columns - counted, identity, full)})

DetailLine(width, question) == Prefixed(width, 7, 7 + question, Truncated(question, width - 7))

\* emit_task_line: no line is drawn in a rail narrower than its minimum.
TaskLinesMin == 20
TaskLine(width, glyph, label, age) ==
  LET columns == width - 5
      fixed   == glyph + 1
      tag     == IF fixed + age < columns THEN age ELSE 0
  IN  Prefixed(width, 5, 5 + fixed + label + age,
               {fixed + text + tag : text \in Truncated(label, Less(columns, fixed + tag))})

\* `+N more' under the tasks that are shown, and under the panes that are: the
\* latter's tree prefix is drawn at any width.
MoreTasksLine(width, more) == Prefixed(width, 5, 5 + more, Truncated(more, width - 5))
MorePanesLine(width, more) == {3 + text : text \in Truncated(more, Less(width, 3))}

-----------------------------------------------------------------------------
\* render_session_badge and render_peer_children.
BadgeLineMin == 4
BadgeText(width, label, hot) ==
  LET content == ContentWidth(width, BadgeLineMin, hot)
  IN  Prefixed(content, 2, 2 + label, Truncated(label, content - 2))

PeerTabLine(width, label)  == Prefixed(width, 4, 4 + label, Truncated(label, width - 4))
PeerPaneLine(width, label) == Prefixed(width, 6, 6 + label, Truncated(label, width - 6))

\* render_header: the title gives way to the slot on the right, which is the
\* census and the needs-you badge, or one of them (`badge' 0: nobody waits).
Title(width, census, badge, overflow) ==
  LET title == 6
      slot  == IF badge > 0 /\ census + 1 + badge <= Less(width, title) THEN census + 1 + badge
               ELSE IF badge > 0 /\ ~overflow THEN badge
               ELSE census
      right == IF slot < width THEN slot ELSE width
      gap   == Less(width, title + right)
  IN  {text + gap + shown : text \in Truncated(title, Less(width, right + gap)),
                            shown \in IF slot > width THEN Truncated(slot, right) ELSE {slot}}

\* header_rule: while something works, a mark travels along the rule.
HeaderRule(width) == {width} \cup {spot + 1 + Less(width, spot + 1) : spot \in 0..(width - 1)}

\* ledger_rule: its own word, then rule up to the width.
LedgerRule(width) ==
  LET word == 10
  IN  IF width <= word THEN Truncated(word, width) ELSE {word + (width - word)}

\* render_strip; and a line of the panels for no tabs and for no permission.
StripLine(width, text) == Truncated(text, width)
PanelLine(width, text) == Truncated(text, width)

\* footer_tally: the mode's label is drawn whole after the tally, or not at all.
Tally(width, tally, mode) ==
  {IF mode > 0 /\ text + 1 + mode <= width THEN width ELSE text : text \in Truncated(tally, width)}

\* ledger_entry_line: age and glyph, the tab's name, then its label.
LedgerNameColumns == 12
LedgerLine(width, age, name, label) ==
  LET prefix  == age + 3
      columns == width - prefix
      Left(nm) == Less(columns, nm + 1)
      Label(nm) == IF Left(nm) > 0 /\ label > 0 THEN {1 + text : text \in Truncated(label, Left(nm))} ELSE {0}
  IN  Prefixed(width, prefix, prefix + name + 1 + label,
               UNION {{nm + text : text \in Label(nm)} :
                      nm \in Truncated(name, IF LedgerNameColumns < columns THEN LedgerNameColumns ELSE columns)})

-----------------------------------------------------------------------------
\* The lines that carry a glyph, as [least, texts], and the others, of texts of
\* these sizes.
HotLines(width, a, b, c, hot) ==
  {[least |-> TabHeaderMin, texts |-> TabHeaderText(width, a, b, c, 0, hot)],
   [least |-> TabHeaderMin, texts |-> TabHeaderText(width, a, b, c, 1, hot)],
   [least |-> PaneLineMin,  texts |-> PaneText(width, 1, 1, a, b, c, hot)],
   [least |-> BadgeLineMin, texts |-> BadgeText(width, a, hot)]}

PlainLines(width, a, b, c, overflow) ==
  UNION {DetailLine(width, a), MorePanesLine(width, a),
         IF width >= TaskLinesMin THEN TaskLine(width, 1, a, b) \cup MoreTasksLine(width, a) ELSE {},
         PeerTabLine(width, a), PeerPaneLine(width, b), Title(width, a, b, overflow),
         HeaderRule(width), LedgerRule(width), StripLine(width, a), PanelLine(width, b),
         Tally(width, a, b), LedgerLine(width, a, b, c)}

\* Property (prefixed_line: "no emitted line exceeds `width`"; HotspotSlot: a
\* call site cannot attach a glyph without reserving its columns).  In a rail of
\* three columns or more no line is wider than the rail, whatever the texts, and
\* a line that carries a glyph leaves the glyph and its separator their columns.
LinesFit(width, a, b, c, flag) ==
  /\ \A line \in HotLines(width, a, b, c, flag) : \A text \in line.texts :
       Admitted(width, line.least, flag) => text + SlotColumns <= width
  /\ \A line \in HotLines(width, a, b, c, flag) :
       \A drawn \in WithGlyph(width, line.least, flag, line.texts) : drawn <= width
  /\ \A line \in PlainLines(width, a, b, c, flag) : line <= width

-----------------------------------------------------------------------------
\* A rail is resized, and its texts and glyphs come and go.
VARIABLE laid

Layouts == [width : {width \in Nat : width >= 3}, a : Nat, b : Nat, c : Nat, hot : BOOLEAN]
WidthsSpec == laid \in Layouts /\ [][laid' \in Layouts]_laid

\* At any moment, every line fits.
LinesFitNow == LinesFit(laid.width, laid.a, laid.b, laid.c, laid.hot)
===============================================================================
