------------------------------- MODULE PushWire -------------------------------
(***************************************************************************)
(* What a producer's report goes through on its way to the rail            *)
(* (crates/core/src/payload.rs, presence.rs): the sanitizer of every text, *)
(* to_wire, which caps what is sent, and parse, which caps and sanitizes   *)
(* what is received.  A text is a sequence of classes of characters; in a  *)
(* payload it is only its number of characters.                            *)
(***************************************************************************)
EXTENDS Naturals, SequencesExt

-----------------------------------------------------------------------------
\* Classes of characters: a letter, a digit or space, three that escapes turn
\* on, any beyond ASCII; then those that are never shown.
Visible   == {"letter", "digit", "[", "]", "\\", "beyond"}
Breaks    == {"newline"}                               \* and tab, and return
Invisible == {"ESC", "BEL", "control", "DEL", "C1", "bidi"}
Characters == Visible \cup Breaks \cup Invisible

BelowSpace == {"newline", "ESC", "BEL", "control"}     \* 0x00-0x1F
Ascii == Characters \ {"beyond", "C1", "bidi"}
FinalByte == {"letter", "[", "]", "\\"}                \* 0x40-0x7E

Kept(c) == c \in Visible

\* One character of the walk, after those that led to `in': in the text, after
\* an ESC, in a CSI, in an OSC, or in an OSC after an ESC that may end it.
InText(out, c) ==
  CASE c = "ESC"   -> [in |-> "escape", out |-> out]
    [] c \in Breaks -> [in |-> "text", out |-> Append(out, "digit")]
    [] Kept(c)     -> [in |-> "text", out |-> Append(out, c)]
    [] OTHER       -> [in |-> "text", out |-> out]

Escape(out, c) == [in |-> CASE c = "[" -> "csi" [] c = "]" -> "osc" [] OTHER -> "text", out |-> out]

\* Mutant: a CSI runs to the next final byte, whatever is between.
CsiGreedy(out, c) == [in |-> IF c \in FinalByte THEN "text" ELSE "csi", out |-> out]

\* What cannot be of the sequence ends it and is read again.
Csi(out, c) ==
  IF c \in Ascii \ BelowSpace THEN [in |-> IF c \in FinalByte THEN "text" ELSE "csi", out |-> out]
  ELSE InText(out, c)

Osc(out, c) ==
  CASE c = "BEL" -> [in |-> "text", out |-> out]
    [] c = "ESC" -> [in |-> "oscEscape", out |-> out]
    [] c \in BelowSpace \ {"BEL", "ESC"} -> InText(out, c)
    [] OTHER -> [in |-> "osc", out |-> out]

OscEscape(out, c) == IF c = "\\" THEN [in |-> "text", out |-> out] ELSE Escape(out, c)

Walk(at, c) ==
  CASE at.in = "text"       -> InText(at.out, c)
    [] at.in = "escape"     -> Escape(at.out, c)
    [] at.in = "csi"        -> Csi(at.out, c)
    [] at.in = "osc"        -> Osc(at.out, c)
    [] at.in = "oscEscape" -> OscEscape(at.out, c)

Unread == [in |-> "text", out |-> <<>>]
Scrubbed(text) ==
  LET walk[n \in 0 .. Len(text)] == IF n = 0 THEN Unread ELSE Walk(walk[n - 1], text[n])
  IN  walk[Len(text)]

LesserSize(a, b) == IF a < b THEN a ELSE b
FirstChars(text, max) == SubSeq(text, 1, LesserSize(Len(text), max))

\* sanitize: clean text is only cut; the rest is walked.
Sanitize(text, max) ==
  IF \A i \in DOMAIN text : Kept(text[i]) THEN FirstChars(text, max)
  ELSE FirstChars(Scrubbed(text).out, max)

-----------------------------------------------------------------------------
\* A payload: the sizes of its texts and of its batch of background tasks,
\* whose labels are that long; 0 tasks stand for a batch with none.
CONSTANTS
  TextFields,     \* WIRE_FREE_TEXT_FIELDS
  MaxWireField,   \* MAX_WIRE_FIELD_CHARS
  MaxShown,       \* MAX_MSG_CHARS and its like
  MaxTasks,       \* MAX_TASKS
  MaxTaskText,    \* MAX_TASK_ID_CHARS + MAX_TASK_LABEL_CHARS
  TaskOverhead,   \* WIRE_TASK_ITEM_OVERHEAD_BYTES
  EscapedBytes,   \* bytes a character may take in JSON: 6
  MaxPayload      \* MAX_PAYLOAD_BYTES
ASSUME WireAssumption ==
  /\ {TextFields, MaxWireField, MaxShown, MaxTasks, MaxTaskText, TaskOverhead, EscapedBytes, MaxPayload} \subseteq Nat
  /\ MaxShown <= MaxWireField
  /\ TextFields * MaxWireField * EscapedBytes
     + MaxTasks * (MaxTaskText * EscapedBytes + TaskOverhead) < MaxPayload \div 2

\* StatusPayload: the first `unread' tasks have no id once it is sanitized.
Payloads == {payload \in [text : Nat, label : Nat, tasks : Nat, unread : Nat, snapshot : BOOLEAN] :
               payload.unread <= payload.tasks}

\* Mutant: texts are sent whole.
ToWireUncut(payload) ==
  [payload EXCEPT !.tasks = LesserSize(@, MaxTasks), !.unread = LesserSize(@, MaxTasks),
                  !.snapshot = @ /\ payload.tasks <= MaxTasks, !.label = LesserSize(@, MaxTaskText)]

\* Mutant: a batch that is cut keeps its authority.
ToWireUnmarked(payload) ==
  [payload EXCEPT !.text = LesserSize(@, MaxWireField), !.tasks = LesserSize(@, MaxTasks),
                  !.unread = LesserSize(@, MaxTasks), !.label = LesserSize(@, MaxTaskText)]

ToWire(payload) ==
  [text |-> LesserSize(payload.text, MaxWireField), label |-> LesserSize(payload.label, MaxTaskText),
   tasks |-> LesserSize(payload.tasks, MaxTasks), unread |-> LesserSize(payload.unread, MaxTasks),
   snapshot |-> payload.snapshot /\ payload.tasks <= MaxTasks]

\* The bytes of what is sent, but for what is always there.
WireBytes(payload) ==
  TextFields * payload.text * EscapedBytes + payload.tasks * (payload.label * EscapedBytes + TaskOverhead)

\* parse_tasks: items that cannot be read are skipped, those past the cap cost
\* the batch its authority.
ParseTasks(payload) ==
  LET read == payload.tasks - payload.unread
  IN  [payload EXCEPT !.tasks = LesserSize(read, MaxTasks), !.unread = 0,
                      !.snapshot = @ /\ read <= MaxTasks, !.label = LesserSize(@, MaxTaskText)]

Dropped == [dropped |-> TRUE]
Parse(payload) ==
  IF WireBytes(payload) + MaxPayload \div 2 > MaxPayload THEN Dropped
  ELSE [ParseTasks(payload) EXCEPT !.text = LesserSize(@, MaxShown)]

-----------------------------------------------------------------------------
\* Presence: the panes a tab publishes, and what a peer reads of their labels.
CONSTANTS MaxPeerPanes, MaxPeerLabel     \* MAX_PANES_PER_TAB, MAX_LABEL_CHARS
ASSUME PeerAssumption == MaxPeerPanes \in Nat /\ MaxPeerLabel \in Nat \ {0}

\* The panes of one kind, in order; shells are left out.
OfKind(panes, kinds) ==
  LET found[n \in 0 .. Len(panes)] ==
        IF n = 0 THEN <<>>
        ELSE IF panes[n].tracked /\ panes[n].agent \in kinds THEN Append(found[n - 1], panes[n])
        ELSE found[n - 1]
  IN  found[Len(panes)]

\* Mutant: panes are cut as they stand.
PresencePanesInOrder(panes) == FirstChars(OfKind(panes, BOOLEAN), MaxPeerPanes)

\* presence_panes: agents first, then commands.
PresencePanes(panes) == FirstChars(OfKind(panes, {TRUE}) \o OfKind(panes, {FALSE}), MaxPeerPanes)

\* Presence::parse: what is past the caps is not read, and a file is refused
\* whole when a text of the rest is not as the sanitizer would leave it.
ReadPresence(name, labels) ==
  LET read == FirstChars(labels, MaxPeerPanes)
      Clean(words) == words = Sanitize(words, MaxPeerLabel)
  IN  IF name # <<>> /\ Clean(name) /\ \A i \in DOMAIN read : Clean(read[i])
      THEN [name |-> name, labels |-> read] ELSE Dropped
=============================================================================
