------------------------------- MODULE MCIntake -------------------------------
(* What reaches a rail, in four parts: the session it names a tab of ("naming"), *)
(* a text that is typed ("texts"), a report, or a presence file, on its way       *)
(* ("wire"), and the messages of the configuration ("config").                    *)
EXTENDS TabNaming, PushWire, RailConfig

CONSTANTS MaxText, MaxMessages
VARIABLES part, text, report, published
written == <<text, report, published>>

\* Reports at and around every cap; batches whose first items have no id left.
Near(cap) == {0, cap, cap + 1}
Reports ==
  {r \in [text : Near(MaxShown) \cup Near(MaxWireField) \cup {MaxPayload}, label : Near(MaxTaskText),
          tasks : 0..(MaxTasks + 2), unread : {0, 1}, snapshot : BOOLEAN] : r \in Payloads}
NoReport == [text |-> 0, label |-> 0, tasks |-> 0, unread |-> 0, snapshot |-> FALSE]

\* Tabs of agents and commands, with labels of every kind.
Labels == {<<"letter">>, <<"ESC", "letter", "beyond">>, <<"letter", "newline", "letter">>, <<"bidi">>, <<>>}
PaneKinds == [agent : BOOLEAN, tracked : BOOLEAN, label : Labels]

Words == [naming |-> {"force", "blink"}, task_lines |-> {"on", "count"}, spinner_fps |-> {"99", "fast"},
          glyphs |-> {"nerd", " Plain"}, interactive_commands |-> {"-vim, htop", ""}, notify |-> {" OFF", "0"}]
Layouts == {<< >>} \cup {("naming" :> "off") @@ (key :> word) : key \in {"notify", "glyphs"}, word \in {" OFF", "nerd"}}
Values(key) == {[type |-> "string", it |-> word] : word \in Words[key]}
               \cup {[type |-> "bool", it |-> TRUE], [type |-> "number", it |-> "4"], [type |-> "null", it |-> "null"]}
Messages ==
  UNION {{[size |-> size, isObject |-> size # 1, object |-> ("naming" :> mode) @@ ("unknown" :> mode) @@ (key :> value)] :
            mode \in Values("naming"), value \in Values(key), size \in {0, 1, MaxMessage + 1}} :
         key \in DOMAIN Words}

MCInit ==
  /\ NamingInit
  /\ part \in {"naming", "texts", "wire", "config"}
  /\ text = <<>> /\ report = NoReport /\ published = <<>>
  /\ \E layout \in Layouts : Load(layout) /\ (part # "config" => layout = << >>)

Types == \E c \in Characters : Len(text) < MaxText /\ text' = Append(text, c) /\ UNCHANGED <<report, published>>
Sends == published = <<>> /\ report = NoReport /\ report' \in Reports /\ UNCHANGED <<text, published>>
Opens == \E pane \in PaneKinds : report = NoReport /\ Len(published) <= MaxPeerPanes
         /\ published' = Append(published, pane) /\ UNCHANGED <<text, report>>
Hears == \E message \in Messages : Len(said) < MaxMessages /\ HearConfig(message)

MCNext ==
  \/ part = "naming" /\ NamingNext /\ UNCHANGED <<part, written, configVars>>
  \/ part = "texts" /\ Types /\ UNCHANGED <<part, namingVars, configVars>>
  \/ part = "wire" /\ (Sends \/ Opens) /\ UNCHANGED <<part, namingVars, configVars>>
  \/ part = "config" /\ Hears /\ UNCHANGED <<part, namingVars, written>>
MCSpec == MCInit /\ [][MCNext]_<<namingVars, part, written, configVars>>

-----------------------------------------------------------------------------
\* A line break is never swallowed: past it a text reads as it would alone, but
\* for an escape that takes the break itself (scrub: "it used to run to
\* end-of-input and swallow the whole field"; what is walked ends where it was).
NewlineResyncs ==
  \A i \in DOMAIN text :
    LET before == Scrubbed(SubSeq(text, 1, i - 1))
        after  == Scrubbed(SubSeq(text, i + 1, Len(text)))
    IN  text[i] = "newline" /\ before.in \notin {"escape", "oscEscape"} =>
          Scrubbed(text).out = Append(before.out, "digit") \o after.out

\* "Long text degrades to truncation, never a dropped update": whatever a producer
\* is given, what it sends arrives, and keeps a batch's authority over the tasks
\* that are running only if none of them was cut (to_wire, parse, parse_tasks).
WireKeepsItsWord ==
  LET arrived == Parse(ToWire(report))
  IN  report # NoReport =>
      /\ arrived # Dropped
      /\ arrived.text = LesserSize(report.text, MaxShown)
      /\ arrived.snapshot => arrived.tasks + report.unread >= report.tasks

\* What a rail publishes of its tabs its peers can read, whatever its panes are
\* called, and no agent is cut behind a command (own_presence, Presence::parse).
PublishedIsRead ==
  LET sent == PresencePanes(published)
      read == ReadPresence(<<"letter">>, [i \in DOMAIN sent |-> Sanitize(sent[i].label, MaxPeerLabel)])
  IN  published # <<>> =>
      /\ read # Dropped
      /\ Len(read.labels) = Len(sent)
      /\ \A pane \in ToSet(published) : pane.agent /\ pane.tracked /\ pane \notin ToSet(sent) =>
           \A i \in DOMAIN sent : sent[i].agent

\* What is sent is read, of both formats.
SentIsRead == WireKeepsItsWord /\ PublishedIsRead
=============================================================================
