------------------------------ MODULE RailConfig ------------------------------
(***************************************************************************)
(* The configuration of a rail (crates/plugin/src/config.rs): what the     *)
(* layout's plugin block and the messages of the config.v1 pipe make of    *)
(* it.  A text is one of the words the parsers know, or none of them.      *)
(***************************************************************************)
EXTENDS Integers, SequencesExt

CONSTANTS
  MaxFps,        \* MAX_SPINNER_FPS
  DefaultFps,    \* DEFAULT_SPINNER_FPS
  MaxMessage     \* MAX_PAYLOAD_BYTES

-----------------------------------------------------------------------------
\* The parsers: what a word sets a field to.
Itself(words) == [word \in words |-> word]
Alias(words, meaning) == [word \in words |-> meaning]

NamingMode == Itself({"off", "managed", "force"})
Density    == Itself({"compact", "comfortable", "cards"})
GlyphSet   == Itself({"nerd", "plain"})    \* as it stands: see Folded
Role       == Itself({"sidebar", "onboarding"})
GrantHint  == Itself({"ctrl-y", "generic"})
JumpHint   == Alias({"alt-n", "alt"}, "alt-n") @@ Alias({"hidden", "off"}, "hidden")
TaskLines  == Alias({"lines", "on", "true"}, "lines") @@ Itself({"count"})
              @@ Alias({"off", "false", "hidden"}, "off")
ParseBool  == Alias({"true", "1", "yes", "on"}, TRUE) @@ Alias({"false", "0", "no", "off"}, FALSE)

\* Numbers are written as they are; the rate is kept within 1..MaxFps.
Numbers == [word \in {"0", "1", "4", "99"} |->
             CASE word = "0" -> 0 [] word = "1" -> 1 [] word = "4" -> 4 [] word = "99" -> 99]
ParseFps == [word \in DOMAIN Numbers |->
              CASE Numbers[word] < 1 -> 1 [] Numbers[word] > MaxFps -> MaxFps [] OTHER -> Numbers[word]]

\* A list always parses: any word is a name, and no word is no names.
ParseNameSet(word) ==
  CASE word = "" -> {} [] word = "-vim, htop" -> {"vim", "htop"} [] OTHER -> {word}

-----------------------------------------------------------------------------
\* config_fields: every field's parser, and its default.
Row(parser, default) == [parser |-> parser, default |-> default]
Listed == {"interactive_commands", "remote_commands"}
Fields ==
  [naming |-> Row(NamingMode, "managed"), density |-> Row(Density, "cards"), glyphs |-> Row(GlyphSet, "plain"),
   role |-> Row(Role, "sidebar"), grant_hint |-> Row(GrantHint, "generic"), jump_hint |-> Row(JumpHint, "hidden"),
   task_lines |-> Row(TaskLines, "lines"), spinner_fps |-> Row(ParseFps, DefaultFps)]
  @@ [field \in {"header", "ledger", "notify", "notify_done", "notify_error", "notify_pending", "notify_remote"} |->
        Row(ParseBool, TRUE)]
  @@ [field \in {"defer_permission", "notify_when_focused", "session_tree", "show_mode"} |-> Row(ParseBool, FALSE)]

Config == DOMAIN Fields \cup Listed

\* All parsers but that of the glyphs trim a word and fold its case.
Folded(field, word) ==
  CASE field # "glyphs" /\ word = " Plain" -> "plain" [] field # "glyphs" /\ word = " OFF" -> "off" [] OTHER -> word

Recognised(field, word) == field \in Listed \/ Folded(field, word) \in DOMAIN Fields[field].parser
Parsed(field, word) ==
  IF field \in Listed THEN ParseNameSet(word) ELSE Fields[field].parser[Folded(field, word)]

Defaults == [field \in Config |-> IF field \in Listed THEN {} ELSE Fields[field].default]

\* Mutant: a word that is not recognised sets the field back.
ApplyOrDefault(config, kv) ==
  [field \in Config |-> IF field \notin DOMAIN kv THEN config[field]
                        ELSE IF Recognised(field, kv[field]) THEN Parsed(field, kv[field])
                        ELSE Defaults[field]]

\* apply_overrides: keys that are no field are ignored.
ApplyOverrides(config, kv) ==
  [field \in Config |-> IF field \in DOMAIN kv /\ Recognised(field, kv[field])
                        THEN Parsed(field, kv[field]) ELSE config[field]]

FromMap(kv) == ApplyOverrides(Defaults, kv)

-----------------------------------------------------------------------------
\* overrides_from_json: a message is an object of JSON values, or it is none;
\* null and nested values are dropped, the rest is written out.
NoOverrides == << >>
Written(value) == IF value.type = "bool" THEN (IF value.it THEN "true" ELSE "false") ELSE value.it

OverridesFromJson(message) ==
  LET plain == {key \in DOMAIN message.object : message.object[key].type \in {"string", "bool", "number"}}
  IN  IF message.size > MaxMessage \/ ~message.isObject THEN NoOverrides
      ELSE [key \in plain |-> Written(message.object[key])]

-----------------------------------------------------------------------------
VARIABLES
  config,     \* the rail's configuration
  said        \* history: the overrides the rail was given, the layout's first
configVars == <<config, said>>

Load(layout) == config = FromMap(layout) /\ said = <<layout>>

\* config_pipe, as far as the configuration goes: what follows from it is in the
\* modules of what it configures.
HearConfig(message) ==
  LET overrides == OverridesFromJson(message)
  IN  /\ config' = ApplyOverrides(config, overrides)
      /\ said' = Append(said, overrides)

-----------------------------------------------------------------------------
\* A typo must not clobber what is set, on the first load or live, whichever
\* other fields a message sets: a field is what the last word for it that was
\* understood made it, and its default until then (apply_overrides, from_map).
LastRecognisedWins ==
  \A field \in Config :
    LET heard == {i \in DOMAIN said : field \in DOMAIN said[i] /\ Recognised(field, said[i][field])}
    IN  config[field] = IF heard = {} THEN Defaults[field] ELSE Parsed(field, said[Max(heard)][field])
=============================================================================
