----------------------------- MODULE AgentHooks -----------------------------
(***************************************************************************)
(* The hook processes of one agent pane (`zj-radar notify', crates/cli:    *)
(* notify.rs, dedup.rs, agents/claude/bg_agents.rs) and the row a rail     *)
(* shows for the pane.  The agent runs one short-lived process per hook;   *)
(* several can be in flight, each at its own step: intake (markers,        *)
(* derive), the duplicate check, the send, the record of what was          *)
(* delivered.  They share two files: the last-sent record and the          *)
(* background subagents' markers.                                          *)
(*                                                                         *)
(* Time is counted in seconds, as ages.  A hook takes less than a second   *)
(* unless another rail instance, wedged at its permission prompt, keeps    *)
(* `zellij pipe' from returning; the row's own rail consumes at once.      *)
(***************************************************************************)
EXTENDS AgentIntake

CONSTANTS
  Agents,          \* agents that may run in the pane
  WorkIds,         \* the task ids the pane's agent draws from
  Kinds,           \* what those may name: functions to the three kinds
  Procs,           \* hook processes that can be in flight together
  DedupTtl,        \* DEDUP_TTL_SECS
  QuietMax,        \* RUNNING_QUIET_MAX_SECS
  RunningTimeout,  \* RUNNING_PIPE_TIMEOUT_SECS
  EdgeTimeout,     \* DEFAULT_PIPE_TIMEOUT_SECS
  Beat             \* longest a working agent goes without calling a hook

ASSUME AgentHooksAssumption ==
  /\ Agents \subseteq AllAgents
  /\ WorkIds \subseteq TaskIds
  /\ Kinds \subseteq [WorkIds -> {"subagent", "shell", "service"}]
  /\ DedupTtl \in Nat \ {0} /\ Beat \in Nat \ {0}
  /\ RunningTimeout \in Nat \ {0} /\ EdgeTimeout \in Nat /\ QuietMax \in Nat
  /\ RunningTimeout < EdgeTimeout
  /\ DedupTtl + Beat + RunningTimeout < QuietMax
  /\ EdgeTimeout + 1 < QuietMax  \* 5 and 15: a held edge does not hide that long

VARIABLES
  agent,     \* the pane's agent
  kind,      \* what each id names: a subagent, a shell, a service
  turn,      \* "rest", "work" or "ask": its turn
  alive,     \* background work that runs
  over,      \* background work that is over, its wake prompt still due
  beat,      \* seconds since the agent last called a hook
  procs,     \* the hook processes
  sent,      \* last-sent record: key and age, or no record
  markers,   \* background subagents' marker files
  queue,     \* payloads queued for the row's rail
  row,       \* the row: status and background tasks
  quiet,     \* seconds its stale-Running grace ran, or Unsuspected
  lastStop,  \* the turn end the pane rests on: its payload, or none
  launched   \* subagents whose launch hook was taken in and that still run

env == <<agent, kind, turn, alive, over, beat>>
files == <<sent, markers>>
rail == <<queue, row, quiet>>
told == <<lastStop, launched>>
hookVars == <<env, procs, files, rail, told>>

NoUpdate == Update("idle", "", "", NoBatch)
Free == [phase |-> "free", in |-> Payload, upd |-> NoUpdate, held |-> 0]
NoRecord == [key |-> SentKey(NoUpdate), age |-> DedupTtl]
Unsuspected == -1
NoStop == Payload

Subagents == {id \in WorkIds : kind[id] = "subagent"}
Services == {id \in WorkIds : kind[id] = "service"}

InFlight == {p \in Procs : procs[p].phase # "free"}

\* The agent waits for its own hooks; a subagent's run beside them.
Foreground == {p \in InFlight : procs[p].in.by = NoId /\ ~procs[p].in.stray}
ToolCalls == {p \in InFlight : procs[p].in.event \in {"tool", "toolDone"}}

HooksInit ==
  /\ agent \in Agents
  /\ kind \in Kinds
  /\ turn = "rest" /\ alive = {} /\ over = {} /\ beat = 0
  /\ procs = [p \in Procs |-> Free]
  /\ sent = NoRecord /\ markers = {}
  /\ queue = <<>> /\ row = [status |-> "absent", tasks |-> NoTasks]
  /\ quiet = Unsuspected
  /\ lastStop = NoStop /\ launched = {}

-----------------------------------------------------------------------------
(* The agent calls a hook                                                  *)

Fire(payload) ==
  \E p \in Procs :
    /\ procs[p].phase = "free"
    /\ procs' = [procs EXCEPT ![p] =
                   [Free EXCEPT !.phase = "new", !.in = [payload EXCEPT !.services = Services]]]
    /\ UNCHANGED <<agent, kind, files, rail, launched>>

\* Background work that ended wakes the model with a prompt.
Prompt ==
  /\ Foreground = {}
  /\ \/ turn = "rest" /\ Fire(Payload) /\ UNCHANGED over
     \/ /\ over # {} /\ over' = {}
        /\ Fire([Payload EXCEPT !.machine = TRUE, !.over = over])
  /\ turn' = "work" /\ beat' = 0 /\ lastStop' = NoStop
  /\ UNCHANGED alive

\* Ids are drawn afresh: none is reused while anything remembers it.
FreshIds ==
  WorkIds \ (alive \cup over \cup {procs[p].in.by : p \in InFlight}
               \cup {row.tasks.items[k].id : k \in DOMAIN row.tasks.items})

\* Tool calls overlap; one may launch background work (Claude only).
Tool ==
  /\ turn = "work"
  /\ Foreground \subseteq ToolCalls
  /\ \E t \in Tools,
        launch \in {NoId} \cup (IF agent = "claude" THEN FreshIds ELSE {}) :
       /\ Fire([Payload EXCEPT !.event = IF launch = NoId THEN "tool" ELSE "toolDone",
                               !.tool = t, !.launch = launch])
       /\ alive' = alive \cup ({launch} \ {NoId})
  /\ beat' = 0
  /\ UNCHANGED <<turn, over, lastStop>>

\* A notification with nothing to act on leaves the turn as it is.
Ask ==
  /\ turn = "work"
  /\ Foreground \subseteq ToolCalls
  /\ \E blank \in BOOLEAN :
       LET payload == [Payload EXCEPT !.event = "ask", !.blank = blank]
       IN /\ Fire(payload)
          /\ turn' = IF Derive(agent, payload) = {} THEN turn ELSE "ask"
  /\ UNCHANGED <<alive, over, beat, lastStop>>

\* The tool the user allowed goes on; its next hook is the recovery.
Answer ==
  /\ turn = "ask"
  /\ turn' = "work" /\ beat' = 0
  /\ UNCHANGED <<agent, kind, alive, over, procs, files, rail, told>>

\* A turn ends well, or with an error the bridges report.
Stop ==
  /\ turn = "work"
  /\ Foreground = {}
  /\ \E event \in {"stop", "error"} \cap Events(agent), asks \in BOOLEAN :
       LET payload == [Payload EXCEPT !.event = event, !.asks = asks,
                                     !.live = alive, !.services = Services]
       IN /\ event = "error" => ~asks
          /\ Fire(payload)
          \* a subagent's hook taken in before its marker may still land
          /\ lastStop' = IF InFlight = {} THEN payload ELSE NoStop
  /\ turn' = "rest" /\ beat' = 0
  /\ UNCHANGED <<alive, over>>

\* /clear, a new session, the end of one.
Reset ==
  /\ "reset" \in Events(agent)
  /\ InFlight = {}
  /\ Fire([Payload EXCEPT !.event = "reset"])
  /\ turn' = "rest" /\ alive' = {} /\ over' = {} /\ beat' = 0
  /\ lastStop' = NoStop

\* A background subagent's own hooks fire on the parent's pane, one at a time.
SubagentHook ==
  /\ \E id \in alive \cap Subagents, t \in Tools :
     /\ \A p \in InFlight : procs[p].in.by # id
     /\ \/ /\ Fire([Payload EXCEPT !.event = "toolDone", !.by = id, !.tool = t])
           /\ UNCHANGED <<alive, over>>
        \/ /\ Fire([Payload EXCEPT !.event = "subagentStop", !.by = id])
           /\ alive' = alive \ {id} /\ over' = over \cup {id}
  /\ UNCHANGED <<turn, beat, lastStop>>

\* Hooks that say nothing of the pane's turn: a helper's untyped
\* SubagentStop, a /side fork's hook, a hook of the shared daemon.
StrayHook ==
  /\ \/ agent = "claude" /\ Fire([Payload EXCEPT !.event = "subagentStop", !.blank = TRUE])
     \/ agent = "codex" /\ \E event \in {"prompt", "stop"} :
          Fire([Payload EXCEPT !.event = event, !.stray = TRUE])
  /\ UNCHANGED <<turn, alive, over, beat, lastStop>>

ShellEnds ==
  /\ \E id \in alive \ Subagents :
       alive' = alive \ {id} /\ over' = over \cup {id}
  /\ UNCHANGED <<agent, kind, turn, beat, procs, files, rail, told>>

-----------------------------------------------------------------------------
(* notify::run: markers, derive                                            *)

LaunchesSubagent(i) == i.event = "toolDone" /\ i.launch \in Subagents

\* A marked subagent's tool calls and end send nothing.
Silenced(i, marked) ==
  i.event \in {"tool", "toolDone", "subagentStop"} /\ i.by \in marked

\* Mutant: one launch's sweep takes every marker of the pane.
MarkersLastLaunch(i) ==
  IF i.event = "reset" THEN {}
  ELSE IF LaunchesSubagent(i) THEN {i.launch}
  ELSE IF i.event = "subagentStop" THEN markers \ {i.by} ELSE markers

MarkersAfter(i) ==
  IF i.event = "reset" THEN {}
  ELSE IF LaunchesSubagent(i) THEN markers \cup {i.launch}
  ELSE IF i.event = "subagentStop" THEN markers \ {i.by} ELSE markers

\* What is left to send of a hook: nothing of a marked subagent's.
Admitted(i) ==
  IF agent = "claude" /\ Silenced(i, markers) THEN {} ELSE Derive(agent, i)

-----------------------------------------------------------------------------
(* notify::broadcast: duplicate check, send, record                        *)

\* Mutant: a repeat stays a repeat, however old the record.
RememberedForever(record) == [record EXCEPT !.age = IF @ < DedupTtl THEN @ ELSE DedupTtl - 1]

\* is_redundant: a record past its time is as good as none.
Remembered(record) == IF record.age < DedupTtl THEN record ELSE NoRecord

\* The clock does not step back, so no record is of the future.
Redundant(u) == u.status = "running" /\ sent.key = SentKey(u)

\* Mutant: a waiting turn end is dropped as a repeat of the last one.
SkipsAnyRepeat(u) == Redundant(u)

Skips(u) == ~Edge(u) /\ Redundant(u)

\* Markers, derive and duplicate check: nothing between them reads what
\* another process writes.
Intake(p) ==
  LET i == procs[p].in
      sends == {u \in Admitted(i) : ~Skips(u)}
  IN /\ procs[p].phase = "new"
     /\ markers' = IF agent = "claude" THEN MarkersAfter(i) ELSE markers
     /\ launched' = IF i.event = "reset" THEN {}
                    ELSE IF LaunchesSubagent(i) THEN launched \cup ({i.launch} \cap alive)
                    ELSE IF i.event = "subagentStop" THEN launched \ {i.by}
                    ELSE launched
     /\ \/ /\ sends = {}
           /\ procs' = [procs EXCEPT ![p] = Free]
        \/ \E u \in sends :
             procs' = [procs EXCEPT ![p].phase = "sending", ![p].upd = u,
                         ![p].in = [Payload EXCEPT !.event = i.event, !.by = i.by]]
     /\ UNCHANGED <<env, sent, rail, lastStop>>

\* The payload is queued at the server the moment it is sent.
Send(p) ==
  /\ procs[p].phase = "sending"
  /\ procs' = [procs EXCEPT ![p].phase = "sent"]
  /\ queue' = Append(queue, [proc |-> p, upd |-> ToWire(procs[p].upd)])
  /\ UNCHANGED <<env, files, row, quiet, told>>

Deadline(u) ==
  IF u.status = "running" /\ ~Edge(u) THEN RunningTimeout ELSE EdgeTimeout

Delivered(p) == procs[p].phase = "sent" /\ \A k \in DOMAIN queue : queue[k].proc # p

\* Every rail consumed it: the client exits 0 and the delivery is recorded.
Record(p) ==
  /\ Delivered(p)
  /\ sent' = Remembered([key |-> SentKey(procs[p].upd), age |-> procs[p].held])
  /\ procs' = [procs EXCEPT ![p] = Free]
  /\ UNCHANGED <<env, markers, rail, told>>

\* The watchdog kills the client at its deadline: nothing is recorded.
GiveUp(p) ==
  /\ Delivered(p)
  /\ procs[p].held = Deadline(procs[p].upd)
  /\ procs' = [procs EXCEPT ![p] = Free]
  /\ UNCHANGED <<env, files, rail, told>>

-----------------------------------------------------------------------------
(* The rail, and time                                                      *)

\* Any payload for the pane cancels the grace clock.
Consume ==
  /\ queue # <<>>
  /\ LET u == Head(queue).upd
     IN row' = [status |-> u.status,
                tasks |-> ApplyTasks(row.tasks, u.batch, row.status, u.status,
                                     u.task # "", 0)]
  /\ queue' = Tail(queue)
  /\ quiet' = Unsuspected
  /\ UNCHANGED <<env, procs, files, told>>

\* The pane's foreground flickers to the shell and back: only the first is
\* reported, and the grace clock of a running row starts.
Flicker ==
  /\ turn = "work" /\ row.status = "running" /\ quiet = Unsuspected
  /\ quiet' = 0
  /\ UNCHANGED <<env, procs, files, queue, row, told>>

\* A rail instance that is stuck at its permission prompt holds up whatever was
\* delivered, until it is not: either may happen to each at any time.
HeldUp(p) ==
  Delivered(p) /\ procs[p].held < Deadline(procs[p].upd)

Saturate(n, max) == IF n < max THEN n + 1 ELSE max

GraceExpired == quiet # Unsuspected /\ quiet + 1 >= QuietMax

Tick ==
  /\ queue = <<>>
  /\ \A p \in InFlight : HeldUp(p)
  /\ turn = "work" /\ Foreground = {} => beat < Beat
  /\ beat' = IF turn = "work" THEN Saturate(beat, Beat) ELSE 0
  /\ procs' = [p \in Procs |-> IF p \in InFlight
                                 THEN [procs[p] EXCEPT !.held = @ + 1] ELSE procs[p]]
  /\ sent' = Remembered([sent EXCEPT !.age = @ + 1])
  /\ quiet' = IF GraceExpired \/ quiet = Unsuspected THEN Unsuspected ELSE quiet + 1
  /\ row' = IF GraceExpired /\ row.status = "running"
              THEN [status |-> "idle", tasks |-> NoTasks] ELSE row
  /\ UNCHANGED <<agent, kind, turn, alive, over, markers, queue, told>>

Hook(p) == Intake(p) \/ Send(p) \/ Record(p) \/ GiveUp(p)

HooksNext ==
  \/ Prompt \/ Tool \/ Ask \/ Answer \/ Stop \/ Reset
  \/ SubagentHook \/ StrayHook \/ ShellEnds
  \/ \E p \in Procs : Hook(p)
  \/ Consume \/ Flicker \/ Tick

HooksSpec == HooksInit /\ [][HooksNext]_hookVars

-----------------------------------------------------------------------------

\* The grace clock never clears the row of a working agent that keeps calling
\* hooks, however many of its heartbeats are skipped as repeats and however
\* long a wedged rail holds the others (DEDUP_TTL_SECS below
\* RUNNING_QUIET_MAX_SECS in dedup.rs and pipe.rs).
LiveRowIsKept ==
  [][turn = "work" /\ GraceExpired => row'.status # "idle"]_hookVars

Settled == InFlight = {} /\ queue = <<>>

\* What a pane at rest shows is its last turn end: the question it asks, the
\* background work it waits on, or its outcome, and exactly the work the stop
\* listed runs (claude::derive, background::turn_end, broadcast's edges).
TurnEndIsShown ==
  Settled /\ lastStop.event \in {"stop", "error"} /\ Cardinality(lastStop.live) <= MaxTasks =>
    /\ row.status = (IF lastStop.event = "error" THEN "error"
                     ELSE IF lastStop.asks THEN "pending"
                     ELSE IF WaitsOn(lastStop) THEN "running" ELSE "done")
    /\ RunningIds(row.tasks.items) = lastStop.live
    /\ row.tasks.waiting <=> row.status = "running"

Stranger(i) == i.by \in launched \/ i.stray \/ (i.event = "subagentStop" /\ i.blank)

\* A hook of someone else than the pane's agent never reaches a rail: a
\* background subagent of this session, whatever was launched or ended
\* meanwhile; a helper; a /side fork; a daemon started from another pane.
StrangersAreSilent ==
  [][\A p \in Procs :
       procs[p].phase = "new" /\ Stranger(procs[p].in) =>
         procs'[p].phase \in {"new", "free"}]_hookVars

\* dedup.rs:16-21: every edge goes out, and the send of a question overwrites
\* the record, so that the running hook after it "differs and is sent".  Does
\* not hold, and no run checks it (README, Where code and text disagree).
RecoveryIsSent ==
  [][\A p \in Procs :
       /\ procs[p].phase = "new" /\ procs'[p].phase = "free"
       /\ Admitted(procs[p].in) # {}
       /\ InFlight = {p} /\ queue = <<>>
       => row.status # "pending"]_hookVars
==============================================================================
