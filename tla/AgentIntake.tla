----------------------------- MODULE AgentIntake -----------------------------
(***************************************************************************)
(* What a hook of each agent derives from its payload (crates/cli/src/     *)
(* agents): the adapters behind `Agent::derive'.  A payload is reduced to  *)
(* the fields the adapters branch on; texts are the few values the         *)
(* branches tell apart.                                                    *)
(***************************************************************************)
EXTENDS BgTasks

CONSTANTS
  Tools,  \* tool calls with an activity text of their own
  NoId    \* the absent task or subagent id

ASSUME AgentIntakeAssumption == NoId \notin TaskIds

Bridged == {"opencode", "pi", "omp"}
AllAgents == {"claude", "codex"} \cup Bridged

\* Only Claude reports background work, and only the JS bridges see errors.
Events(agent) ==
  {"prompt", "tool", "toolDone", "ask", "stop"}
    \cup (IF agent \in Bridged THEN {"error"} ELSE {"subagentStop"})
    \cup (IF agent = "codex" THEN {} ELSE {"reset"})

(***************************************************************************)
(* A hook payload.  by: the subagent whose own hook it is; asks: the last  *)
(* message ends in a question; blank: nothing a user could act on is said; *)
(* machine: the prompt is a harness wake, a command or an acknowledgement; *)
(* launch: the background work a tool call answered with; over: outcomes   *)
(* a wake prompt carries; live: what a Stop lists as running; services:    *)
(* those of the work it names that may never end; stray: a /side fork's    *)
(* hook or one run by the shared app-server daemon.                        *)
(***************************************************************************)
Payload ==
  [event |-> "prompt", by |-> NoId, tool |-> "none", asks |-> FALSE,
   blank |-> FALSE, machine |-> FALSE, launch |-> NoId, over |-> {},
   live |-> {}, services |-> {}, stray |-> FALSE]

StatusOfEvent(event) ==
  CASE event \in {"prompt", "tool", "toolDone", "subagentStop"} -> "running"
    [] event = "ask"   -> "pending"
    [] event = "stop"  -> "done"
    [] event = "error" -> "error"
    [] event = "reset" -> "idle"

\* Wire messages: a tool's activity, or one of these.
Texts == Tools \cup {"working", "delegating", "question", "report", "waiting", ""}

Update(status, msg, task, batch) ==
  [status |-> status, msg |-> msg, task |-> task, batch |-> batch]

TaskLabel(i) ==
  IF i.event = "prompt" /\ ~i.machine THEN "task" ELSE ""

ToolActivity(i) ==
  IF i.event \in {"tool", "toolDone"} /\ i.tool \in Tools
    THEN i.tool ELSE "working"

-----------------------------------------------------------------------------
(* Background tasks of a Claude payload                                    *)

\* In some order: what an order may decide is the display's.
Listing(ids) ==
  CHOOSE seq \in [1 .. Cardinality(ids) -> ids] : \A id \in ids : \E k \in DOMAIN seq : seq[k] = id

Upserts(ids, state, holding) ==
  LET seq == Listing(ids)
  IN [k \in DOMAIN seq |->
        [id |-> seq[k], state |-> state, holds |-> seq[k] \in holding]]

\* The running set a Stop lists; it holds the turn unless all are services.
TurnEnd(i) == Batch(Upserts(i.live, "running", i.live \ i.services), TRUE)
WaitsOn(i) == i.live \ i.services # {}

PromptTasks(i) ==
  IF i.over = {} THEN NoBatch ELSE Batch(Upserts(i.over, "completed", {}), FALSE)

LaunchTasks(i) ==
  IF i.launch = NoId THEN NoBatch
  ELSE Batch(Upserts({i.launch}, "running", {i.launch} \ i.services), FALSE)

DeriveClaude(i) ==
  CASE i.event = "subagentStop" /\ i.blank -> {}   \* an internal helper's
    [] i.event = "stop" ->
         {IF i.asks THEN Update("pending", "question", "", TurnEnd(i))
          ELSE IF WaitsOn(i) THEN Update("running", "waiting", "", TurnEnd(i))
          ELSE Update("done", "report", "", TurnEnd(i))}
    [] i.event = "ask" ->
         IF i.blank THEN {} ELSE {Update("pending", "question", "", NoBatch)}
    [] i.event = "reset" -> {Update("idle", "", "", NoBatch)}
    [] i.event = "prompt" ->
         {Update("running", "working", TaskLabel(i), PromptTasks(i))}
    [] i.event = "toolDone" ->
         {Update("running", ToolActivity(i), "", LaunchTasks(i))}
    [] OTHER -> {Update("running", ToolActivity(i), "", NoBatch)}

-----------------------------------------------------------------------------
(* The agents that report no background work                               *)

DeriveCodex(i) ==
  IF i.stray THEN {} ELSE
  CASE i.event = "stop" ->
         {IF i.asks THEN Update("pending", "question", "", NoBatch)
                    ELSE Update("done", "report", "", NoBatch)}
    [] i.event = "ask" -> {Update("pending", "question", "", NoBatch)}
    [] i.event = "subagentStop" ->
         {Update("running", "delegating", "", NoBatch)}
    [] OTHER -> {Update("running", ToolActivity(i), TaskLabel(i), NoBatch)}

DeriveBridged(i) ==
  LET status == StatusOfEvent(i.event)
  IN CASE status = "done" /\ i.asks ->
            {Update("pending", "question", "", NoBatch)}
       [] status = "pending" ->
            IF i.blank THEN {} ELSE {Update("pending", "question", "", NoBatch)}
       [] status = "running" ->
            {Update("running", ToolActivity(i), TaskLabel(i), NoBatch)}
       [] OTHER ->
            {Update(status, IF status = "idle" THEN "" ELSE "report", "",
                    NoBatch)}

\* At most one update; none is a hook that sends nothing.
Derive(agent, i) ==
  CASE agent = "claude" -> DeriveClaude(i)
    [] agent = "codex"  -> DeriveCodex(i)
    [] OTHER            -> DeriveBridged(i)

-----------------------------------------------------------------------------
(* broadcast: what makes a send an edge, and what the wire keeps of it     *)

\* A batch makes even a running payload an edge.
Edge(u) == u.batch.present

SentKey(u) == [status |-> u.status, msg |-> u.msg, task |-> u.task]

\* A capped snapshot is no longer the whole running set.
ToWire(u) ==
  [u EXCEPT !.batch.items = SubSeq(@, 1, IF Len(@) > MaxTasks THEN MaxTasks ELSE Len(@)),
            !.batch.snapshot = @ /\ Len(u.batch.items) <= MaxTasks]
==============================================================================
