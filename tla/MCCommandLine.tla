---------------------------- MODULE MCCommandLine ----------------------------
(***************************************************************************)
(* What the command line sends and what a pane keeps of it: the hook       *)
(* processes of one pane (AgentHooks), or one pane's task list under every *)
(* sequence of payloads, those no agent of AgentHooks sends included       *)
(* (TaskList).  The two share no state: each behaviour plays one of them.  *)
(*                                                                         *)
(* Two hook processes, two ids that name subagents or shells; three listed *)
(* tasks against a limit of two: the cap has to evict.                     *)
(***************************************************************************)
EXTENDS AgentHooks, TLC

CONSTANTS
  PayloadStatuses, WireStates, MaxBatch, MaxNow

VARIABLES
  played,  \* "hooks" or "list"
  tasks, status, now, last

L == INSTANCE TaskList

ASSUME CommandLineAssumption == L!TaskListParams

list == <<tasks, status, now, last>>

\* Only Claude's ids name anything, and the hooks rest while the list plays.
LineInit ==
  LET anyKind == kind = CHOOSE k \in Kinds : TRUE
  IN /\ HooksInit /\ L!Init
     /\ \/ played = "hooks" /\ (agent = "claude" \/ anyKind)
        \/ played = "list" /\ agent = (CHOOSE a \in Agents : TRUE) /\ anyKind

LineNext ==
  \/ played = "hooks" /\ HooksNext /\ UNCHANGED <<played, list>>
  \/ played = "list" /\ L!Next /\ UNCHANGED <<played, hookVars>>

LineSpec == LineInit /\ [][LineNext]_<<hookVars, played, list>>

\* The list's properties (TaskList): it waits on nothing it does not hold, its
\* outcomes are final, and work in flight is what the cap forgets last.
WaitsOnHolding == L!WaitsOnHolding
OutcomesAreFinal == L!OutcomesAreFinal
RunningIsForgottenLast == L!RunningIsForgottenLast

-----------------------------------------------------------------------------
CONSTANTS t1, t2, t3, p1, p2
MCIds == {t1, t2}
MCTaskIds == {t1, t2, t3}
MCStatuses == {"idle", "running", "done"}
MCWire == {"running", "completed", "ended"}
MCProcs == {p1, p2}
MCAgents == {"claude", "codex", "pi"}
MCKinds ==
  {[id \in MCIds |-> "subagent"], t1 :> "shell" @@ t2 :> "service",
   t2 :> "shell" @@ t1 :> "service"}
MCLineSymmetry ==
  {f @@ g : f \in Permutations(MCProcs), g \in Permutations(MCIds)}

\* What an agent works on is neither forgotten nor made up: the row of a live
\* agent stays, its list keeps the running tasks longest, revives none that is
\* over and waits on none it does not hold.
WorkIsKept ==
  LiveRowIsKept /\ [][WaitsOnHolding']_list /\ OutcomesAreFinal /\ RunningIsForgottenLast
==============================================================================
