------------------------------ MODULE StatusStore ------------------------------
(***************************************************************************)
(* The pushed-status store of one plugin instance (status_store.rs) with   *)
(* the agents that push to it.  An agent hook spawns a detached sender, so *)
(* a payload the agent sent before it died can still arrive afterwards.    *)
(*                                                                         *)
(* `agent' says what runs in the pane: "working" (an agent mid-turn that   *)
(* can send), "dead" (killed, the pane is at its prompt).  `inflight' says *)
(* whether a Running payload the agent sent is still undelivered, `late'   *)
(* whether one arrived after the agent died.  `silent' counts the ticks    *)
(* since anything vouched for the agent.                                   *)
(***************************************************************************)
EXTENDS StatusPane

CONSTANTS
  Panes,            \* terminal panes
  Sent              \* the payloads producers send

ASSUME StatusStoreAssumption ==
  /\ Panes \subseteq Nat
  /\ IsFiniteSet(Panes)
  /\ Sent \subseteq Payloads

VARIABLES store, agent, inflight, late, silent, receded

vars == <<store, agent, inflight, late, silent, receded>>

TypeOK ==
  /\ store \in [Panes -> StatusRecords]
  /\ agent \in [Panes -> {"none", "working", "dead"}]
  /\ inflight \in [Panes -> BOOLEAN]
  /\ late \in [Panes -> BOOLEAN]
  /\ silent \in [Panes -> 0..GraceTicks]
  /\ receded \in [Panes -> SUBSET PushedRows]

Init ==
  /\ store = [p \in Panes |-> FreshStatus]
  /\ agent = [p \in Panes |-> "none"]
  /\ inflight = [p \in Panes |-> FALSE]
  /\ late = [p \in Panes |-> FALSE]
  /\ silent = [p \in Panes |-> 0]
  /\ receded = [p \in Panes |-> {}]

NothingReceded == receded' = [p \in Panes |-> {}]

-----------------------------------------------------------------------------
(* what reaches the store                                                  *)

Apply(p, payload, batch) ==
  /\ store' \in EvictOverCap([store EXCEPT ![p] =
                                ApplyPayload(@, payload, batch, 0)])
  /\ receded' = [q \in Panes |->
                   IF q = p THEN ApplyReceded(store[p], payload) ELSE {}]
  /\ silent' = [silent EXCEPT ![p] = 0]

\* A hook broadcast of a live agent (or any other producer).
StatusPipe(p, payload) ==
  /\ agent[p] # "dead"
  /\ Apply(p, payload, NoBatch)
  /\ agent' = [agent EXCEPT ![p] = "working"]
  /\ UNCHANGED <<inflight, late>>

\* A hook sends a Running heartbeat; the sender outlives the agent.
SendHeartbeat(p) ==
  /\ agent[p] = "working"
  /\ inflight' = [inflight EXCEPT ![p] = TRUE]
  /\ NothingReceded
  /\ UNCHANGED <<store, agent, late, silent>>

DeliverHeartbeat(p, payload) ==
  /\ inflight[p]
  /\ payload.status = "running"
  /\ Apply(p, payload, NoBatch)
  /\ inflight' = [inflight EXCEPT ![p] = FALSE]
  /\ late' = [late EXCEPT ![p] = agent[p] = "dead"]
  /\ UNCHANGED agent

\* CommandChanged with a shell argv: a flicker under a live agent, the
\* prompt after the agent was killed, or after a later shell command.
PromptReturn(p, killed) ==
  /\ agent' = [agent EXCEPT ![p] = IF killed /\ @ = "working" THEN "dead"
                                                             ELSE @]
  /\ store' = [store EXCEPT ![p] = ClearOnPromptReturn(@)]
  /\ receded' = [q \in Panes |->
                   IF q = p THEN PromptReceded(store[p]) ELSE {}]
  /\ UNCHANGED <<inflight, late, silent>>

\* CommandChanged with the agent's own argv.
AgentForeground(p) ==
  /\ agent' = [agent EXCEPT ![p] = "working"]
  /\ store' = [store EXCEPT ![p] = CancelSuspect(@)]
  /\ silent' = [silent EXCEPT ![p] = 0]
  /\ late' = [late EXCEPT ![p] = FALSE]
  /\ NothingReceded
  /\ UNCHANGED inflight

\* A pane whose root was the agent reports `exited'.
PaneExited(p) ==
  /\ agent' = [agent EXCEPT ![p] = "dead"]
  /\ store' = [store EXCEPT ![p] = ClearOnExit(@)]
  /\ receded' = [q \in Panes |-> IF q = p THEN ExitCleared(store[p]) ELSE {}]
  /\ UNCHANGED <<inflight, late, silent>>

Timer ==
  /\ store' = [p \in Panes |-> ExpireStaleRunning(store[p])]
  /\ silent' = [p \in Panes |-> IF silent[p] < GraceTicks THEN silent[p] + 1
                                                         ELSE silent[p]]
  /\ NothingReceded
  /\ UNCHANGED <<agent, inflight, late>>

Prune(live) ==
  /\ store' = [p \in Panes |-> IF p \in live THEN store[p] ELSE FreshStatus]
  /\ agent' = [p \in Panes |-> IF p \in live THEN agent[p] ELSE "none"]
  /\ inflight' = [p \in Panes |-> p \in live /\ inflight[p]]
  /\ late' = [p \in Panes |-> p \in live /\ late[p]]
  /\ receded' = [p \in Panes |->
                   IF p \notin live /\ Completed(store[p].row)
                     THEN {store[p].row} ELSE {}]
  /\ UNCHANGED silent

Next ==
  \/ Timer
  \/ \E p \in Panes, payload \in Sent : StatusPipe(p, payload)
  \/ \E p \in Panes : SendHeartbeat(p)
  \/ \E p \in Panes, payload \in Sent : DeliverHeartbeat(p, payload)
  \/ \E p \in Panes, killed \in BOOLEAN : PromptReturn(p, killed)
  \/ \E p \in Panes : AgentForeground(p) \/ PaneExited(p)
  \/ \E live \in SUBSET Panes : Prune(live)

Spec == Init /\ [][Next]_vars

\* The runtime's timer is armed while needs_ticks; nobody owes a
\* payload.
FairSpec ==
  /\ Spec
  /\ WF_vars(Timer /\ \E p \in Panes : StatusNeedsTicks(store[p]))

-----------------------------------------------------------------------------

\* The timer clears a Running row only after a full grace window in which
\* neither a payload nor the agent's foreground vouched for it: a mid-turn
\* flicker to a shell never clears a live agent.
ExpiryNeedsSilence ==
  [][\A p \in Panes :
       Timer /\ store[p].row.status = "running"
             /\ store'[p].row.status # "running"
         => silent'[p] >= GraceTicks]_vars

SameQuestion(old, new) ==
  Stamped(new.status) /\ new.status = old.status /\ new.msg = old.msg

\* The wait a card shows is that of the question (or outcome) it shows: no
\* repeat, flicker or heartbeat shortens it, and none is inherited from a
\* question asked before ("kept across identical re-broadcasts (the wait
\* started at the FIRST ask), re-stamped when a different question arrives",
\* apply).
WaitIsTheQuestionsOwn ==
  [][\A p \in Panes :
       LET old == store[p].row
           new == store'[p].row
       IN IF SameQuestion(old, new) THEN new.stamp >= old.stamp
                                    ELSE new.stamp = 0]_vars

Stuck(p) == agent[p] = "dead" /\ store[p].row.status = "running"

\* An agent killed mid-turn does not leave its row working forever ("killing
\* an agent mid-turn doesn't leave a "working" row spinning forever", pipe.rs).
\* Does not hold, and no run checks it (README, Where code and text disagree).
KilledAgentClears == \A p \in Panes : Stuck(p) ~> ~Stuck(p)

\* The same as long as no payload of the dead agent arrives late, with no
\* more ticks than needs_ticks asks for.
SilencedAgentClears ==
  \A p \in Panes : Stuck(p) ~> (~Stuck(p) \/ late[p])
==============================================================================
