---------------------------- MODULE MCStatusStore ----------------------------
(* Agents in two panes with room for one row, or one of them in one pane.    *)
EXTENDS StatusStore
CONSTANTS empty, q1
MCMessages == {empty, q1}
\* Every status and message of an agent; a server only running, unlabelled.
MCSent == {p \in Payloads :
             /\ ~p.prompted /\ ~p.ack
             /\ p.kind # "agent" => p.status = "running" /\ p.msg = empty}
MCOnePane == {1}
MCTwoPanes == {1, 2}
MCNoTasks == {}

\* An agent's row is cleared when, and only when, nothing was heard of it for the
\* grace period (expiry by ticks; the row of an agent that fell silent).
SilenceClears == ExpiryNeedsSilence /\ SilencedAgentClears
==============================================================================
