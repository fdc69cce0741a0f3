----------------------------- MODULE MCRadarState -----------------------------
(* One pane whose agent and commands alternate, and two tabs it can move    *)
(* between, of which the first can close.                                   *)
EXTENDS RadarState, TLC
CONSTANTS build, ssh, tui, sh, claude, noargv, empty, t1, t2, nowhere
MCBuild == {build}
MCClassKind == [c \in Commands |-> IF c = ssh THEN "remote" ELSE "job"]
MCShells == {sh}
MCAgents == {claude}
MCNone == {}
MCNone1 == {{}}
MCFail == {"one"}
MCMessages == {empty}
MCOnePane == {1}
MCTwoTabs == {t1, t2}
MCLists == {<<t1, t2>>, <<t2>>}
MCNoTasks == {}
MCBatches == {NoBatch}
\* An agent in every status; a server only running.
MCSent == {p \in Payloads : /\ ~p.prompted /\ ~p.ack
                              /\ \/ p.kind = "agent"
                                 \/ p.status = "running"}

==============================================================================
