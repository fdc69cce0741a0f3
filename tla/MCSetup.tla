------------------------------- MODULE MCSetup -------------------------------
(* Four scenes: the files of one agent's pair, the notify slot, the sidebar,    *)
(* and `zj-radar run` on a name of its own. A scene pins what the others move.  *)
EXTENDS Installer

CONSTANTS MayDowngrade
VARIABLES scene, version, embedded, dir, session, creator, stamp, agreed, step, todo, exists, swapped
R == INSTANCE RunSession

runState == <<version, embedded, dir, session, creator, stamp, agreed, step, todo, exists, swapped>>
setupVars == <<vars, runState, scene>>

At0 == Init /\ R!RunInit
SetupInit ==
    /\ At0
    /\ scene \in {"pair", "slot", "rail", "run"}
    /\ (scene # "rail" => alias = "none" /\ layout = "absent")
    /\ (scene # "run" => embedded)

UsesFiles(ts) ==
    \/ \E t \in ts : UserWrites(t) \/ UserRemoves(t) \/ UserRestores(t)
    \/ SetupAgents(ts) \/ UninstallAgents(ts)

InScene ==
    \/ scene = "pair" /\ (UsesFiles(Bridges) \/ Update \/ Release)
    \/ scene = "slot" /\ UsesFiles({Slot})
    \/ scene = "rail" /\ (SetupRail \/ UninstallRail \/ UserEditsConfig \/ Update \/ Release)

SetupNext ==
    \/ (Work \/ InScene) /\ UNCHANGED <<runState, scene>>
    \/ scene = "run" /\ R!RunNext /\ UNCHANGED <<vars, scene>>
SetupSpec == SetupInit /\ [][SetupNext]_setupVars

Symmetry == Permutations(Texts)

OwnedDirIsWhole == R!OwnedDirIsWhole
NoSilentAttach == R!NoSilentAttach

\* What a run launches and what an update leaves is of one version.
EndsWhole == [][OwnedDirIsWhole']_setupVars /\ UpdateEndsWhole
================================================================================
