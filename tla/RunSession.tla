------------------------------ MODULE RunSession ------------------------------
(* `zj-radar run`: the owned config dir and one session name (crates/cli/src/run.rs). *)
(*                                                                              *)
(* A run is cut at every file it writes and at every answer it gets from Zellij: *)
(* the user creates, ends and deletes the session in between, or kills the run.  *)
(* Left out: the ZJ_RADAR_WASM override of `just dev`, and the grant float and   *)
(* the advisories, which change neither the dir nor the marker. One run at a     *)
(* time, and no update of the binary lands while it prepares the dir.            *)
EXTENDS Naturals, Sequences

CONSTANTS MaxVersion,  \* bound: releases 1 .. MaxVersion
          MayDowngrade \* whether the user reinstalls older releases too

VARIABLES version,     \* the version of the installed binary
          embedded,    \* whether its builds carry the wasm
          dir,         \* the version of each file of the owned dir, 0 when it is not there
          session,     \* what `zellij list-sessions` says of the name
          creator,     \* who created that session
          stamp,       \* whether the ownership marker of the name exists
          agreed,      \* history: the user was asked about attaching to this session
          step,        \* idle, write, probe, fetch, plan, launch or attached
          todo,        \* the files the run has yet to write
          exists,      \* what the run believes of the session
          swapped      \* history: the run attached the user's own session unasked

runVars == <<version, embedded, dir, session, creator, stamp, agreed, step, todo, exists, swapped>>
world == <<version, embedded, session, creator, agreed>>

Generated == <<"config", "layout", "onboarding">>
Files == {"wasm", "config", "layout", "onboarding", "marker"}

RunInit ==
    /\ version = 1 /\ embedded \in BOOLEAN /\ dir = [f \in Files |-> 0]
    /\ session = "none" /\ creator = "none"
    /\ stamp = FALSE /\ agreed = FALSE /\ swapped = FALSE
    /\ step = "idle" /\ todo = <<>> /\ exists = FALSE

------------------------------------------------------------------------------
(* materialize                                                                  *)

UpToDate == dir.marker = version /\ \A f \in Files : dir[f] # 0

\* a build from crates.io carries no wasm
EmbeddedWasm == IF embedded THEN <<"wasm">> ELSE <<>>

ToWriteMarkerFirst == <<"marker">> \o EmbeddedWasm \o Generated
\* the marker is written last
ToWrite == EmbeddedWasm \o Generated \o <<"marker">>

Start ==
    /\ step = "idle"
    /\ step' = IF UpToDate THEN "probe" ELSE "write"
    /\ todo' = IF UpToDate THEN <<>> ELSE ToWrite
    /\ UNCHANGED <<dir, stamp, exists, swapped, world>>

WriteFile ==
    /\ step = "write"
    /\ dir' = [dir EXCEPT ![Head(todo)] = version]
    /\ todo' = Tail(todo)
    /\ step' = IF Tail(todo) = <<>> THEN "probe" ELSE "write"
    /\ UNCHANGED <<stamp, exists, swapped, world>>

Probe ==
    /\ step = "probe"
    /\ exists' = (session # "none")
    /\ step' = IF dir.wasm = 0 THEN "fetch" ELSE "plan"
    /\ UNCHANGED <<dir, stamp, todo, swapped, world>>

\* a build without the wasm downloads the one of its version, when there is none yet
Fetch ==
    /\ step = "fetch" /\ step' = "plan"
    /\ dir' = [dir EXCEPT !.wasm = version]
    /\ UNCHANGED <<stamp, todo, exists, swapped, world>>

------------------------------------------------------------------------------
(* The plan and its consent, and the launch.                                    *)

Foreign == exists /\ ~stamp

\* stamped when it is created, or when the user has agreed to attach
Stamped == stamp \/ Foreign \/ ~exists

\* the create path stamps before it launches; a session of the user's takes a yes
Go ==
    /\ step = "plan" /\ step' = "launch"
    /\ stamp' = Stamped
    /\ agreed' = (agreed \/ Foreign)
    /\ UNCHANGED <<version, embedded, dir, session, creator, todo, exists, swapped>>

\* nested, `--print-cmd`, no tty to ask on, a no; a write or a download that failed
Return ==
    /\ step \in {"write", "fetch", "plan"}
    /\ step' = "idle" /\ todo' = <<>>
    /\ UNCHANGED <<dir, stamp, exists, swapped, world>>

Unstamped == stamp /\ exists

\* Zellij refuses to create a name that exists and to attach to one that does not
Refused == exists # (session # "none")

Launch ==
    /\ step = "launch" /\ ~Refused /\ step' = "attached"
    /\ session' = "running"
    /\ creator' = IF exists THEN creator ELSE "run"
    /\ swapped' = (swapped \/ (exists /\ creator = "user" /\ ~agreed))
    /\ UNCHANGED <<version, embedded, dir, stamp, agreed, todo, exists>>

\* zellij is missing or refuses, or the client ends on a server that crashed
LaunchFails ==
    /\ step \in {"launch", "attached"} /\ step' = "idle"
    /\ stamp' = Unstamped
    /\ UNCHANGED <<dir, todo, exists, swapped, world>>

Detach == step = "attached" /\ step' = "idle" /\ UNCHANGED <<dir, stamp, todo, exists, swapped, world>>
Killed == step # "idle" /\ step' = "idle" /\ todo' = <<>> /\ UNCHANGED <<dir, stamp, exists, swapped, world>>

------------------------------------------------------------------------------
(* The user and the releases.                                                   *)

Unaffected == UNCHANGED <<stamp, step, todo, exists, swapped>>

UserCreates ==
    /\ session = "none" /\ session' = "running" /\ creator' = "user" /\ agreed' = FALSE
    /\ Unaffected /\ UNCHANGED <<version, embedded, dir>>
Exits == session = "running" /\ session' = "dead" /\ Unaffected /\ UNCHANGED <<version, embedded, dir, creator, agreed>>
Deleted ==
    /\ session # "none" /\ session' = "none" /\ creator' = "none" /\ agreed' = FALSE
    /\ Unaffected /\ UNCHANGED <<version, embedded, dir>>

Reinstall ==
    /\ step \in {"idle", "attached"}
    /\ version' \in 1 .. MaxVersion /\ (version' > version \/ MayDowngrade)
    /\ Unaffected /\ UNCHANGED <<embedded, dir, session, creator, agreed>>
FileLost ==
    /\ step = "idle"
    /\ \E f \in Files : dir[f] # 0 /\ dir' = [dir EXCEPT ![f] = 0]
    /\ Unaffected /\ UNCHANGED world

RunNext ==
    \/ Start \/ WriteFile \/ Probe \/ Fetch \/ Go \/ Return \/ Launch \/ LaunchFails \/ Detach \/ Killed
    \/ UserCreates \/ Exits \/ Deleted \/ Reinstall \/ FileLost
RunSpec == RunInit /\ [][RunNext]_runVars

------------------------------------------------------------------------------
(* "an interrupted run is re-materialized rather than served half-written"      *)
(* (run.rs:289): Zellij is launched on a dir whose every generated file is the  *)
(* launcher's own, whatever was killed, lost or upgraded before.                *)
OwnedDirIsWhole ==
    step = "launch" =>
        \A f \in Files : IF f # "wasm" \/ embedded THEN dir[f] = version ELSE dir[f] # 0

(* The marker says nothing of a session the user made: "so `run` never silently *)
(* attaches a session it didn't create" (run.rs:228). Does not hold, and no run *)
(* checks it (README, Where code and text disagree).                            *)
NoSilentAttach == ~swapped
================================================================================
