---------------------------- MODULE SharedSnapshot ----------------------------
(***************************************************************************)
(* The command rows of one terminal pane in every plugin instance of a     *)
(* session, and the snapshot file they share (radar_state.rs,              *)
(* radar_state/snapshot.rs, PluginRuntime::load).                          *)
(*                                                                         *)
(* Zellij broadcasts CommandChanged to every instance, gives pane          *)
(* manifests to the active tab's instance only, and each instance runs its *)
(* own timer.  `fg' is the program in the pane's foreground; `holding'     *)
(* whether the pane stays open when its command exits and `held' the exit  *)
(* status it then shows ("unseen" while the command runs); `knows' are the *)
(* instances whose manifest has carried it; `heard' the instances that     *)
(* were loaded at the last CommandChanged.                                 *)
(***************************************************************************)
EXTENDS CommandPane, FiniteSets

CONSTANTS
  Instances    \* one plugin instance per tab

SharedSnapshotAssumption == Instances # {}

VARIABLES cmd, loaded, disk, holding, fg, held, knows, heard

vars == <<cmd, loaded, disk, holding, fg, held, knows, heard>>
environment == <<holding, fg, held, heard>>

SameRow(a, b) == a.status = b.status /\ a.msg = b.msg /\ a.code = b.code

\* to_json: the writer's observation replaces the one in the file; without
\* one the file keeps what it has (the pane is live).
Persisted(obs) == IF obs.status = "absent" THEN disk ELSE obs

TypeOK ==
  /\ cmd \in [Instances -> PaneRecords]
  /\ loaded \in SUBSET Instances
  /\ disk \in Observations
  /\ holding \in BOOLEAN
  /\ fg \in Commands \cup {NoCmd}
  /\ held \in ExitStatuses \cup {"unseen"}
  /\ knows \subseteq loaded /\ heard \subseteq loaded

Init ==
  /\ cmd = [i \in Instances |-> FreshPane]
  /\ loaded \in (SUBSET Instances) \ {{}}
  /\ disk = NoObs
  /\ holding \in BOOLEAN
  /\ fg = NoCmd
  /\ held = "unseen"
  /\ knows = {} /\ heard = {}

-----------------------------------------------------------------------------

\* A command starts (or is re-run in the held pane), or the prompt returns.
CommandChanged(argv) ==
  /\ argv \in Shells => ~holding
  /\ cmd' = [i \in Instances |->
               IF i \in loaded
                 THEN OnCommandChanged(cmd[i], argv, TRUE,
                                       DefaultInteractive, {})
                 ELSE cmd[i]]
  /\ fg' = IF argv \in Commands THEN argv ELSE NoCmd
  /\ held' = "unseen"
  /\ knows' = {} /\ heard' = loaded
  /\ UNCHANGED <<loaded, disk, holding>>

\* The held pane's command exits; instances hear of it by manifest.
CommandExits(status) ==
  /\ holding /\ fg # NoCmd
  /\ fg' = NoCmd
  /\ held' = status
  /\ UNCHANGED <<cmd, loaded, disk, holding, knows, heard>>

\* panes_changed in the instance of the active tab; only a displaced
\* completion is persisted.
Manifest(i) ==
  /\ i \in loaded
  /\ held # "unseen"
  /\ cmd' = [cmd EXCEPT ![i] = OnExit(@, held)]
  /\ disk' = IF ExitReceded(cmd[i], held) # {} THEN Persisted(cmd'[i].obs)
                                               ELSE disk
  /\ knows' = knows \cup {i}
  /\ UNCHANGED <<loaded, environment>>

\* A timer edge is written by every instance that sees it.
Timer(i) ==
  /\ i \in loaded
  /\ cmd' = [cmd EXCEPT ![i] = OnTimer(@)]
  /\ disk' = IF TimerChanged(cmd[i]) THEN Persisted(cmd'[i].obs) ELSE disk
  /\ UNCHANGED <<loaded, environment, knows>>

\* An instance writes the file for an edge of another pane: whatever its
\* own store holds of this one goes along.
WriteForOtherPane(i) ==
  /\ i \in loaded
  /\ disk' = Persisted(cmd[i].obs)
  /\ UNCHANGED <<cmd, loaded, environment, knows>>

\* A tab opens: its instance seeds its store from the file.
Load(i) ==
  /\ i \notin loaded
  /\ loaded' = loaded \cup {i}
  /\ cmd' = [cmd EXCEPT ![i] =
               [FreshPane EXCEPT
                  !.obs = [disk EXCEPT !.age = IF disk.status = "done" THEN 0
                                                                       ELSE @]]]
  /\ UNCHANGED <<disk, environment, knows>>

Next ==
  \/ \E argv \in Commands \cup Shells : CommandChanged(argv)
  \/ \E status \in ExitStatuses : CommandExits(status)
  \/ \E i \in Instances :
       Manifest(i) \/ Timer(i) \/ WriteForOtherPane(i) \/ Load(i)

Spec == Init /\ [][Next]_vars

\* Every instance's timer stays armed while its own store asks for ticks.
FairSpec ==
  Spec /\ \A i \in Instances :
            WF_vars(Timer(i) /\ (NeedsTicks(cmd[i]) \/ AwaitsRecede(cmd[i])))

-----------------------------------------------------------------------------

Settled(i) == ~NeedsTicks(cmd[i]) /\ ~AwaitsRecede(cmd[i])

\* Once the instances agree on the row and none has timer work left, the file
\* agrees too, although laggards wrote their stale row over newer ones: "only
\* its own later timer write repairs that" (RadarState::timer).  Exits of held
\* panes are not written at all.
SnapshotCatchesUp ==
  (/\ ~holding
   /\ \A i \in loaded : Settled(i)
   /\ \A i, j \in loaded : SameRow(cmd[i].obs, cmd[j].obs))
    => \A i \in loaded : SameRow(cmd[i].obs, disk)

\* Instances that heard a held pane's command start and have its failure from
\* their own manifests all show it: "a late-spawned instance re-derives them
\* from its own first PaneUpdate rather than the snapshot" (panes_changed).
FailureIsShownByAll ==
  held \in FailCodes =>
    \A i, j \in knows \cap heard :
      cmd[i].obs.status = "error" => cmd[j].obs.status = "error"
===============================================================================
