----------------------------- MODULE CommandLife -----------------------------
(***************************************************************************)
(* The command store as an implementation of PaneLife, and the store over  *)
(* the restarts of its instance.  `restarts' says which of the two a       *)
(* behaviour is about: a store that lives on under every configuration, or *)
(* one whose instance is reloaded from the snapshot under a configuration  *)
(* that only grows.                                                        *)
(***************************************************************************)
EXTENDS CommandStore

VARIABLE restarts

lifeVars == <<vars, restarts>>

CardOf(obs) == [status |-> obs.status, name |-> obs.msg, code |-> obs.code]

Life == INSTANCE PaneLife
          WITH Names <- Commands \cup {NoCmd},
               Codes <- ExitStatuses \cup {"none"},
               card  <- [p \in Panes |-> CardOf(panes[p].obs)],
               filed <- [p \in Panes |-> {CardOf(o) : o \in receded[p]}]

\* A fresh instance takes the observations from the snapshot and nothing
\* else; the Done clock restarts (RadarState::load_snapshot).
Rehydrate ==
  /\ panes' = [p \in Panes |->
                 [FreshPane EXCEPT
                    !.obs = IF panes[p].obs.status = "done"
                              THEN [panes[p].obs EXCEPT !.age = 0]
                              ELSE panes[p].obs]]
  /\ Quiet
  /\ UNCHANGED <<interactive, remote, shown, lastExit>>

LifeInit == Init /\ restarts \in BOOLEAN

LifeNext ==
  /\ Next \/ (restarts /\ Rehydrate)
  /\ restarts => interactive \subseteq interactive' /\ remote' = remote
  /\ UNCHANGED restarts

LifeSpec == LifeInit /\ [][LifeNext]_lifeVars

\* The runtime keeps its timer armed exactly while the store asks for it.
FairLifeSpec ==
  LifeSpec
    /\ WF_lifeVars(/\ Timer /\ UNCHANGED restarts
                   /\ StoreNeedsTicks \/ StoreAwaitsRecede)

-----------------------------------------------------------------------------

\* Whatever is reported, configured or reloaded, and in whichever order the
\* timer runs its edges, a card only ever moves as PaneLife allows: no failure
\* recedes by itself, and no outcome leaves a card without being filed, or is
\* filed without leaving it.
ImplementsPaneLife == Life!Spec

\* The four maps and the environment's view agree pane by pane, for as long
\* as the instance lives: a reload drops all of them but the observations.
BooksMatchUntilReload == ~restarts => BooksMatchForeground

Left(p) == panes[p].obs.status = "running" /\ shown[p].cmd = NoCmd
IsDone(p, code) == panes[p].obs.status = "done" /\ panes[p].obs.code = code

\* With no more ticks than needs_ticks asks for, a command that left the
\* foreground for good does not stay Running, and a Done row recedes whatever
\* is re-reported meanwhile, unless another command opens in the pane.
RowsSettle ==
  ~restarts =>
    \A p \in Panes :
      /\ Left(p) ~> ~Left(p)
      /\ \A code \in ExitStatuses :
           IsDone(p, code) ~> ~IsDone(p, code) \/ shown[p].cmd # NoCmd

\* No row flips to Done while its command is in the foreground as a tracked
\* (not interactive) command: "a Running command that left the foreground and
\* never came back flips to Done" (command.rs, on_timer).  As long
\* as no program loses its interactive_commands entry while it is in the
\* foreground.
ConfirmedDoneHasLeft ==
  [][restarts =>
       \A p \in Panes :
         panes'[p].obs.status = "done" /\ panes[p].obs.status # "done"
           => \/ shown'[p].cmd # panes'[p].obs.msg
              \/ shown'[p].cmd = NoCmd
              \/ shown'[p].cmd \in interactive]_lifeVars

\* A completion is of a command that left, and is announced once: a Done that the
\* store confirms has left the foreground, and a repeated exit adds nothing.
CompletionsAreTrue == ConfirmedDoneHasLeft /\ ReplayedExitIsSilent
==============================================================================
