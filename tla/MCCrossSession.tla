--------------------------- MODULE MCCrossSession ---------------------------
(***************************************************************************)
(* The two ends of the cross-session badge, which share nothing but a      *)
(* directory: how a session keeps its own presence file (PresenceWriter),  *)
(* and how a rail reads those of the others (PeerSessions).  A behaviour   *)
(* is one or the other (`scene'), chosen at the start: all that the reader *)
(* assumes of the writer is that a live session is silent for a bounded    *)
(* time, which is what the writer's NeverReaped shows.                     *)
(*                                                                         *)
(* Two tabs of one session; and a rail with two other sessions, of which   *)
(* one is killed and made again under its name.                            *)
(***************************************************************************)
EXTENDS PresenceWriter, TLC

CONSTANTS Files, NameOf, Own, Follows, Silence, ScanEvery, StaleSeen, DeadSeen

VARIABLES scene,
          lives, disk, silent, peers, picked, tapped, since, doing, aimed,
          calm, went

Reader == INSTANCE PeerSessions
            WITH Heartbeat <- Silence, StaleAfter <- StaleSeen,
                 DeadAfter <- DeadSeen

ASSUME CrossSessionAssumption ==
  /\ PresenceWriterAssumption
  /\ Reader!PeerSessionsAssumption

read == <<lives, disk, silent, peers, picked, tapped, since, doing, aimed,
          calm, went>>

crossVars == <<scene, vars, read>>

CrossInit ==
  /\ scene \in {"writer", "reader"}
  /\ Init
  /\ Reader!Init

WriterStep == /\ scene = "writer"
              /\ Next
              /\ UNCHANGED <<scene, read>>

ReaderStep == /\ scene = "reader"
              /\ Reader!Next
              /\ UNCHANGED <<scene, vars>>

CrossNext == WriterStep \/ ReaderStep

CrossSpec == CrossInit /\ [][CrossNext]_crossVars

-----------------------------------------------------------------------------

\* Alt+[/] switches to the fresh session the user settled on, after a quiet
\* interval (PeerSessions).
CommitIsDeliberate == Reader!CommitIsDeliberate

\* A corpse neither hides nor kills the live session of its name
\* (PeerSessions).
LivePeersAreListed == Reader!LivePeersAreListed

-----------------------------------------------------------------------------
CONSTANTS i1, i2, work1, work2, play
MCRails == {i1, i2}
MCSymmetry == Permutations(MCRails)
MCFiles == {work1, work2, play}
MCNameOf == (work1 :> 1) @@ (work2 :> 1) @@ (play :> 2)
MCFollows == {<<work1, work2>>}

\* The live peers are the ones on the badge, and the only ones switched to.
PeersAreLive == LivePeersAreListed /\ CommitIsDeliberate
==============================================================================
