---------------------------- MODULE MCSnapshotFile ----------------------------
(***************************************************************************)
(* The two things the instances of a session share through one snapshot    *)
(* file: the completion ring every write merges (Ledger) and the           *)
(* observation rows every write overlays (SharedSnapshot).  They never     *)
(* read each other, so a behaviour is one or the other (`scene'), chosen   *)
(* at the start.                                                           *)
(*                                                                         *)
(* Two instances.  Ring: two kinds of completion, room for two.  Rows:     *)
(* both there from the start or one opened later; one pane with a prompt,  *)
(* or one held open when its command exits.                                *)
(***************************************************************************)
EXTENDS CommandPane, TLC

CONSTANTS Instances, Events, LedgerCap, MergeWindow, MaxNow

VARIABLES scene,
          now, rings, file, existing,
          cmd, loaded, disk, holding, fg, held, knows, heard

Ring == INSTANCE Ledger
Rows == INSTANCE SharedSnapshot

ASSUME SnapshotFileAssumption == Ring!LedgerAssumption /\ Rows!SharedSnapshotAssumption

ring == <<now, rings, file, existing>>
rows == <<cmd, loaded, disk, holding, fg, held, knows, heard>>
fileVars == <<scene, ring, rows>>

FileInit ==
  /\ scene \in {"ring", "rows"}
  /\ Ring!Init
  /\ Rows!Init
  /\ scene = "ring" => ~holding /\ loaded = Instances

RingStep == /\ scene = "ring"
            /\ Ring!Next
            /\ UNCHANGED <<scene, rows>>

RowsStep == /\ scene = "rows"
            /\ Rows!Next
            /\ UNCHANGED <<scene, ring>>

FileNext == RingStep \/ RowsStep

FileSpec == FileInit /\ [][FileNext]_fileVars

-----------------------------------------------------------------------------

\* Both halves keep to their types.
FileTypeOK == Ring!TypeOK /\ Rows!TypeOK

\* No ring ever holds two entries of one event (Ledger).
OneLinePerEvent == Ring!OneLinePerEvent

\* Writers that follow each other agree whichever goes first (Ledger).
WriteOrderIsImmaterial == Ring!WriteOrderIsImmaterial

\* A write loses no completion of the file it read (Ledger).
WritesKeepCompletions == Ring!WritesKeepCompletions

\* Instances that agree and are settled agree with the file (SharedSnapshot).
SnapshotCatchesUp == Rows!SnapshotCatchesUp

\* Every instance shows a held pane's failure (SharedSnapshot).
FailureIsShownByAll == Rows!FailureIsShownByAll

-----------------------------------------------------------------------------
CONSTANTS build, sh, noargv, empty, i1, i2, e1, e2
MCCommands == {build}
MCShells == {sh}
MCNone == {}
MCClassKind == [c \in Commands |-> "job"]
MCFailCodes == {"one"}
MCInstances == {i1, i2}
MCEvents == {e1, e2}
MCSymmetry == Permutations(MCInstances) \cup Permutations(MCEvents)

\* One event is one line in every ring, whoever writes first.
RingsAgree == OneLinePerEvent /\ WriteOrderIsImmaterial

\* Instances agree on the rows: with the file once settled, and on a held pane's
\* failure.
InstancesAgree == SnapshotCatchesUp /\ FailureIsShownByAll
==============================================================================
