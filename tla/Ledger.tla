-------------------------------- MODULE Ledger --------------------------------
(***************************************************************************)
(* The completion ledger (crates/plugin/src/ledger.rs) in every plugin     *)
(* instance of a session, and the ring they merge into the shared snapshot *)
(* file (snapshot.rs, to_json).                                            *)
(*                                                                         *)
(* An instance files a completion when it recedes from its rail, with the  *)
(* stamp of when its own clock saw it complete: entries arrive in any      *)
(* order, and instances stamp one completion differently.                  *)
(***************************************************************************)
EXTENDS Integers, Sequences

CONSTANTS
  Instances,    \* plugin instances, one per tab
  Events,       \* what makes entries equal: pane, outcome and label
  LedgerCap,    \* LEDGER_CAP
  MergeWindow,  \* MERGE_WINDOW_S
  MaxNow        \* bound on the wall clock

LedgerAssumption ==
  /\ LedgerCap \in Nat \ {0}
  /\ MergeWindow \in Nat
  /\ MaxNow \in Nat

Entries == [key : Events, at : 0..MaxNow]

VARIABLES now, rings, file, existing

vars == <<now, rings, file, existing>>

NotReading == {}     \* otherwise the one value read

-----------------------------------------------------------------------------
(* the ring                                                                *)

Distance(a, b) == IF a > b THEN a - b ELSE b - a

IsSameEvent(a, b) == a.key = b.key /\ Distance(a.at, b.at) <= MergeWindow

Lines(ring) == {ring[i] : i \in DOMAIN ring}

Holds(ring, e) == \E i \in DOMAIN ring : IsSameEvent(ring[i], e)

Truncate(ring) == IF Len(ring) <= LedgerCap THEN ring
                                            ELSE SubSeq(ring, 1, LedgerCap)

\* `push': a match keeps the entry already there.
Push(ring, e) == IF Holds(ring, e) THEN ring ELSE Truncate(<<e>> \o ring)

\* A stable sort by descending stamp puts an entry behind those as recent.
Placed(sorted, e) ==
  LET place == CHOOSE n \in 0..Len(sorted) :
                 /\ \A i \in 1..n : sorted[i].at >= e.at
                 /\ \A i \in (n + 1)..Len(sorted) : sorted[i].at < e.at
  IN  SubSeq(sorted, 1, place) \o <<e>> \o SubSeq(sorted, place + 1, Len(sorted))

\* sort_by_key(Reverse(at)): of the first n entries, for each n.
NewestFirst(entries) ==
  LET sorted[n \in 0..Len(entries)] == IF n = 0 THEN <<>> ELSE Placed(sorted[n - 1], entries[n])
  IN  sorted[Len(entries)]

Replace(entries) == Truncate(NewestFirst(entries))

\* The candidates in turn, but for those of an event that is kept already.
OneEach(candidates) ==
  LET Add(ring, e) == IF Holds(ring, e) THEN ring ELSE Append(ring, e)
      kept[n \in 0..Len(candidates)] == IF n = 0 THEN <<>> ELSE Add(kept[n - 1], candidates[n])
  IN  kept[Len(candidates)]

\* Mutant: the writer's ring replaces the one in the file.
MergeOwnOnly(a, b) == Replace(a)

\* Mutant: duplicates are dropped before the entries are sorted.
MergeUnsorted(a, b) == Truncate(OneEach(a \o b))

\* Mutant: no duplicate is dropped.
MergeAll(a, b) == Replace(a \o b)

\* `merge': of matching entries the later stamp stays.
Merge(a, b) == Truncate(OneEach(NewestFirst(a \o b)))

-----------------------------------------------------------------------------

TypeOK ==
  /\ now \in 0..MaxNow
  /\ \A i \in Instances :
       Len(rings[i]) <= LedgerCap /\ Lines(rings[i]) \subseteq Entries
  /\ Len(file) <= LedgerCap /\ Lines(file) \subseteq Entries
  /\ \A i \in Instances :
       \A ring \in existing[i] : Lines(ring) \subseteq Entries

Init ==
  /\ now = 0
  /\ rings = [i \in Instances |-> <<>>]
  /\ file = <<>>
  /\ existing = [i \in Instances |-> NotReading]

Clock == /\ now < MaxNow
         /\ now' = now + 1
         /\ UNCHANGED <<rings, file, existing>>

\* A card recedes in an instance (RadarState::ledger_receded); overlapping
\* edges may file it twice.
Recede(i, e) ==
  /\ e.at <= now /\ existing[i] = NotReading
  /\ rings' = [rings EXCEPT ![i] = Push(@, e)]
  /\ UNCHANGED <<now, file, existing>>

\* persist_snapshot is a read, a merge and a rename with no lock: other
\* instances run between its two ends.
ReadSnapshot(i) ==
  /\ existing[i] = NotReading
  /\ existing' = [existing EXCEPT ![i] = {file}]
  /\ UNCHANGED <<now, rings, file>>

WriteSnapshot(i) ==
  /\ \E ring \in existing[i] : file' = Merge(rings[i], ring)
  /\ existing' = [existing EXCEPT ![i] = NotReading]
  /\ UNCHANGED <<now, rings>>

\* A fresh instance seeds its ring from the file (load_snapshot).
Load(i) ==
  /\ existing[i] = NotReading
  /\ rings' = [rings EXCEPT ![i] = Replace(file)]
  /\ UNCHANGED <<now, file, existing>>

Next ==
  \/ Clock
  \/ \E i \in Instances :
       ReadSnapshot(i) \/ WriteSnapshot(i) \/ Load(i)
  \/ \E i \in Instances, e \in Entries : Recede(i, e)

Spec == Init /\ [][Next]_vars

-----------------------------------------------------------------------------

\* One event is one line: no ring ever holds two entries of one event,
\* however the instances' stamps of it differ and whoever writes the file.
OneLinePerEvent ==
  \A ring \in {rings[i] : i \in Instances} \cup {file} :
    \A i, j \in DOMAIN ring : i # j => ~IsSameEvent(ring[i], ring[j])

\* The entry, or a later stamp of its event, is in the ring; or the ring is
\* full of entries at least as recent.
Kept(e, ring) ==
  \/ \E j \in DOMAIN ring : IsSameEvent(ring[j], e) /\ ring[j].at >= e.at
  \/ Len(ring) = LedgerCap /\ \A j \in DOMAIN ring : ring[j].at >= e.at

\* A write loses no completion of the file it read: what the file no longer
\* keeps was put there by another instance between the read and the rename
\* ("no instance's completions are lost on write", snapshot.rs, to_json).  The
\* writer's own are always published.
WritesKeepCompletions ==
  [][\A i \in Instances : existing[i] # NotReading /\ existing'[i] = NotReading =>
       /\ \A e \in Lines(rings[i]) : Kept(e, file')
       /\ \A e \in Lines(file) :
            Kept(e, file') \/ \A read \in existing[i] : e \notin Lines(read)]_vars

\* Two instances that write one after the other leave the same lines in an
\* empty file whichever goes first, except that equal stamps at the cut of a
\* full ring go by writer.
WriteOrderIsImmaterial ==
  \A i \in Instances : \A j \in Instances \ {i} :
    LET ij == Merge(rings[i], Merge(rings[j], <<>>))
        ji == Merge(rings[j], Merge(rings[i], <<>>))
    IN \A e \in Lines(ij) \ Lines(ji) :
         Len(ij) = LedgerCap /\ e.at = ij[LedgerCap].at
===============================================================================
