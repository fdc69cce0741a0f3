---------------------------- MODULE PeerSessions ----------------------------
(***************************************************************************)
(* What one rail shows of the other sessions, and switches to: the         *)
(* presence files it reads (read_peer_presences, remove_presences_matching *)
(* of session_files.rs), the badge and the Alt+[/] cycle (sessions.rs),    *)
(* and the steps of runtime.rs that drive them.                            *)
(*                                                                         *)
(* A file is named after its server, and carries the session's name: a     *)
(* session that was killed and made again under its name has two.  Time is *)
(* in units of a fraction of the heartbeat.  A live session writes within  *)
(* Heartbeat units of its last write (module PresenceWriter).              *)
(***************************************************************************)
EXTENDS Integers, Sequences, FiniteSets, SequencesExt

CONSTANTS
  Files,       \* the servers' presence files, but the reader's own
  NameOf,      \* the session name in each of them: names are numbers, in order
  Own,         \* the reader's own session name
  Follows,     \* <<f, g>>: the server of g started after that of f had died
  Heartbeat,   \* the longest a live session goes without a write
  ScanEvery,   \* the Slow cadence, on which every fire reads the files
  StaleAfter,  \* STALE_AFTER_SECS
  DeadAfter    \* DEAD_AFTER_SECS

Names == {NameOf[f] : f \in Files} \cup {Own}

PeerSessionsAssumption ==
  /\ NameOf \in [Files -> Nat] /\ Own \in Nat
  \* One server of a name after the other: a running session's name is taken.
  /\ IsFiniteSet(Files) /\ Follows \subseteq Files \X Files
  /\ \A f, g \in Files : NameOf[f] = NameOf[g] /\ f # g =>
       (<<f, g>> \in Follows <=> <<g, f>> \notin Follows)
  /\ \A f, g, h \in Files : <<f, g>> \in Follows /\ <<g, h>> \in Follows => <<f, h>> \in Follows
  /\ \A f \in Files : <<f, f>> \notin Follows
  /\ ScanEvery \in Nat \ {0} /\ ScanEvery <= StaleAfter
  /\ Heartbeat \in Nat \ {0} /\ StaleAfter \in Nat /\ DeadAfter \in Nat
  /\ Heartbeat <= DeadAfter /\ StaleAfter < DeadAfter

NoFile == -1
Nothing == [age |-> NoFile, attention |-> FALSE]
NoName == -1

VARIABLES
  lives,       \* what became of each server
  disk,        \* their files: age, and whether the session needs attention
  silent,      \* how long ago each live session wrote
  peers,       \* the rail's peers, by name
  picked,      \* the name the cycle has selected (selection)
  tapped,      \* taps_since_last_fire
  since,       \* units since the last timer fire
  doing,       \* the effects a fire or a dismissal left: a scan, names to unlink
  aimed,       \* history: the name last highlighted by a tap
  calm,        \* history: the fires since that tap
  went         \* the session a commit switched to

vars == <<lives, disk, silent, peers, picked, tapped, since, doing, aimed,
          calm, went>>

world == <<lives, disk, silent>>
cycling == <<picked, tapped, aimed, calm, went>>

AtRest == [scan |-> FALSE, unlink |-> {}]
Idle == doing = AtRest

Stale(p) == p.age > StaleAfter
Dead(p) == p.age > DeadAfter
Listed(n) == n \in Names \ {Own} /\ peers[n] # Nothing

-----------------------------------------------------------------------------
(* sessions.rs                                                             *)

\* Mutant: the names that died are judged file by file.
BestOfEach(n, age) ==
  IF \E f \in Files : NameOf[f] = n /\ age[f] # NoFile
    THEN CHOOSE f \in Files : NameOf[f] = n /\ age[f] # NoFile
    ELSE CHOOSE f \in Files : NameOf[f] = n

\* Files of one name collapse to the newest write (update_presences).
Best(n, age) ==
  CHOOSE f \in Files :
    /\ NameOf[f] = n
    /\ \A g \in Files : NameOf[g] = n /\ <<f, g>> \in Follows => age[g] = NoFile
    /\ age[f] = NoFile => \A g \in Files : NameOf[g] = n => age[g] = NoFile

\* Which names update_presences finds dead, and what it keeps of the others:
\* the age is graded after the collapse.
Read(n) == IF \E f \in Files : NameOf[f] = n
             THEN disk[Best(n, [f \in Files |-> disk[f].age])] ELSE Nothing

\* The fresh entries of the badge, in its order: the own session, then those
\* that need attention, then the rest (ordered).
Selectable(n) == n = Own \/ (Listed(n) /\ ~Stale(peers[n]))

Order ==
  LET rank(n) == IF n = Own THEN 0 ELSE IF peers[n].attention THEN 1 ELSE 2
  IN SetToSortSeq({n \in Names : Selectable(n)},
                  LAMBDA m, n : \/ rank(m) < rank(n)
                                \/ rank(m) = rank(n) /\ m < n)

\* cycle: from the selected name, if it is still there, else the first peer.
Step(dir) ==
  LET at == {k \in 1..Len(Order) : Order[k] = picked}
      k == CHOOSE k \in at : TRUE
  IN IF at # {} THEN Order[((k - 1 + dir) % Len(Order)) + 1]
     ELSE IF Len(Order) > 1 THEN Order[2] ELSE NoName

-----------------------------------------------------------------------------

Init ==
  /\ lives = [f \in Files |-> "unborn"]
  /\ disk = [f \in Files |-> Nothing]
  /\ silent = [f \in Files |-> 0]
  /\ peers = [n \in Names |-> Nothing]
  /\ picked = NoName /\ tapped = FALSE
  /\ since = 0
  /\ doing = AtRest
  /\ aimed = NoName /\ calm = 0
  /\ went = NoName

-----------------------------------------------------------------------------
(* The other sessions (external, but for what PresenceWriter shows).       *)

\* A session starts under its name, or writes: an edge or a heartbeat.
Publish(f, attention) ==
  /\ \/ lives[f] = "alive"
     \/ /\ lives[f] = "unborn"
        /\ \A g \in Files : <<g, f>> \in Follows => lives[g] = "killed"
  /\ lives' = [lives EXCEPT ![f] = "alive"]
  /\ disk' = [disk EXCEPT ![f] = [age |-> 0, attention |-> attention]]
  /\ silent' = [silent EXCEPT ![f] = 0]
  /\ UNCHANGED <<peers, since, doing, cycling>>

\* Its file stays where it is.
Kill(f) ==
  /\ lives[f] = "alive"
  /\ lives' = [lives EXCEPT ![f] = "killed"]
  /\ silent' = [silent EXCEPT ![f] = 0]
  /\ UNCHANGED <<disk, peers, since, doing, cycling>>

-----------------------------------------------------------------------------
(* The rail                                                                *)

\* control, SessionNext and SessionPrev.
Cycle(dir) ==
  /\ Idle
  /\ picked' = Step(dir)
  /\ tapped' = (picked' # NoName)
  /\ aimed' = picked' /\ calm' = 0
  /\ went' = NoName
  /\ UNCHANGED <<lives, disk, silent, peers, since, doing>>

\* Mutant: a tap right before a fire is committed by it.
CommitsAtOnce == picked # NoName

\* tick commits a selection once a whole interval between fires was quiet.
Commits == picked # NoName /\ ~tapped

\* timer: the commit is decided on what is known, before the scan it asks for.
Fire ==
  /\ Idle
  /\ tapped' = FALSE
  /\ picked' = IF Commits THEN NoName ELSE picked
  /\ went' = IF Commits /\ picked # Own /\ Selectable(picked) THEN picked
                                                              ELSE NoName
  /\ aimed' = IF Commits THEN NoName ELSE aimed
  /\ calm' = IF picked = NoName \/ Commits THEN 0 ELSE calm + 1
  /\ doing' = [doing EXCEPT !.scan = TRUE]
  /\ since' = 0
  /\ UNCHANGED <<lives, disk, silent, peers>>

\* ReadPresences and presences_changed: dead names leave the badge, and each
\* is to be unlinked.
Scan ==
  /\ doing.scan
  /\ peers' = [n \in Names |-> IF Dead(Read(n)) THEN Nothing ELSE Read(n)]
  /\ doing' = [scan |-> FALSE, unlink |-> {n \in Names : Dead(Read(n))}]
  /\ went' = NoName
  /\ UNCHANGED <<lives, disk, silent, picked, tapped, since, aimed, calm>>

\* mouse_right_click on a peer, while the badge says it is stale.
Dismiss(n) ==
  /\ Idle
  /\ Listed(n) /\ Stale(peers[n])
  /\ peers' = [peers EXCEPT ![n] = Nothing]
  /\ doing' = [doing EXCEPT !.unlink = {n}]
  /\ went' = NoName
  /\ UNCHANGED <<lives, disk, silent, picked, tapped, since, aimed, calm>>

\* DismissPresence: the files are read again, and those of the name removed,
\* whoever wrote them meanwhile.
Unlink(n) ==
  /\ ~doing.scan /\ n \in doing.unlink
  /\ disk' = [f \in Files |-> IF NameOf[f] = n THEN Nothing ELSE disk[f]]
  /\ doing' = [doing EXCEPT !.unlink = @ \ {n}]
  /\ went' = NoName
  /\ UNCHANGED <<lives, silent, peers, picked, tapped, since, aimed, calm>>

\* A unit of time passes once effects are done, while a live session still has
\* time to write, and the timer to fire: soon, if a selection is pending.
Elapse ==
  /\ Idle
  /\ \A f \in Files : silent[f] < Heartbeat
  /\ since < (IF picked # NoName THEN 1 ELSE ScanEvery)
  /\ since' = since + 1
  /\ silent' = [f \in Files |->
                  IF lives[f] = "alive" THEN silent[f] + 1 ELSE silent[f]]
  /\ disk' = [f \in Files |->
                IF disk[f].age \in {NoFile, DeadAfter + 1} THEN disk[f]
                ELSE [disk[f] EXCEPT !.age = @ + 1]]
  /\ went' = NoName
  /\ UNCHANGED <<lives, peers, doing, picked, tapped, aimed, calm>>

Session(f) == Kill(f) \/ \E attention \in BOOLEAN : Publish(f, attention)

Rail ==
  \/ Fire \/ Scan \/ \E n \in Names : Dismiss(n) \/ Unlink(n)
  \/ \E dir \in {1, -1} : Cycle(dir)

Next == Elapse \/ Rail \/ \E f \in Files : Session(f)

Spec == Init /\ [][Next]_vars

-----------------------------------------------------------------------------

Peers == [age : NoFile..(DeadAfter + 1), attention : BOOLEAN]

TypeOK ==
  /\ lives \in [Files -> {"unborn", "alive", "killed"}]
  /\ disk \in [Files -> Peers]
  /\ silent \in [Files -> 0..Heartbeat]
  /\ peers \in [Names -> Peers]
  /\ picked \in Names \cup {NoName} /\ aimed \in Names \cup {NoName}
  /\ tapped \in BOOLEAN /\ calm \in 0..1
  /\ since \in 0..ScanEvery
  /\ doing \in [scan : BOOLEAN, unlink : SUBSET Names]
  /\ went \in Names \cup {NoName}

\* A session is switched to only if it is the one the last tap highlighted, a
\* whole interval between two fires has passed since, and it is fresh by the
\* last look at the files: never a stale one, which Zellij would resurrect
\* "as an empty zombie" (cycle).
CommitIsDeliberate ==
  [][went' \notin {went, NoName} =>
       /\ went' = aimed /\ calm = 1
       /\ ~Stale(peers[went'])
       /\ \E f \in Files : NameOf[f] = went' /\ lives[f] # "unborn"]_vars

\* A fire that scanned leaves no live session off the badge, or dimmed there,
\* that has a file no older than a heartbeat can make it: a corpse under its
\* name neither hides nor kills it.
LivePeersAreListed ==
  [][doing.scan /\ ~doing'.scan => \A f \in Files :
       lives[f] = "alive" /\ NameOf[f] # Own /\ disk[f].age \in 0..StaleAfter
         => peers'[NameOf[f]] = disk[f] /\ NameOf[f] \notin doing'.unlink]_vars

==============================================================================
