------------------------ MODULE SetupAndIntakeProofs ------------------------
(***************************************************************************)
(* What is put in place for a rail, and what reaches it: the proofs about  *)
(* the command line's set-up, the configuration, and what is typed, sent   *)
(* and published on its way to a rail.                                     *)
(*                                                                         *)
(* Proofs about `setup', `update' and their uninstalls, for any bridge     *)
(* files, any texts of the user and any releases, with a failure or a kill *)
(* at every step: what the user wrote is kept, the managed alias has its   *)
(* wasm, an uninstall that reports no failure has cleared, and what an     *)
(* update leaves and what `run' launches is of one version.                *)
(*                                                                         *)
(* The invariant says what the steps still to come may do: Plain holds of  *)
(* a step wherever it waits, Ahead of the one or two a replacement puts at *)
(* the head, which alone may truncate a backup or take a file's place.     *)
(*                                                                         *)
(* Proofs about the tab namer, for any order of updates, calls, moves and  *)
(* reloads and any number of directories asked for at a time.  NamingInv   *)
(* is made of what the rail keeps while it handles an update (Sound), of   *)
(* what every update on its way says of the session (HeardInv), of what    *)
(* the rail is yet to be told (ToldInv), and of a name of the user's that  *)
(* it has seen (KeptInv).                                                  *)
(***************************************************************************)
EXTENDS MCSetup, MCIntake, SequenceTheorems, FiniteSetTheorems, WellFoundedInduction, TLAPS

Contents == {Absent, Empty} \cup {Text(u) : u \in Texts} \cup {Ours(v) : v \in Nat}

ZellijOps == {"refuse", "download", "refresh", "stage", "alias", "unalias", "layout", "unlayout"}
Steps ==
  [op : {"replace", "put"}, at : Targets, new : Contents]
  \cup [op : {"copy", "remove", "unback"}, at : Targets]
  \cup [op : ZellijOps \cup {"self"}]

Whats == {"wire", "unwire", "zellij", "rail", "unzellij", "self", "rewire"}
Calls == [what : Whats, ts : {Bridges, {Slot}, {}}, force : BOOLEAN, inject : BOOLEAN]

Jobs == [does : {"nothing", "install", "uninstall", "update"}, calls : Seq(Calls), steps : Seq(Steps),
         clean : BOOLEAN, moved : BOOLEAN, target : Nat, of : {{}, Bridges, {Slot}, {"rail"}}]

TypeOK ==
  /\ cli \in Nat \ {0} /\ latest \in Nat /\ wasm \in Nat
  /\ file \in [Targets -> Contents] /\ bak \in [Targets -> Contents] /\ mine \in [Targets -> Contents]
  /\ job \in Jobs

-----------------------------------------------------------------------------
(* The invariant                                                           *)

\* What a step may do wherever it waits in the queue, with `at' the files and
\* `last' what the user last wanted there.
Plain(s, at, last) ==
  /\ s.op # "copy"
  /\ s.op = "put" => s.at = Slot /\ s.new = last[Slot]
  /\ s.op = "replace" => s.new.by = "ours" \/ (s.at = Slot /\ s.new = last[Slot])
  /\ s.op = "remove" => s.at # Slot /\ at[s.at].by \in {"ours", "none"}

\* What stands at t may be written over.
Backed(t) == file[t].by = "ours" \/ (t # Slot /\ file[t] = Absent) \/ bak[t] = file[t]

\* The first k steps are what is left of a replacement.
Ahead(k) ==
  /\ k = 1 =>
       /\ job.steps # <<>> /\ job.steps[1].op = "put"
       /\ job.steps[1].new.by = "ours" /\ Backed(job.steps[1].at)
  /\ k = 2 =>
       /\ Len(job.steps) >= 2
       /\ job.steps[1].op = "copy" /\ bak[job.steps[1].at] = Empty
       /\ job.steps[2].op = "put" /\ job.steps[2].at = job.steps[1].at
       /\ \/ job.steps[2].new.by = "ours"
          \/ job.steps[2].at = Slot /\ job.steps[2].new = mine[Slot]

StepsInv == \E k \in 0 .. 2 : Ahead(k) /\ \A i \in (k + 1) .. Len(job.steps) : Plain(job.steps[i], file, mine)

\* A bridge file that is not the user's has their text in its backup.
BridgesInv ==
  \A t \in Bridges : mine[t].by = "user" =>
    file[t] = mine[t] \/ (bak[t] = mine[t] /\ file[t].by \in {"ours", "none"})

\* The slot holds what the user last had there, or our line over their notifier.
SlotInv ==
  /\ mine[Slot].by \in {"none", "user"}
  /\ mine[Slot] = IF file[Slot].by = "ours"
                    THEN IF bak[Slot].by = "user" THEN bak[Slot] ELSE Absent
                    ELSE file[Slot]

FilesInv == TypeOK /\ BridgesInv /\ SlotInv /\ StepsInv

\* Every alias in a queue comes after the wasm it names.
Staged(steps) ==
  \A i \in 1 .. Len(steps) : steps[i].op = "alias" => \E j \in 1 .. (i - 1) : steps[j].op = "stage"

\* The binary is replaced only by a call that was told with what.
AimInv ==
  /\ \A i \in 1 .. Len(job.steps) : job.steps[i].op = "self" => job.target # 0
  /\ \A i \in 1 .. Len(job.calls) : job.calls[i].what = "self" => job.target # 0

QueueInv == AimInv /\ (wasm # 0 \/ Staged(job.steps))

InstallInv == FilesInv /\ QueueInv /\ AliasHasWasm

\* What an uninstall still has to do about t, or about the sidebar.
Clearing == {"replace", "put", "remove"}
Owed(t) ==
  \/ \E i \in 1 .. Len(job.calls) : job.calls[i].what = "unwire" /\ t \in job.calls[i].ts
  \/ \E i \in 1 .. Len(job.steps) : job.steps[i].op \in Clearing /\ job.steps[i].at = t
OwedRail(op) ==
  \/ \E i \in 1 .. Len(job.calls) : job.calls[i].what = "unzellij"
  \/ \E i \in 1 .. Len(job.steps) : job.steps[i].op = op

\* A step of an uninstall, which writes nothing of ours.
Unmakes(s) ==
  /\ s.op \in Clearing \cup {"copy", "unback", "unalias", "unlayout"}
  /\ s.op \in {"replace", "put"} => s.new.by # "ours"

\* Of an uninstall in which nothing has failed, all that is ours yet is owed.
OwedInv ==
  /\ \A t \in job.of \cap Targets : file[t].by = "ours" => Owed(t)
  /\ "rail" \in job.of => /\ (alias = "ours" => OwedRail("unalias"))
                          /\ (layout \in {"injected", "whole"} => OwedRail("unlayout"))
ClearInv ==
  job.does = "uninstall" =>
    /\ \A i \in 1 .. Len(job.calls) : job.calls[i].what \in {"unwire", "unzellij"}
    /\ \A i \in 1 .. Len(job.steps) : Unmakes(job.steps[i])
    /\ job.clean => OwedInv

\* What an update still has to do about the wasm, the bridge file t, or both.
CallDue(what) == \E i \in 1 .. Len(job.calls) : job.calls[i].what = what
StepDue(ops) == \E i \in 1 .. Len(job.steps) : job.steps[i].op \in ops
WasmDue == CallDue("zellij") \/ StepDue({"stage", "refresh", "refuse"})
BridgeDue(t) ==
  \/ CallDue("rewire") \/ StepDue({"refuse"})
  \/ \E i \in 1 .. Len(job.calls) : job.calls[i].what = "wire" /\ t \in job.calls[i].ts
  \/ \E i \in 1 .. Len(job.steps) : job.steps[i].op \in {"replace", "put"} /\ job.steps[i].at = t

\* A step that writes a bridge file writes the release that was asked for.
OfTarget(s, v) == s.op \in {"replace", "put"} /\ s.at # Slot => s.new = Ours(v)

\* The binary is replaced at most once, before a rewiring; what is stale yet of
\* an update in which nothing has failed is due.
WholeInv ==
  job.does = "update" =>
    /\ job.target # 0
    /\ \A i \in 1 .. Len(job.calls) : job.calls[i].what = "self" =>
         i = 1 /\ job.steps = <<>> /\ ~job.moved /\ CallDue("rewire")
    /\ \A i \in 1 .. Len(job.steps) : job.steps[i].op = "self" =>
         Len(job.steps) = 1 /\ ~job.moved /\ ~CallDue("self") /\ CallDue("rewire")
    /\ job.moved => cli = job.target /\ \A i \in 1 .. Len(job.steps) : OfTarget(job.steps[i], job.target)
    /\ job.clean => wasm \in {0, job.target} \/ WasmDue
    /\ job.clean /\ job.moved =>
         \A t \in Bridges : file[t].by = "ours" => file[t] = Ours(job.target) \/ BridgeDue(t)

-----------------------------------------------------------------------------
(* Lemmas about sets, sequences and what may stand at a path               *)

\* A finite set listed as a sequence: every place holds an element, and every
\* element has a place.
LEMMA SetToSeqLists ==
  ASSUME NEW S, IsFiniteSet(S)
  PROVE  /\ Cardinality(S) \in Nat
         /\ SetToSeq(S) \in [1 .. Cardinality(S) -> S]
         /\ \A x \in S : \E i \in 1 .. Cardinality(S) : SetToSeq(S)[i] = x
<1> DEFINE n == Cardinality(S)
<1>1. n \in Nat /\ IsFiniteSet(1 .. n) /\ Cardinality(1 .. n) = n
  BY FS_CardinalityType, FS_Interval
<1>2. ExistsBijection(1 .. n, S)
  BY <1>1, FS_SameCardinalityBij
<1>3. PICK f \in [1 .. n -> S] : IsInjective(f)
  BY <1>2 DEF ExistsBijection, Bijection, Injection
<1>4. SetToSeq(S) \in [1 .. n -> S] /\ IsInjective(SetToSeq(S))
  BY <1>3 DEF SetToSeq
<1>5. SetToSeq(S) \in Injection(1 .. n, S)
  BY <1>4 DEF Injection
<1>6. SetToSeq(S) \in Surjection(1 .. n, S)
  BY <1>1, <1>5, FS_Injection
<1> QED
  BY <1>1, <1>4, <1>6 DEF Surjection

\* Who wrote what stands at a path.
LEMMA ContentsParts ==
  ASSUME NEW c \in Contents
  PROVE  /\ c.by \in {"none", "nobody", "user", "ours"}
         /\ c.by = "none" <=> c = Absent
         /\ c.by = "nobody" <=> c = Empty
BY DEF Contents, Absent, Empty, Text, Ours

\* The contents there are, by who wrote them.
LEMMA ContentsHas ==
  /\ Absent \in Contents /\ Empty \in Contents
  /\ Absent.by = "none" /\ Empty.by = "nobody"
  /\ \A v \in Nat : Ours(v) \in Contents /\ Ours(v).by = "ours"
  /\ \A u \in Texts : Text(u) \in Contents /\ Text(u).by = "user"
BY DEF Contents, Absent, Empty, Text, Ours

\* What is left when a step is done: the steps it leaves, then the others.
LEMMA ThenSteps ==
  ASSUME TypeOK, job.steps # <<>>, NEW new \in Seq(Steps), Then(new)
  PROVE  /\ job' \in Jobs
         /\ job' = [job EXCEPT !.steps = job'.steps]
         /\ Len(job.steps) \in Nat /\ Len(job.steps) > 0 /\ Len(new) \in Nat
         /\ Head(job.steps) = job.steps[1] /\ Head(job.steps) \in Steps
         /\ Len(job'.steps) = Len(new) + Len(job.steps) - 1
         /\ \A i \in 1 .. Len(new) : job'.steps[i] = new[i]
         /\ \A i \in (Len(new) + 1) .. Len(job'.steps) :
              /\ i - Len(new) + 1 \in 2 .. Len(job.steps)
              /\ job'.steps[i] = job.steps[i - Len(new) + 1]
<1>1. job \in Jobs /\ job.steps \in Seq(Steps)
  BY DEF TypeOK, Jobs
<1>2. /\ Tail(job.steps) \in Seq(Steps) /\ Head(job.steps) \in Steps
      /\ Head(job.steps) = job.steps[1]
      /\ Len(Tail(job.steps)) = Len(job.steps) - 1
      /\ \A i \in 1 .. Len(Tail(job.steps)) : Tail(job.steps)[i] = job.steps[i + 1]
  BY <1>1, HeadTailProperties
<1>3. Len(job.steps) \in Nat /\ Len(job.steps) > 0 /\ Len(new) \in Nat
  BY <1>1, EmptySeq, LenProperties
<1>4. job' = [job EXCEPT !.steps = new \o Tail(job.steps)]
  BY DEF Then
<1>5. job'.steps = new \o Tail(job.steps)
  BY <1>1, <1>4 DEF Jobs
<1>6. /\ job'.steps \in Seq(Steps)
      /\ Len(job'.steps) = Len(new) + Len(job.steps) - 1
      /\ \A i \in 1 .. Len(job'.steps) :
           job'.steps[i] = IF i <= Len(new) THEN new[i] ELSE Tail(job.steps)[i - Len(new)]
  BY <1>2, <1>3, <1>5, ConcatProperties
<1>7. job' \in Jobs
  BY <1>1, <1>4, <1>5, <1>6 DEF Jobs
<1>8. \A i \in (Len(new) + 1) .. Len(job'.steps) :
        /\ i - Len(new) + 1 \in 2 .. Len(job.steps)
        /\ job'.steps[i] = job.steps[i - Len(new) + 1]
  BY <1>2, <1>3, <1>6
<1> QED
  BY <1>1, <1>2, <1>3, <1>4, <1>5, <1>6, <1>7, <1>8

\* No step takes the place of the head.
LEMMA ThenNone ==
  ASSUME TypeOK, job.steps # <<>>, Then(<<>>)
  PROVE  /\ job' \in Jobs /\ Len(job.steps) \in Nat /\ Len(job'.steps) = Len(job.steps) - 1
         /\ \A i \in 1 .. Len(job'.steps) : i + 1 \in 2 .. Len(job.steps) /\ job'.steps[i] = job.steps[i + 1]
<1> DEFINE new == <<>>
<1>1. new \in Seq(Steps) /\ Len(new) = 0 /\ Then(new)
  OBVIOUS
<1> HIDE DEF new
<1>2. /\ job' \in Jobs /\ Len(job.steps) \in Nat /\ Len(job.steps) > 0
      /\ Len(job'.steps) = Len(new) + Len(job.steps) - 1
      /\ \A i \in 1 .. Len(new) : job'.steps[i] = new[i]
  BY <1>1, ThenSteps
<1>3. Len(job'.steps) = Len(job.steps) - 1
  BY <1>1, <1>2
<1>4. ASSUME NEW i \in 1 .. Len(job'.steps)
      PROVE  i + 1 \in 2 .. Len(job.steps) /\ job'.steps[i] = job.steps[i + 1]
  <2>1. i \in (Len(new) + 1) .. Len(job'.steps) /\ i - Len(new) + 1 = i + 1
    BY <1>1, <1>2, <1>3
  <2> QED
    BY <1>1, <2>1, ThenSteps
<1> QED
  BY <1>2, <1>3, <1>4

\* One step takes the place of the head.
LEMMA ThenOne ==
  ASSUME TypeOK, job.steps # <<>>, NEW s \in Steps, Then(<<s>>)
  PROVE  /\ job' \in Jobs /\ Len(job.steps) \in Nat /\ Len(job.steps) > 0
         /\ Len(job'.steps) = Len(job.steps) /\ job'.steps[1] = s
         /\ \A i \in 2 .. Len(job'.steps) : job'.steps[i] = job.steps[i]
<1> DEFINE new == <<s>>
<1>1. new \in Seq(Steps) /\ Len(new) = 1 /\ new[1] = s /\ Then(new)
  OBVIOUS
<1> HIDE DEF new
<1>2. /\ job' \in Jobs /\ Len(job.steps) \in Nat /\ Len(job.steps) > 0
      /\ Len(job'.steps) = Len(new) + Len(job.steps) - 1
      /\ \A i \in 1 .. Len(new) : job'.steps[i] = new[i]
  BY <1>1, ThenSteps
<1>3. Len(job'.steps) = Len(job.steps) /\ job'.steps[1] = s
  BY <1>1, <1>2
<1>4. ASSUME NEW i \in 2 .. Len(job'.steps)
      PROVE  i \in 2 .. Len(job.steps) /\ job'.steps[i] = job.steps[i]
  <2>1. i \in (Len(new) + 1) .. Len(job'.steps) /\ i - Len(new) + 1 = i
    BY <1>1, <1>2, <1>3
  <2> QED
    BY <1>1, <2>1, ThenSteps
<1> QED
  BY <1>2, <1>3, <1>4

\* Two steps take the place of the head.
LEMMA ThenTwo ==
  ASSUME TypeOK, job.steps # <<>>, NEW s \in Steps, NEW r \in Steps, Then(<<s, r>>)
  PROVE  /\ job' \in Jobs /\ Len(job.steps) \in Nat /\ Len(job.steps) > 0
         /\ Len(job'.steps) = Len(job.steps) + 1 /\ job'.steps[1] = s /\ job'.steps[2] = r
         /\ \A i \in 3 .. Len(job'.steps) : i - 1 \in 2 .. Len(job.steps) /\ job'.steps[i] = job.steps[i - 1]
<1> DEFINE new == <<s, r>>
<1>1. new \in Seq(Steps) /\ Len(new) = 2 /\ new[1] = s /\ new[2] = r /\ Then(new)
  OBVIOUS
<1> HIDE DEF new
<1>2. /\ job' \in Jobs /\ Len(job.steps) \in Nat /\ Len(job.steps) > 0
      /\ Len(job'.steps) = Len(new) + Len(job.steps) - 1
      /\ \A i \in 1 .. Len(new) : job'.steps[i] = new[i]
  BY <1>1, ThenSteps
<1>3. Len(job'.steps) = Len(job.steps) + 1 /\ job'.steps[1] = s /\ job'.steps[2] = r
  BY <1>1, <1>2
<1>4. ASSUME NEW i \in 3 .. Len(job'.steps)
      PROVE  i - 1 \in 2 .. Len(job.steps) /\ job'.steps[i] = job.steps[i - 1]
  <2>1. i \in (Len(new) + 1) .. Len(job'.steps) /\ i - Len(new) + 1 = i - 1
    BY <1>1, <1>2, <1>3
  <2> QED
    BY <1>1, <2>1, ThenSteps
<1> QED
  BY <1>2, <1>3, <1>4

\* What stands in a concatenation stands in one of its halves.
LEMMA ConcatParts ==
  ASSUME NEW S, NEW a \in Seq(S), NEW b \in Seq(S), NEW c, c = a \o b
  PROVE  /\ c \in Seq(S)
         /\ \A i \in 1 .. Len(c) : \/ \E j \in 1 .. Len(a) : c[i] = a[j]
                                   \/ \E j \in 1 .. Len(b) : c[i] = b[j]
<1>1. /\ c \in Seq(S) /\ Len(c) = Len(a) + Len(b) /\ Len(a) \in Nat /\ Len(b) \in Nat
      /\ \A i \in 1 .. Len(c) : c[i] = IF i <= Len(a) THEN a[i] ELSE b[i - Len(a)]
  BY ConcatProperties, LenProperties
<1>2. ASSUME NEW i \in 1 .. Len(c)
      PROVE  (\E j \in 1 .. Len(a) : c[i] = a[j]) \/ (\E j \in 1 .. Len(b) : c[i] = b[j])
  <2>1. CASE i <= Len(a)
    BY <1>1, <2>1
  <2>2. CASE ~(i <= Len(a))
    <3>1. i - Len(a) \in 1 .. Len(b) /\ c[i] = b[i - Len(a)]
      BY <1>1, <2>2
    <3> QED
      BY <3>1
  <2> QED
    BY <2>1, <2>2
<1> QED
  BY <1>1, <1>2

\* A concatenation begins as its first half does.
LEMMA ConcatHead ==
  ASSUME NEW S, NEW a \in Seq(S), NEW b \in Seq(S), Len(a) = 1
  PROVE  1 \in 1 .. Len(a \o b) /\ (a \o b)[1] = a[1]
<1> DEFINE c == a \o b
<1>1. /\ Len(c) = Len(a) + Len(b) /\ Len(b) \in Nat
      /\ \A i \in 1 .. Len(c) : c[i] = IF i <= Len(a) THEN a[i] ELSE b[i - Len(a)]
  BY ConcatProperties, LenProperties
<1> HIDE DEF c
<1>2. 1 \in 1 .. Len(c)
  BY <1>1
<1> QED
  BY <1>1, <1>2 DEF c

-----------------------------------------------------------------------------
(* What a call plans                                                       *)

SidebarQueues == {steps \in Seq([op : ZellijOps]) : Staged(steps)}

\* Two queues of the sidebar, one after the other, are one.
LEMMA SidebarConcat ==
  ASSUME NEW a \in SidebarQueues, NEW b \in SidebarQueues
  PROVE  a \o b \in SidebarQueues
<1> DEFINE Z == [op : ZellijOps]
           c == a \o b
<1> HIDE DEF Z
<1>1. a \in Seq(Z) /\ b \in Seq(Z) /\ Staged(a) /\ Staged(b)
  BY DEF SidebarQueues, Z
<1>2. /\ c \in Seq(Z) /\ Len(c) = Len(a) + Len(b) /\ Len(a) \in Nat /\ Len(b) \in Nat
      /\ \A i \in 1 .. Len(c) : c[i] = IF i <= Len(a) THEN a[i] ELSE b[i - Len(a)]
  BY <1>1, ConcatProperties, LenProperties
<1> HIDE DEF c
<1>3. ASSUME NEW i \in 1 .. Len(c), c[i].op = "alias"
      PROVE  \E j \in 1 .. (i - 1) : c[j].op = "stage"
  <2>1. CASE i <= Len(a)
    <3>1. PICK j \in 1 .. (i - 1) : a[j].op = "stage"
      BY <1>1, <1>2, <1>3, <2>1 DEF Staged
    <3> QED
      BY <1>2, <2>1, <3>1
  <2>2. CASE ~(i <= Len(a))
    <3>1. i - Len(a) \in 1 .. Len(b) /\ b[i - Len(a)].op = "alias"
      BY <1>2, <1>3, <2>2
    <3>2. PICK j \in 1 .. (i - Len(a) - 1) : b[j].op = "stage"
      BY <1>1, <3>1 DEF Staged
    <3>3. j + Len(a) \in 1 .. (i - 1) /\ j + Len(a) \in 1 .. Len(c) /\ ~(j + Len(a) <= Len(a)) /\ j + Len(a) - Len(a) = j
      BY <1>2, <3>1, <3>2
    <3>4. c[j + Len(a)] = b[j]
      BY <1>2, <3>3
    <3> QED
      BY <3>2, <3>3, <3>4
  <2> QED
    BY <2>1, <2>2
<1> QED
  BY <1>2, <1>3 DEF SidebarQueues, Staged, Z, c

\* The steps of a call on the sidebar's files touch no file of an agent, and
\* write the alias after the wasm.
LEMMA ZellijSteps ==
  ASSUME NEW source \in BOOLEAN, NEW force \in BOOLEAN, NEW inject \in BOOLEAN
  PROVE  /\ SetupZellij(source, force, inject) \in SidebarQueues
         /\ UnsetupZellij \in SidebarQueues
<1>1. <<>> \in SidebarQueues /\ \A op \in ZellijOps \ {"alias"} : <<[op |-> op]>> \in SidebarQueues
  BY DEF SidebarQueues, Staged
<1>2. Adopt \in SidebarQueues
  <2>1. Adopt \in Seq([op : ZellijOps]) /\ Len(Adopt) = 2 /\ Adopt[1].op = "stage"
    BY DEF Adopt, ZellijOps
  <2> QED
    BY <2>1 DEF SidebarQueues, Staged, Adopt
<1>3. /\ <<[op |-> "layout"]>> \in SidebarQueues /\ <<[op |-> "download"]>> \in SidebarQueues
      /\ <<[op |-> "refresh"]>> \in SidebarQueues /\ <<[op |-> "refuse"]>> \in SidebarQueues
      /\ <<[op |-> "unalias"]>> \in SidebarQueues /\ <<[op |-> "unlayout"]>> \in SidebarQueues
  BY <1>1 DEF ZellijOps
<1>4. SetupZellij(source, force, inject) \in SidebarQueues
  BY <1>1, <1>2, <1>3, SidebarConcat DEF SetupZellij
<1>5. UnsetupZellij \in SidebarQueues
  BY <1>1, <1>3, SidebarConcat DEF UnsetupZellij
<1> QED
  BY <1>4, <1>5

\* What an install of the files ts plans is refused, or writes what is embedded
\* wherever something else stands.
Embeds(w, ts) ==
  /\ \A i \in 1 .. Len(w) : w[i].op = "replace" => w[i].new = Embedded(w[i].at)
  /\ \A t \in ts : \/ file[t] = Embedded(t)
                   \/ \E i \in 1 .. Len(w) : w[i].op = "refuse" \/ (w[i].op = "replace" /\ w[i].at = t)

\* Every step an install plans is our own text; it is refused as a unit.
LEMMA WiringSteps ==
  ASSUME TypeOK, NEW ts \in {Bridges, {Slot}, {}}, NEW force \in BOOLEAN
  PROVE  /\ Wiring(ts, force) \in Seq(Steps)
         /\ \A i \in 1 .. Len(Wiring(ts, force)) :
              /\ Plain(Wiring(ts, force)[i], file, mine)
              /\ Wiring(ts, force)[i].op \in {"replace", "refuse"}
         /\ Embeds(Wiring(ts, force), ts)
<1> USE InstallerAssumption
<1> DEFINE towrite == {t \in ts : PlanInstall(t, force) = "write"}
           n == Cardinality(towrite)
           w == [i \in 1 .. n |-> Install(SetToSeq(towrite)[i])]
<1>1. CASE \E t \in ts : PlanInstall(t, force) = "refuse"
  <2>1. Wiring(ts, force) = <<[op |-> "refuse"]>>
    BY <1>1 DEF Wiring
  <2>2. [op |-> "refuse"] \in Steps /\ Len(Wiring(ts, force)) = 1
    BY <2>1 DEF Steps, ZellijOps
  <2> QED
    BY <2>1, <2>2 DEF Plain, Embeds
<1>2. CASE ~\E t \in ts : PlanInstall(t, force) = "refuse"
  <2>1. Wiring(ts, force) = w
    BY <1>2 DEF Wiring
  <2>2. IsFiniteSet(towrite)
    BY FS_EmptySet, FS_Singleton, FS_Subset
  <2>3. /\ n \in Nat /\ \A i \in 1 .. n : SetToSeq(towrite)[i] \in Targets
        /\ \A t \in towrite : \E i \in 1 .. n : SetToSeq(towrite)[i] = t
    BY <2>2, SetToSeqLists DEF Targets
  <2>4. \A t \in Targets : /\ Install(t) \in Steps /\ Plain(Install(t), file, mine)
                          /\ Install(t).op = "replace" /\ Install(t).at = t /\ Install(t).new = Embedded(t)
    <3> SUFFICES ASSUME NEW t \in Targets
                 PROVE  /\ Install(t) \in Steps /\ Plain(Install(t), file, mine)
                        /\ Install(t).op = "replace" /\ Install(t).at = t /\ Install(t).new = Embedded(t)
      OBVIOUS
    <3>1. Embedded(t) \in Contents /\ Embedded(t).by = "ours"
      BY ContentsHas DEF Embedded, TypeOK
    <3>2. Install(t) = [op |-> "replace", at |-> t, new |-> Embedded(t)]
      BY DEF Install
    <3>3. Install(t) \in Steps
      BY <3>1, <3>2 DEF Steps
    <3>4. Install(t).op = "replace" /\ Install(t).at = t /\ Install(t).new = Embedded(t)
      BY <3>2
    <3>5. Plain(Install(t), file, mine)
      BY <3>1, <3>4 DEF Plain
    <3> QED
      BY <3>3, <3>4, <3>5
  <2>5. w \in Seq(Steps) /\ Len(w) = n /\ \A i \in 1 .. n : w[i] = Install(SetToSeq(towrite)[i])
    BY <2>3, <2>4, IsASeq
  <2>6. ASSUME NEW t \in ts
        PROVE  file[t] = Embedded(t) \/ \E i \in 1 .. n : w[i].op = "replace" /\ w[i].at = t
    <3>1. file[t] = Embedded(t) \/ t \in towrite
      BY <1>2, <2>6 DEF PlanInstall
    <3>2. t \in Targets
      BY <2>6 DEF Targets
    <3>3. CASE t \in towrite
      <4>1. PICK i \in 1 .. n : SetToSeq(towrite)[i] = t
        BY <2>3, <3>3
      <4> QED
        BY <2>4, <2>5, <3>2, <4>1
    <3> QED
      BY <3>1, <3>3
  <2> HIDE DEF w, n, towrite
  <2>7. Embeds(w, ts)
    BY <2>3, <2>4, <2>5, <2>6 DEF Embeds
  <2> QED
    BY <2>1, <2>3, <2>4, <2>5, <2>7
<1> QED
  BY <1>1, <1>2

\* A call that stages the sidebar has a step that puts the wasm in place, or
\* one that is refused.
LEMMA ZellijStages ==
  ASSUME NEW force \in BOOLEAN, NEW inject \in BOOLEAN
  PROVE  \E i \in 1 .. Len(SetupZellij(TRUE, force, inject)) :
           SetupZellij(TRUE, force, inject)[i].op \in {"stage", "refresh", "refuse"}
<1> DEFINE Z == [op : ZellijOps]
           Stages(q) == \E i \in 1 .. Len(q) : q[i].op \in {"stage", "refresh", "refuse"}
<1>1. ASSUME NEW a \in Seq(Z), NEW b \in Seq(Z), Stages(a) \/ Stages(b)
      PROVE  Stages(a \o b)
  <2> DEFINE c == a \o b
  <2>1. /\ Len(c) = Len(a) + Len(b) /\ Len(a) \in Nat /\ Len(b) \in Nat
        /\ \A i \in 1 .. Len(c) : c[i] = IF i <= Len(a) THEN a[i] ELSE b[i - Len(a)]
    BY ConcatProperties, LenProperties
  <2> HIDE DEF c
  <2>2. CASE Stages(a)
    BY <2>1, <2>2
  <2>3. CASE Stages(b)
    <3>1. PICK i \in 1 .. Len(b) : b[i].op \in {"stage", "refresh", "refuse"}
      BY <2>3
    <3>2. i + Len(a) \in 1 .. Len(c) /\ ~(i + Len(a) <= Len(a)) /\ i + Len(a) - Len(a) = i
      BY <2>1
    <3>3. c[i + Len(a)] = b[i]
      BY <2>1, <3>2
    <3> QED
      BY <3>1, <3>2, <3>3
  <2> QED
    BY <1>1, <2>2, <2>3 DEF c
<1> DEFINE fetch == <<[op |-> "download"]>>
           fresh == <<[op |-> "refresh"]>>
           refuse == <<[op |-> "refuse"]>>
           lines == IF inject THEN <<[op |-> "layout"]>> ELSE <<>>
<1>2. fetch \in Seq(Z) /\ fresh \in Seq(Z) /\ refuse \in Seq(Z) /\ lines \in Seq(Z) /\ Adopt \in Seq(Z)
  <2>1. fetch \in Seq(Z) /\ fresh \in Seq(Z) /\ refuse \in Seq(Z)
    BY DEF ZellijOps
  <2>2. lines \in Seq(Z)
    <3>1. <<[op |-> "layout"]>> \in Seq(Z) /\ <<>> \in Seq(Z)
      BY DEF ZellijOps
    <3> QED
      BY <3>1
  <2>3. Adopt \in Seq(Z)
    BY DEF ZellijOps, Adopt
  <2> QED
    BY <2>1, <2>2, <2>3
<1>6. Stages(fresh) /\ Stages(refuse)
  <2>1. Len(fresh) = 1 /\ fresh[1].op = "refresh" /\ Len(refuse) = 1 /\ refuse[1].op = "refuse"
    OBVIOUS
  <2> HIDE DEF fresh, refuse
  <2> QED
    BY <2>1
<1>3. Stages(Adopt)
  <2>1. Len(Adopt) = 2 /\ Adopt[1].op = "stage"
    BY DEF Adopt
  <2> QED
    BY <2>1
<1>4. SetupZellij(TRUE, force, inject) \in
        {fetch \o fresh, (fetch \o fresh) \o lines, fetch \o (fresh \o lines), fetch \o refuse, (fetch \o Adopt) \o lines}
  BY DEF SetupZellij, HandOwned
<1> HIDE DEF fetch, fresh, refuse, lines, Z, Stages
<1>5. /\ Stages(fetch \o fresh) /\ Stages((fetch \o fresh) \o lines) /\ Stages(fetch \o (fresh \o lines))
      /\ Stages(fetch \o refuse) /\ Stages((fetch \o Adopt) \o lines)
  BY <1>1, <1>2, <1>3, <1>6, ConcatProperties
<1> QED
  BY <1>4, <1>5 DEF Stages

\* Every step an uninstall plans removes what is ours, or gives the slot back.
LEMMA UnwiringSteps ==
  ASSUME FilesInv, NEW ts \in {Bridges, {Slot}, {}}
  PROVE  /\ Unwiring(ts) \in Seq(Steps)
         /\ \A i \in 1 .. Len(Unwiring(ts)) :
              /\ Plain(Unwiring(ts)[i], file, mine)
              /\ Unwiring(ts)[i].op \in {"put", "replace"} => Unwiring(ts)[i].new.by # "ours"
              /\ Unwiring(ts)[i].op \in {"put", "replace", "remove"}
         /\ \A t \in ts : file[t].by = "ours" =>
              \E i \in 1 .. Len(Unwiring(ts)) : Unwiring(ts)[i].at = t
<1> USE InstallerAssumption
<1> DEFINE gone == {t \in ts : file[t].by = "ours"}
           n == Cardinality(gone)
           w == [i \in 1 .. n |-> Unwire(SetToSeq(gone)[i])]
<1>1. Unwiring(ts) = w
  BY DEF Unwiring
<1>2. IsFiniteSet(gone)
  BY FS_EmptySet, FS_Singleton, FS_Subset
<1>3. /\ n \in Nat /\ \A i \in 1 .. n : SetToSeq(gone)[i] \in gone
      /\ \A t \in gone : \E i \in 1 .. n : SetToSeq(gone)[i] = t
  BY <1>2, SetToSeqLists
<1>4. ASSUME NEW t \in gone
      PROVE  /\ Unwire(t) \in Steps /\ Plain(Unwire(t), file, mine) /\ Unwire(t).at = t
             /\ Unwire(t).op \in {"put", "replace", "remove"}
             /\ Unwire(t).op \in {"put", "replace"} => Unwire(t).new.by # "ours"
  <2>1. t \in Targets /\ file[t].by = "ours" /\ file[t] \in Contents /\ bak[t] \in Contents
    BY DEF Targets, FilesInv, TypeOK
  <2>2. CASE t = Slot /\ Foreign(t, bak[t])
    <3>1. Unwire(t) = [op |-> "put", at |-> t, new |-> bak[t]]
      BY <2>2 DEF Unwire
    <3>2. bak[t].by = "user" /\ bak[t] = mine[Slot]
      BY <2>1, <2>2 DEF Foreign, FilesInv, SlotInv
    <3> QED
      BY <2>1, <2>2, <3>1, <3>2 DEF Steps, Plain
  <2>3. CASE t = Slot /\ ~Foreign(t, bak[t])
    <3>1. Unwire(t) = [op |-> "replace", at |-> t, new |-> Absent]
      BY <2>3 DEF Unwire
    <3>2. mine[Slot] = Absent
      BY <2>1, <2>3 DEF Foreign, FilesInv, SlotInv
    <3> QED
      BY <2>1, <2>3, <3>1, <3>2, ContentsHas DEF Steps, Plain
  <2>4. CASE t # Slot
    <3>1. Unwire(t) = [op |-> "remove", at |-> t]
      BY <2>4 DEF Unwire
    <3> QED
      BY <2>1, <2>4, <3>1 DEF Steps, Plain
  <2> QED
    BY <2>2, <2>3, <2>4
<1>5. w \in Seq(Steps) /\ Len(w) = n /\ \A i \in 1 .. n : w[i] = Unwire(SetToSeq(gone)[i])
  BY <1>3, <1>4, IsASeq
<1> QED
  BY <1>1, <1>3, <1>4, <1>5

\* Whatever is planned may wait in the queue; only its own call plans to
\* replace the binary.
LEMMA PlannedPlain ==
  ASSUME FilesInv, NEW c \in Calls
  PROVE  /\ Planned(c) \in Seq(Steps) /\ Staged(Planned(c))
         /\ \A i \in 1 .. Len(Planned(c)) : /\ Plain(Planned(c)[i], file, mine)
                                            /\ Planned(c)[i].op = "self" => c.what = "self"
<1>1. /\ c.what \in Whats /\ c.ts \in {Bridges, {Slot}, {}} /\ c.force \in BOOLEAN /\ c.inject \in BOOLEAN
  BY DEF Calls
<1>2. ASSUME NEW z \in SidebarQueues
      PROVE  /\ z \in Seq(Steps) /\ Staged(z)
             /\ \A i \in 1 .. Len(z) : Plain(z[i], file, mine) /\ z[i].op # "self"
  <2>1. [op : ZellijOps] \subseteq Steps /\ z \in Seq([op : ZellijOps])
    BY DEF Steps, SidebarQueues
  <2>2. z \in Seq(Steps)
    BY <2>1, SeqMonotonic
  <2>3. \A i \in 1 .. Len(z) : z[i] \in [op : ZellijOps]
    BY <2>1, ElementOfSeq
  <2>4. \A i \in 1 .. Len(z) : z[i].op \in ZellijOps
    BY <2>3
  <2> QED
    BY <2>2, <2>4 DEF Plain, ZellijOps, SidebarQueues
<1>3. CASE c.what = "wire"
  <2>1. Planned(c) = Wiring(c.ts, c.force)
    BY <1>3 DEF Planned
  <2> QED
    <3> DEFINE w == Wiring(c.ts, c.force)
    <3>1. /\ w \in Seq(Steps)
          /\ \A i \in 1 .. Len(w) : Plain(w[i], file, mine) /\ w[i].op \in {"replace", "refuse"}
      BY <1>1, WiringSteps DEF FilesInv
    <3> HIDE DEF w
    <3>2. Staged(w)
      BY <3>1 DEF Staged
    <3> QED
      BY <2>1, <3>1, <3>2 DEF w
<1>4. CASE c.what = "unwire"
  <2>1. Planned(c) = Unwiring(c.ts)
    BY <1>4 DEF Planned
  <2> QED
    BY <1>1, <2>1, UnwiringSteps DEF Staged
<1>5. CASE c.what = "zellij"
  <2>1. Planned(c) = SetupZellij(TRUE, c.force, c.inject)
    BY <1>5 DEF Planned
  <2> QED
    BY <1>1, <1>2, <2>1, ZellijSteps
<1>6. CASE c.what = "rail"
  <2>1. Planned(c) = SetupZellij(FALSE, c.force, c.inject)
    BY <1>6 DEF Planned
  <2> QED
    BY <1>1, <1>2, <2>1, ZellijSteps
<1>7. CASE c.what = "unzellij"
  <2>1. Planned(c) = UnsetupZellij
    BY <1>7 DEF Planned
  <2> QED
    BY <1>2, <2>1, ZellijSteps
<1>8. CASE c.what = "self"
  <2>1. Planned(c) = <<[op |-> "self"]>>
    BY <1>8 DEF Planned
  <2>2. [op |-> "self"] \in Steps /\ Len(Planned(c)) = 1
    BY <2>1 DEF Steps
  <2> QED
    BY <1>8, <2>1, <2>2 DEF Plain, Staged
<1>9. CASE c.what = "rewire"
  <2>1. Planned(c) = <<>>
    BY <1>9 DEF Planned
  <2> QED
    BY <2>1 DEF Staged
<1> QED
  BY <1>1, <1>3, <1>4, <1>5, <1>6, <1>7, <1>8, <1>9 DEF Whats

-----------------------------------------------------------------------------
(* The steps                                                               *)

\* What waits plainly goes on waiting plainly while the bridge files that are
\* ours or gone stay so.
LEMMA PlainStays ==
  ASSUME mine' = mine, \A t \in Bridges : file[t].by \in {"ours", "none"} => file'[t].by \in {"ours", "none"},
         NEW s \in Steps, Plain(s, file, mine)
  PROVE  Plain(s, file', mine')
<1>1. s.op = "remove" => s.at \in Targets
  BY DEF Steps, ZellijOps
<1> QED
  BY <1>1 DEF Plain, Targets

\* A step that leaves nothing at the head leaves a queue of plain steps.
LEMMA PlainRest ==
  ASSUME TypeOK, StepsInv, job.steps # <<>>, NEW i \in 2 .. Len(job.steps),
         i = 2 => job.steps[1].op # "copy"
  PROVE  job.steps[i] \in Steps /\ Plain(job.steps[i], file, mine)
<1>1. job.steps \in Seq(Steps)
  BY DEF TypeOK, Jobs
<1>2. job.steps[i] \in Steps
  BY <1>1, ElementOfSeq, LenProperties
<1> QED
  BY <1>2 DEF StepsInv, Ahead

\* A step of any other kind than copy or put is plain at the head too.
LEMMA PlainHead ==
  ASSUME TypeOK, StepsInv, job.steps # <<>>, Head(job.steps).op \notin {"copy", "put"}
  PROVE  Head(job.steps) \in Steps /\ Plain(Head(job.steps), file, mine)
<1>1. job.steps \in Seq(Steps)
  BY DEF TypeOK, Jobs
<1>2. Head(job.steps) = job.steps[1] /\ Head(job.steps) \in Steps /\ Len(job.steps) \in Nat /\ Len(job.steps) >= 1
  BY <1>1, HeadTailProperties, LenProperties, EmptySeq
<1> QED
  BY <1>2 DEF StepsInv, Ahead

\* With no copy or put at the head the whole queue is plain, and so is what is
\* left of it behind steps that are plain too.
LEMMA PlainQueue ==
  ASSUME TypeOK, StepsInv, job.steps # <<>>, Head(job.steps).op # "copy", NEW new \in Seq(Steps), Then(new),
         mine' = mine, \A t \in Bridges : file[t].by \in {"ours", "none"} => file'[t].by \in {"ours", "none"},
         \A i \in 1 .. Len(new) : Plain(new[i], file', mine')
  PROVE  StepsInv'
<1>1. /\ Len(job.steps) \in Nat /\ Head(job.steps) = job.steps[1]
      /\ Len(job'.steps) \in Nat /\ Len(new) \in Nat
      /\ \A i \in 1 .. Len(new) : job'.steps[i] = new[i]
      /\ \A i \in (Len(new) + 1) .. Len(job'.steps) :
              /\ i - Len(new) + 1 \in 2 .. Len(job.steps)
              /\ job'.steps[i] = job.steps[i - Len(new) + 1]
  BY ThenSteps
<1>2. \A i \in 2 .. Len(job.steps) : job.steps[i] \in Steps /\ Plain(job.steps[i], file, mine)
  BY <1>1, PlainRest
<1>3. \A i \in 2 .. Len(job.steps) : Plain(job.steps[i], file', mine')
  BY <1>2, PlainStays
<1>4. \A i \in 1 .. Len(job'.steps) : Plain(job'.steps[i], file', mine')
  BY <1>1, <1>3
<1> QED
  BY <1>4 DEF StepsInv, Ahead

\* The same when no step takes the place of the head.
LEMMA PlainTail ==
  ASSUME TypeOK, StepsInv, job.steps # <<>>, Head(job.steps).op # "copy", Then(<<>>),
         mine' = mine, \A t \in Bridges : file[t].by \in {"ours", "none"} => file'[t].by \in {"ours", "none"}
  PROVE  StepsInv'
<1> DEFINE new == <<>>
<1>1. new \in Seq(Steps) /\ Len(new) = 0 /\ Then(new)
  OBVIOUS
<1> HIDE DEF new
<1>2. \A i \in 1 .. Len(new) : Plain(new[i], file', mine')
  BY <1>1
<1> QED
  BY <1>1, <1>2, PlainQueue

\* A step that works on a path has the path, and one that writes has the text.
LEMMA StepParts ==
  ASSUME NEW s \in Steps
  PROVE  /\ s.op \in {"replace", "put", "copy", "remove", "unback"} => s.at \in Targets
         /\ s.op \in {"replace", "put"} => s.new \in Contents
BY DEF Steps, ZellijOps

\* The one step of a file that keeps the books before its rename: the backup is
\* truncated only where the file itself holds what the user last wanted.
LEMMA ReplaceKeeps ==
  ASSUME FilesInv, Replace
  PROVE  FilesInv'
<1>1. /\ job.steps # <<>> /\ Head(job.steps).op = "replace" /\ TypeOK /\ BridgesInv /\ SlotInv /\ StepsInv
      /\ cli' = cli /\ latest' = latest /\ wasm' = wasm /\ file' = file /\ mine' = mine
  BY DEF Replace, Now, FilesInv
<1>2. PICK s \in Steps : s = Head(job.steps) /\ Plain(s, file, mine)
  BY <1>1, PlainHead
<1> DEFINE t == s.at
           put == [op |-> "put", at |-> t, new |-> s.new]
           copy == [op |-> "copy", at |-> t]
<1>3. /\ t \in Targets /\ s.new \in Contents /\ t = At /\ s.op = "replace"
      /\ s.new.by = "ours" \/ (t = Slot /\ s.new = mine[Slot])
  BY <1>1, <1>2, StepParts DEF Plain, At
<1>4. put \in Steps /\ copy \in Steps
  BY <1>3 DEF Steps
<1>5. file[t] \in Contents /\ bak[t] \in Contents /\ mine[t] \in Contents
  BY <1>1, <1>3 DEF TypeOK
<1>r. ASSUME NEW i \in 2 .. Len(job.steps)
      PROVE  Plain(job.steps[i], file', mine')
  <2>1. Head(job.steps) = job.steps[1]
    BY <1>1, HeadTailProperties DEF TypeOK, Jobs
  <2>2. i = 2 => job.steps[1].op # "copy"
    BY <1>1, <2>1
  <2>3. Plain(job.steps[i], file, mine)
    BY <1>1, <2>2, PlainRest
  <2> QED
    BY <1>1, <2>3
<1>6. CASE KeepsBackup(t) \/ (t # Slot /\ file[t] = Absent)
  <2>1. Then(<<put>>) /\ bak' = bak
    BY <1>2, <1>3, <1>6 DEF Replace
  <2>2. job' \in Jobs /\ Len(job.steps) \in Nat /\ Len(job'.steps) = Len(job.steps) /\ job'.steps[1] = put
        /\ \A i \in 2 .. Len(job'.steps) : job'.steps[i] = job.steps[i]
    BY <1>1, <1>4, <2>1, ThenOne
  <2>3. \A i \in 2 .. Len(job'.steps) : Plain(job'.steps[i], file', mine')
    BY <2>2, <1>r
  <2>4. TypeOK' /\ BridgesInv' /\ SlotInv'
    BY <1>1, <2>1, <2>2 DEF TypeOK, BridgesInv, SlotInv
  <2>5. CASE s.new.by = "ours"
    <3>1. Backed(t)'
      BY <1>1, <1>6, <2>1 DEF Backed, KeepsBackup
    <3>2. Ahead(1)'
      BY <1>1, <2>2, <2>5, <3>1 DEF Ahead
    <3> QED
      BY <2>3, <2>4, <3>2 DEF FilesInv, StepsInv
  <2>6. CASE t = Slot /\ s.new = mine[Slot]
    <3>1. Plain(put, file', mine')
      BY <1>1, <2>6 DEF Plain
    <3>2. \A i \in 1 .. Len(job'.steps) : Plain(job'.steps[i], file', mine')
      BY <2>2, <2>3, <3>1
    <3> QED
      BY <2>4, <3>2 DEF FilesInv, StepsInv, Ahead
  <2> QED
    BY <1>3, <2>5, <2>6
<1>7. CASE ~(KeepsBackup(t) \/ (t # Slot /\ file[t] = Absent))
  <2>1. Then(<<copy, put>>) /\ bak' = [bak EXCEPT ![t] = Empty]
    BY <1>2, <1>3, <1>7 DEF Replace
  <2>2. job' \in Jobs /\ Len(job.steps) \in Nat /\ Len(job.steps) > 0 /\ Len(job'.steps) = Len(job.steps) + 1
        /\ job'.steps[1] = copy /\ job'.steps[2] = put
        /\ \A i \in 3 .. Len(job'.steps) : i - 1 \in 2 .. Len(job.steps) /\ job'.steps[i] = job.steps[i - 1]
    BY <1>1, <1>4, <2>1, ThenTwo
  <2>3. \A i \in 3 .. Len(job'.steps) : Plain(job'.steps[i], file', mine')
    BY <2>2, <1>r
  <2>4. TypeOK'
    BY <1>1, <1>3, <2>1, <2>2, ContentsHas DEF TypeOK
  <2>5. bak'[t] = Empty /\ \A x \in Targets : x # t => bak'[x] = bak[x]
    BY <1>1, <1>3, <2>1 DEF TypeOK
  <2>6. BridgesInv'
    <3> SUFFICES ASSUME NEW x \in Bridges, mine[x].by = "user"
                 PROVE  file[x] = mine[x] \/ (bak'[x] = mine[x] /\ file[x].by \in {"ours", "none"})
      BY <1>1 DEF BridgesInv
    <3>1. x \in Targets /\ x # Slot
      BY InstallerAssumption DEF Targets
    <3>2. CASE x # t
      BY <1>1, <2>5, <3>1, <3>2 DEF BridgesInv
    <3>3. CASE x = t
      <4>1. file[x] = mine[x] \/ (bak[x] = mine[x] /\ file[x].by \in {"ours", "none"})
        BY <1>1 DEF BridgesInv
      <4>2. file[x].by # "none"
        BY <1>5, <1>7, <3>1, <3>3, ContentsParts
      <4>3. ~(bak[x] = mine[x] /\ file[x].by = "ours")
        BY <1>7, <3>3 DEF KeepsBackup, Foreign
      <4> QED
        BY <4>1, <4>2, <4>3
    <3> QED
      BY <3>2, <3>3
  <2>7. SlotInv'
    <3>1. CASE t # Slot
      BY <1>1, <2>5, <3>1 DEF SlotInv, Targets
    <3>2. CASE t = Slot
      <4>1. file[Slot].by = "ours" => bak[Slot].by # "user"
        BY <1>7, <3>2 DEF KeepsBackup, Foreign
      <4> QED
        BY <1>1, <2>5, <3>2, <4>1, ContentsHas DEF SlotInv
    <3> QED
      BY <3>1, <3>2
  <2>8. Ahead(2)'
    BY <1>1, <1>3, <2>2, <2>5 DEF Ahead
  <2> QED
    BY <2>3, <2>4, <2>6, <2>7, <2>8 DEF FilesInv, StepsInv
<1> QED
  BY <1>6, <1>7

\* The copy puts what stands at the path into the backup; the rename is next.
LEMMA CopyKeeps ==
  ASSUME FilesInv, Copy
  PROVE  FilesInv'
<1>1. /\ job.steps # <<>> /\ Head(job.steps).op = "copy" /\ TypeOK /\ BridgesInv /\ SlotInv /\ StepsInv
      /\ cli' = cli /\ latest' = latest /\ wasm' = wasm /\ file' = file /\ mine' = mine
      /\ Then(<<>>) /\ bak' = [bak EXCEPT ![At] = file[At]]
  BY DEF Copy, Now, FilesInv
<1>2. /\ job' \in Jobs /\ Len(job.steps) \in Nat /\ Len(job'.steps) = Len(job.steps) - 1
      /\ \A i \in 1 .. Len(job'.steps) : i + 1 \in 2 .. Len(job.steps) /\ job'.steps[i] = job.steps[i + 1]
  BY <1>1, ThenNone
<1>3. job.steps \in Seq(Steps) /\ Head(job.steps) = job.steps[1]
  BY <1>1, HeadTailProperties DEF TypeOK, Jobs
<1>4. PICK k \in 0 .. 2 : Ahead(k) /\ \A i \in (k + 1) .. Len(job.steps) : Plain(job.steps[i], file, mine)
  BY <1>1 DEF StepsInv
<1>5. Len(job.steps) >= 1
  BY <1>1, <1>3, EmptySeq, LenProperties
<1>6. k = 2
  BY <1>1, <1>3, <1>4, <1>5 DEF Ahead, Plain
<1>7. PICK s \in Steps, r \in Steps : s = job.steps[1] /\ r = job.steps[2]
  BY <1>2, <1>3, <1>4, <1>6, ElementOfSeq DEF Ahead
<1> DEFINE t == s.at
<1>8. /\ Len(job.steps) >= 2 /\ s.op = "copy" /\ r.op = "put" /\ r.at = t /\ t = At /\ bak[t] = Empty
      /\ r.new.by = "ours" \/ (r.at = Slot /\ r.new = mine[Slot])
  BY <1>1, <1>3, <1>4, <1>6, <1>7 DEF Ahead, At
<1>9. t \in Targets /\ file[t] \in Contents
  BY <1>1, <1>8, StepParts DEF TypeOK
<1> HIDE DEF t
<1>10. bak'[t] = file[t] /\ \A x \in Targets : x # t => bak'[x] = bak[x]
  BY <1>1, <1>8, <1>9 DEF TypeOK
<1>11. TypeOK'
  BY <1>1, <1>2, <1>8, <1>9 DEF TypeOK
<1>12. BridgesInv'
  <2> SUFFICES ASSUME NEW x \in Bridges, mine[x].by = "user"
               PROVE  file[x] = mine[x] \/ (bak'[x] = mine[x] /\ file[x].by \in {"ours", "none"})
    BY <1>1 DEF BridgesInv
  <2>1. x \in Targets /\ (file[x] = mine[x] \/ (bak[x] = mine[x] /\ file[x].by \in {"ours", "none"}))
    BY <1>1 DEF BridgesInv, Targets
  <2>2. x = t => file[x] = mine[x]
    BY <1>8, <2>1, ContentsHas
  <2> QED
    BY <1>10, <2>1, <2>2
<1>13. SlotInv'
  <2>1. CASE t # Slot
    BY <1>1, <1>10, <2>1 DEF SlotInv, Targets
  <2>2. CASE t = Slot
    BY <1>1, <1>8, <1>10, <2>2, ContentsHas DEF SlotInv
  <2> QED
    BY <2>1, <2>2
<1>14. \A i \in 2 .. Len(job'.steps) : Plain(job'.steps[i], file', mine')
  <2> SUFFICES ASSUME NEW i \in 2 .. Len(job'.steps)
               PROVE  Plain(job'.steps[i], file, mine)
    BY <1>1
  <2>1. i \in 1 .. Len(job'.steps) /\ i + 1 \in 3 .. Len(job.steps)
    BY <1>2
  <2> QED
    BY <1>2, <1>4, <1>6, <2>1
<1>15. job'.steps[1] = r
  BY <1>2, <1>7, <1>8
<1>16. CASE r.new.by = "ours"
  <2>1. Backed(t)'
    BY <1>1, <1>10 DEF Backed
  <2>2. job'.steps # <<>>
    BY <1>2, <1>8
  <2>3. Ahead(1)'
    BY <1>8, <1>15, <1>16, <2>1, <2>2 DEF Ahead
  <2> QED
    BY <1>11, <1>12, <1>13, <1>14, <2>3 DEF FilesInv, StepsInv
<1>17. CASE r.at = Slot /\ r.new = mine[Slot]
  <2>1. Plain(r, file', mine')
    BY <1>1, <1>8, <1>17 DEF Plain
  <2>2. \A i \in 1 .. Len(job'.steps) : Plain(job'.steps[i], file', mine')
    BY <1>2, <1>14, <1>15, <2>1
  <2> QED
    BY <1>11, <1>12, <1>13, <2>2 DEF FilesInv, StepsInv, Ahead
<1> QED
  BY <1>8, <1>16, <1>17

\* A rename takes the place of what is backed, or gives the slot back.
LEMMA PutKeeps ==
  ASSUME FilesInv, Put
  PROVE  FilesInv'
<1>1. /\ job.steps # <<>> /\ Head(job.steps).op = "put" /\ TypeOK /\ BridgesInv /\ SlotInv /\ StepsInv
      /\ cli' = cli /\ latest' = latest /\ wasm' = wasm /\ bak' = bak /\ mine' = mine
      /\ Then(<<>>) /\ file' = [file EXCEPT ![At] = Head(job.steps).new]
  BY DEF Put, Now, FilesInv
<1>2. /\ job.steps \in Seq(Steps) /\ Head(job.steps) = job.steps[1] /\ Head(job.steps) \in Steps
      /\ Len(job.steps) \in Nat /\ Len(job.steps) >= 1
  BY <1>1, HeadTailProperties, EmptySeq, LenProperties DEF TypeOK, Jobs
<1>3. PICK s \in Steps : s = Head(job.steps)
  BY <1>2
<1> DEFINE t == s.at
<1>4. t \in Targets /\ s.new \in Contents /\ t = At /\ s.op = "put"
  BY <1>1, <1>3, StepParts DEF At
<1>5. \/ s.new.by = "ours" /\ Backed(t)
      \/ t = Slot /\ s.new = mine[Slot]
  BY <1>1, <1>2, <1>3, <1>4 DEF StepsInv, Ahead, Plain
<1> HIDE DEF t
<1>6. file'[t] = s.new /\ \A x \in Targets : x # t => file'[x] = file[x]
  BY <1>1, <1>3, <1>4 DEF TypeOK
<1>7. TypeOK'
  BY <1>1, <1>3, <1>4, ThenNone DEF TypeOK
<1>8. BridgesInv'
  <2> SUFFICES ASSUME NEW x \in Bridges, mine[x].by = "user"
               PROVE  file'[x] = mine[x] \/ (bak[x] = mine[x] /\ file'[x].by \in {"ours", "none"})
    BY <1>1 DEF BridgesInv
  <2>1. /\ x \in Targets /\ x # Slot /\ file[x] \in Contents /\ mine[x] \in Contents
        /\ file[x] = mine[x] \/ (bak[x] = mine[x] /\ file[x].by \in {"ours", "none"})
    BY <1>1, InstallerAssumption DEF BridgesInv, Targets, TypeOK
  <2>2. CASE x # t
    BY <1>6, <2>1, <2>2
  <2>3. CASE x = t
    <3>1. s.new.by = "ours" /\ Backed(x)
      BY <1>5, <2>1, <2>3
    <3>2. bak[x] = mine[x]
      BY <2>1, <3>1, ContentsHas DEF Backed
    <3> QED
      BY <1>6, <2>3, <3>1, <3>2
  <2> QED
    BY <2>2, <2>3
<1>9. SlotInv'
  <2>1. CASE t # Slot
    BY <1>1, <1>6, <2>1 DEF SlotInv, Targets
  <2>2. CASE t = Slot /\ s.new = mine[Slot]
    BY <1>1, <1>6, <2>2 DEF SlotInv
  <2>3. CASE t = Slot /\ s.new.by = "ours" /\ Backed(t)
    <3>1. mine[Slot] \in Contents /\ file[Slot] \in Contents
      BY <1>1 DEF TypeOK, Targets
    <3>2. file[Slot].by = "ours" \/ bak[Slot] = file[Slot]
      BY <2>3 DEF Backed
    <3> QED
      BY <1>1, <1>6, <2>3, <3>1, <3>2, ContentsParts DEF SlotInv
  <2> QED
    BY <1>5, <2>1, <2>2, <2>3
<1>10. \A x \in Bridges : file[x].by \in {"ours", "none"} => file'[x].by \in {"ours", "none"}
  BY <1>5, <1>6, InstallerAssumption DEF Targets
<1>11. StepsInv'
  BY <1>1, <1>10, PlainTail
<1> QED
  BY <1>7, <1>8, <1>9, <1>11 DEF FilesInv

\* An unlink leaves the backup, and its own removal to do.
LEMMA UnlinkKeeps ==
  ASSUME FilesInv, Unlink
  PROVE  FilesInv'
<1>1. /\ job.steps # <<>> /\ Head(job.steps).op = "remove" /\ TypeOK /\ BridgesInv /\ SlotInv /\ StepsInv
      /\ cli' = cli /\ latest' = latest /\ wasm' = wasm /\ bak' = bak /\ mine' = mine
      /\ Then(<<[op |-> "unback", at |-> At]>>) /\ file' = [file EXCEPT ![At] = Absent]
  BY DEF Unlink, Now, FilesInv
<1>2. PICK s \in Steps : s = Head(job.steps) /\ Plain(s, file, mine)
  BY <1>1, PlainHead
<1> DEFINE t == s.at
           next == [op |-> "unback", at |-> t]
<1>3. /\ t \in Targets /\ t = At /\ t # Slot /\ file[t].by \in {"ours", "none"} /\ next \in Steps
  BY <1>1, <1>2, StepParts DEF Plain, At, Steps
<1>4. Then(<<next>>) /\ next.op = "unback"
  BY <1>1, <1>3
<1> HIDE DEF t, next
<1>5. file'[t] = Absent /\ \A x \in Targets : x # t => file'[x] = file[x]
  BY <1>1, <1>3 DEF TypeOK
<1>6. TypeOK'
  BY <1>1, <1>3, <1>4, ThenOne, ContentsHas DEF TypeOK
<1>7. BridgesInv'
  <2> SUFFICES ASSUME NEW x \in Bridges, mine[x].by = "user"
               PROVE  file'[x] = mine[x] \/ (bak[x] = mine[x] /\ file'[x].by \in {"ours", "none"})
    BY <1>1 DEF BridgesInv
  <2>1. x \in Targets /\ (file[x] = mine[x] \/ (bak[x] = mine[x] /\ file[x].by \in {"ours", "none"}))
    BY <1>1 DEF BridgesInv, Targets
  <2> QED
    BY <1>3, <1>5, <2>1, ContentsHas
<1>8. SlotInv'
  BY <1>1, <1>3, <1>5 DEF SlotInv, Targets
<1>9. StepsInv'
  <2>1. \A x \in Bridges : file[x].by \in {"ours", "none"} => file'[x].by \in {"ours", "none"}
    BY <1>5, ContentsHas DEF Targets
  <2> DEFINE new == <<next>>
  <2>2. new \in Seq(Steps) /\ Len(new) = 1 /\ new[1] = next /\ Then(new)
    BY <1>3, <1>4
  <2> HIDE DEF new
  <2>3. Plain(next, file', mine')
    BY <1>4 DEF Plain
  <2>4. \A i \in 1 .. Len(new) : Plain(new[i], file', mine')
    BY <2>2, <2>3
  <2> QED
    BY <1>1, <2>1, <2>2, <2>4, PlainQueue
<1> QED
  BY <1>6, <1>7, <1>8, <1>9 DEF FilesInv

\* The restore point that goes is not the user's.
LEMMA RemoveBackupKeeps ==
  ASSUME FilesInv, RemoveBackup
  PROVE  FilesInv'
<1>1. /\ job.steps # <<>> /\ Head(job.steps).op = "unback" /\ TypeOK /\ BridgesInv /\ SlotInv /\ StepsInv
      /\ cli' = cli /\ latest' = latest /\ wasm' = wasm /\ file' = file /\ mine' = mine
      /\ Then(<<>>) /\ bak' = [bak EXCEPT ![At] = BackupAfter(At)]
  BY DEF RemoveBackup, Now, FilesInv
<1>2. PICK s \in Steps : s = Head(job.steps)
  BY <1>1, PlainHead
<1> DEFINE t == s.at
<1>3. t \in Targets /\ t = At
  BY <1>1, <1>2, StepParts DEF At
<1> HIDE DEF t
<1>4. /\ bak'[t] = IF bak[t].by = "ours" THEN Absent ELSE bak[t]
      /\ \A x \in Targets : x # t => bak'[x] = bak[x]
  BY <1>1, <1>3 DEF TypeOK, BackupAfter
<1>5. TypeOK'
  BY <1>1, <1>3, <1>4, ThenNone, ContentsHas DEF TypeOK, BackupAfter
<1>6. BridgesInv'
  <2> SUFFICES ASSUME NEW x \in Bridges, mine[x].by = "user"
               PROVE  file[x] = mine[x] \/ (bak'[x] = mine[x] /\ file[x].by \in {"ours", "none"})
    BY <1>1 DEF BridgesInv
  <2>1. x \in Targets /\ (file[x] = mine[x] \/ (bak[x] = mine[x] /\ file[x].by \in {"ours", "none"}))
    BY <1>1 DEF BridgesInv, Targets
  <2> QED
    BY <1>4, <2>1
<1>7. SlotInv'
  <2>1. bak'[Slot] = bak[Slot] \/ (bak[Slot].by = "ours" /\ bak'[Slot] = Absent)
    BY <1>4 DEF Targets
  <2> QED
    BY <1>1, <2>1, ContentsHas DEF SlotInv
<1>8. StepsInv'
  BY <1>1, PlainTail
<1> QED
  BY <1>5, <1>6, <1>7, <1>8 DEF FilesInv

\* A step of the sidebar's files or of the binary leaves the agents' files be.
LEMMA SidebarKeeps ==
  ASSUME FilesInv, AimInv, Download \/ InstallWasm \/ WriteAlias \/ WriteLayout \/ RestoreLayout
  PROVE  FilesInv'
<1>1. /\ job.steps # <<>> /\ Head(job.steps).op # "copy" /\ Then(<<>>)
      /\ UNCHANGED <<cli, latest, file, bak, mine>> /\ (wasm' = wasm \/ wasm' = DownloadVersion)
  BY DEF Download, InstallWasm, WriteAlias, WriteLayout, RestoreLayout, Now, shared
<1>2. TypeOK /\ BridgesInv /\ SlotInv /\ StepsInv
  BY DEF FilesInv
<1>3. DownloadVersion \in Nat
  BY <1>2 DEF DownloadVersion, TypeOK, Jobs
<1>4. TypeOK'
  BY <1>1, <1>2, <1>3, ThenNone DEF TypeOK
<1>5. StepsInv'
  BY <1>1, <1>2, PlainTail
<1> QED
  BY <1>1, <1>2, <1>4, <1>5 DEF FilesInv, BridgesInv, SlotInv

\* A queue whose head is no copy can go on with its tail.
LEMMA TailKeeps ==
  ASSUME FilesInv, job.steps # <<>>, Head(job.steps).op # "copy", UNCHANGED <<file, bak, mine>>,
         job'.steps = Tail(job.steps)
  PROVE  StepsInv'
<1>1. job.steps \in Seq(Steps) /\ TypeOK /\ StepsInv
  BY DEF FilesInv, TypeOK, Jobs
<1>2. /\ Len(job'.steps) = Len(job.steps) - 1 /\ Len(job.steps) \in Nat /\ Len(job.steps) > 0
      /\ Head(job.steps) = job.steps[1]
      /\ \A i \in 1 .. Len(job'.steps) : job'.steps[i] = job.steps[i + 1]
  BY <1>1, HeadTailProperties, LenProperties, EmptySeq
<1>3. \A i \in 1 .. Len(job'.steps) : Plain(job'.steps[i], file', mine')
  <2> SUFFICES ASSUME NEW i \in 1 .. Len(job'.steps)
               PROVE  Plain(job.steps[i + 1], file, mine)
    BY <1>2
  <2>1. i + 1 \in 2 .. Len(job.steps)
    BY <1>2
  <2> QED
    BY <1>1, <1>2, <2>1, PlainRest
<1> QED
  BY <1>3 DEF StepsInv, Ahead

\* The release that was asked for becomes the binary.
LEMMA SelfReplaceKeeps ==
  ASSUME FilesInv, AimInv, SelfReplace
  PROVE  FilesInv'
<1>1. /\ job.steps # <<>> /\ Head(job.steps).op = "self" /\ cli' = job.target
      /\ job' = [job EXCEPT !.steps = Tail(job.steps), !.moved = TRUE]
      /\ UNCHANGED <<latest, wasm, file, bak, mine>>
  BY DEF SelfReplace, Now
<1>2. TypeOK /\ BridgesInv /\ SlotInv /\ StepsInv /\ job \in Jobs /\ job.steps \in Seq(Steps) /\ job.target \in Nat
  BY DEF FilesInv, TypeOK, Jobs
<1>3. Tail(job.steps) \in Seq(Steps) /\ Head(job.steps) = job.steps[1] /\ Len(job.steps) \in Nat /\ Len(job.steps) > 0
  BY <1>1, <1>2, HeadTailProperties, LenProperties, EmptySeq
<1>4. job.target # 0
  BY <1>1, <1>3 DEF AimInv
<1>5. job' \in Jobs /\ job'.steps = Tail(job.steps)
  BY <1>1, <1>2, <1>3 DEF Jobs
<1>6. TypeOK'
  BY <1>1, <1>2, <1>4, <1>5 DEF TypeOK
<1>7. StepsInv'
  BY <1>1, <1>5, TailKeeps
<1> QED
  BY <1>1, <1>2, <1>6, <1>7 DEF FilesInv, BridgesInv, SlotInv

\* A step that fails leaves a queue no longer than the rest of it, and never
\* the rename of a copy that was not made.
LEMMA FailKeeps ==
  ASSUME FilesInv, Fail
  PROVE  FilesInv'
<1> DEFINE op == Head(job.steps).op
           rest == Remaining(op, Tail(job.steps))
<1>1. /\ job.steps # <<>> /\ UNCHANGED <<cli, latest, wasm, file, bak, mine>>
      /\ job' = [job EXCEPT !.steps = rest, !.clean = FALSE, !.calls = IF op = "self" THEN <<>> ELSE job.calls]
  BY DEF Fail, shared
<1>2. TypeOK /\ BridgesInv /\ SlotInv /\ job \in Jobs /\ job.steps \in Seq(Steps) /\ job.calls \in Seq(Calls)
  BY DEF FilesInv, TypeOK, Jobs
<1>3. rest = <<>> \/ (rest = Tail(job.steps) /\ op # "copy")
  BY DEF Remaining
<1> DEFINE calls == IF op = "self" THEN <<>> ELSE job.calls
<1>10. Tail(job.steps) \in Seq(Steps) /\ <<>> \in Seq(Steps) /\ calls \in Seq(Calls)
  BY <1>1, <1>2, HeadTailProperties
<1> HIDE DEF rest, calls
<1>4. rest \in Seq(Steps) /\ job' = [job EXCEPT !.steps = rest, !.clean = FALSE, !.calls = calls]
  BY <1>1, <1>3, <1>10 DEF calls
<1>5. job' \in Jobs /\ job'.steps = rest
  BY <1>2, <1>4, <1>10 DEF Jobs
<1>6. TypeOK'
  BY <1>1, <1>2, <1>5 DEF TypeOK
<1>7. StepsInv'
  <2>1. CASE rest = <<>>
    BY <1>5, <2>1 DEF StepsInv, Ahead
  <2>2. CASE rest = Tail(job.steps) /\ op # "copy"
    BY <1>1, <1>5, <2>2, TailKeeps
  <2> QED
    BY <1>3, <2>1, <2>2
<1> QED
  BY <1>1, <1>2, <1>6, <1>7 DEF FilesInv, BridgesInv, SlotInv

\* An empty queue owes nothing.
LEMMA EmptyQueue ==
  ASSUME job.steps = <<>>
  PROVE  StepsInv
BY DEF StepsInv, Ahead

\* No process is a job with nothing to do.
LEMMA IdleIsAJob == Idle \in Jobs /\ Idle.steps = <<>> /\ Idle.calls = <<>>
BY DEF Idle, Jobs

\* A call of the job takes its turn.
LEMMA PlanKeeps ==
  ASSUME FilesInv, Plan
  PROVE  FilesInv'
<1>2. TypeOK /\ BridgesInv /\ SlotInv /\ job \in Jobs /\ job.calls \in Seq(Calls)
  BY DEF FilesInv, TypeOK, Jobs
<1>0. job.calls # <<>>
  BY DEF Plan
<1>3. Tail(job.calls) \in Seq(Calls) /\ Head(job.calls) \in Calls
  BY <1>0, <1>2, HeadTailProperties
<1>10. PICK c \in Calls : c = Head(job.calls)
  BY <1>3
<1> DEFINE first == IF c.what = "rewire" THEN Rewire ELSE <<>>
           calls == first \o Tail(job.calls)
<1>1. /\ job.steps = <<>> /\ UNCHANGED <<cli, latest, wasm, file, bak, mine>>
      /\ job' = [job EXCEPT !.steps = Planned(c), !.calls = calls]
  BY <1>10 DEF Plan, shared
<1>4. Planned(c) \in Seq(Steps) /\ \A i \in 1 .. Len(Planned(c)) : Plain(Planned(c)[i], file, mine)
  <2>1. Planned(c) \in Seq(Steps)
    BY PlannedPlain
  <2>2. ASSUME NEW i \in 1 .. Len(Planned(c))
        PROVE  Plain(Planned(c)[i], file, mine)
    BY PlannedPlain
  <2> QED
    BY <2>1, <2>2
<1>5. first \in Seq(Calls)
  <2>1. Call("wire", Bridges, FALSE) \in Calls /\ Call("wire", {Slot}, FALSE) \in Calls
    BY DEF Call, Calls, Whats
  <2>2. \A needed \in BOOLEAN, call \in Calls : When(needed, call) \in Seq(Calls)
    BY DEF When
  <2>3. Rewire \in Seq(Calls)
    BY <2>1, <2>2, ConcatProperties DEF Rewire, Wired
  <2> QED
    BY <2>3
<1>6. calls \in Seq(Calls)
  BY <1>3, <1>5, ConcatProperties
<1> HIDE DEF calls
<1>7. job' \in Jobs /\ job'.steps = Planned(c)
  BY <1>1, <1>2, <1>4, <1>6 DEF Jobs
<1>8. TypeOK'
  BY <1>1, <1>2, <1>7 DEF TypeOK
<1>9. StepsInv'
  BY <1>1, <1>4, <1>7 DEF StepsInv, Ahead
<1> QED
  BY <1>1, <1>2, <1>8, <1>9 DEF FilesInv, BridgesInv, SlotInv

-----------------------------------------------------------------------------
(* The alias and the binary                                                *)

\* A step that queues neither an alias nor a new binary keeps the order of the
\* queue, and the stage at its head has put the wasm in place.
LEMMA QueueStays ==
  ASSUME TypeOK, QueueInv, job.steps # <<>>, NEW new \in Seq(Steps), Then(new),
         \A i \in 1 .. Len(new) : new[i].op \notin {"self", "alias"},
         wasm # 0 => wasm' # 0, Head(job.steps).op = "stage" => wasm' # 0
  PROVE  QueueInv'
<1>1. /\ Len(job.steps) \in Nat /\ Head(job.steps) = job.steps[1] /\ Len(new) \in Nat
      /\ job'.target = job.target /\ job'.calls = job.calls
      /\ Len(job'.steps) = Len(new) + Len(job.steps) - 1
      /\ \A i \in 1 .. Len(new) : job'.steps[i] = new[i]
      /\ \A i \in (Len(new) + 1) .. Len(job'.steps) :
           /\ i - Len(new) + 1 \in 2 .. Len(job.steps)
           /\ job'.steps[i] = job.steps[i - Len(new) + 1]
  BY ThenSteps DEF TypeOK, Jobs
<1>2. ASSUME NEW i \in 1 .. Len(job'.steps), job'.steps[i].op \in {"self", "alias"}
      PROVE  i \in (Len(new) + 1) .. Len(job'.steps)
  BY <1>1, <1>2
<1>3. AimInv'
  <2>1. ASSUME NEW i \in 1 .. Len(job'.steps), job'.steps[i].op = "self"
        PROVE  job.target # 0
    <3>1. i \in (Len(new) + 1) .. Len(job'.steps)
      BY <1>2, <2>1
    <3>2. i - Len(new) + 1 \in 2 .. Len(job.steps) /\ job'.steps[i] = job.steps[i - Len(new) + 1]
      BY <1>1, <3>1
    <3>3. i - Len(new) + 1 \in 1 .. Len(job.steps) /\ job.steps[i - Len(new) + 1].op = "self"
      BY <1>1, <2>1, <3>2
    <3> QED
      BY <3>3 DEF QueueInv, AimInv
  <2> QED
    BY <1>1, <2>1 DEF QueueInv, AimInv
<1>4. ASSUME wasm' = 0
      PROVE  Staged(job'.steps)
  <2> SUFFICES ASSUME NEW i \in 1 .. Len(job'.steps), job'.steps[i].op = "alias"
               PROVE  \E j \in 1 .. (i - 1) : job'.steps[j].op = "stage"
    BY DEF Staged
  <2>1. /\ i \in (Len(new) + 1) .. Len(job'.steps) /\ i - Len(new) + 1 \in 2 .. Len(job.steps)
        /\ job.steps[i - Len(new) + 1].op = "alias"
    <3>1. i \in (Len(new) + 1) .. Len(job'.steps)
      BY <1>2
    <3> QED
      BY <1>1, <3>1
  <2>2. PICK j \in 1 .. (i - Len(new)) : job.steps[j].op = "stage"
    <3>1. i - Len(new) + 1 - 1 = i - Len(new) /\ i - Len(new) + 1 \in 1 .. Len(job.steps)
      BY <1>1, <2>1
    <3>2. Staged(job.steps)
      BY <1>4 DEF QueueInv
    <3>3. \E j \in 1 .. (i - Len(new) + 1 - 1) : job.steps[j].op = "stage"
      <4> DEFINE k == i - Len(new) + 1
      <4>1. k \in 1 .. Len(job.steps) /\ job.steps[k].op = "alias"
        BY <2>1, <3>1
      <4> HIDE DEF k
      <4>2. \E j \in 1 .. (k - 1) : job.steps[j].op = "stage"
        BY <3>2, <4>1 DEF Staged
      <4> QED
        BY <4>2 DEF k
    <3> QED
      BY <3>1, <3>3
  <2>3. j # 1
    BY <1>1, <1>4, <2>2
  <2> DEFINE k == j + Len(new) - 1
  <2>4. k \in (Len(new) + 1) .. Len(job'.steps) /\ k \in 1 .. (i - 1) /\ k - Len(new) + 1 = j
    BY <1>1, <2>1, <2>2, <2>3
  <2> HIDE DEF k
  <2>5. job'.steps[k] = job.steps[j]
    BY <1>1, <2>4
  <2> QED
    BY <2>2, <2>4, <2>5
<1> QED
  BY <1>3, <1>4 DEF QueueInv

\* The same when no step takes the place of the head.
LEMMA QueueTailStays ==
  ASSUME TypeOK, QueueInv, job.steps # <<>>, Then(<<>>),
         wasm # 0 => wasm' # 0, Head(job.steps).op = "stage" => wasm' # 0
  PROVE  QueueInv'
<1> DEFINE new == <<>>
<1>1. new \in Seq(Steps) /\ Len(new) = 0 /\ Then(new)
  OBVIOUS
<1> HIDE DEF new
<1>2. \A i \in 1 .. Len(new) : new[i].op \notin {"self", "alias"}
  BY <1>1
<1> QED
  BY <1>1, <1>2, QueueStays

\* What a download brings is a release.
LEMMA DownloadIsARelease ==
  ASSUME TypeOK
  PROVE  DownloadVersion \in Nat \ {0}
BY DEF TypeOK, Jobs, DownloadVersion

\* The steps on the agents' files queue no alias, and touch neither it nor the wasm.
LEMMA FileStepsKeepQueue ==
  ASSUME InstallInv, Replace \/ Copy \/ Put \/ Unlink \/ RemoveBackup
  PROVE  QueueInv' /\ AliasHasWasm'
<1>1. /\ TypeOK /\ StepsInv /\ QueueInv /\ AliasHasWasm /\ job.steps # <<>> /\ wasm' = wasm /\ alias' = alias
      /\ Head(job.steps).op \in {"replace", "copy", "put", "remove", "unback"}
  BY DEF InstallInv, FilesInv, Replace, Copy, Put, Unlink, RemoveBackup, Now
<1>2. job.steps \in Seq(Steps) /\ Head(job.steps) \in Steps
  BY <1>1, HeadTailProperties DEF TypeOK, Jobs
<1>3. At \in Targets /\ (Head(job.steps).op = "replace" => Head(job.steps).new \in Contents)
  BY <1>1, <1>2, StepParts DEF At
<1>4. QueueInv'
  <2>1. CASE Copy \/ Put \/ RemoveBackup
    <3>1. Then(<<>>)
      BY <2>1 DEF Copy, Put, RemoveBackup
    <3> QED
      BY <1>1, <3>1, QueueTailStays
  <2>2. CASE Unlink
    <3>1. PICK s \in Steps : s.op = "unback" /\ Then(<<s>>)
      BY <1>3, <2>2 DEF Unlink, Steps
    <3> DEFINE new == <<s>>
    <3>2. new \in Seq(Steps) /\ Then(new) /\ \A i \in 1 .. Len(new) : new[i].op \notin {"self", "alias"}
      BY <3>1
    <3> HIDE DEF new
    <3> QED
      BY <1>1, <3>2, QueueStays
  <2>3. CASE Replace
    <3>1. Head(job.steps).op = "replace"
      BY <2>3 DEF Replace, Now
    <3>2. PICK t \in Targets, c \in Contents : t = At /\ c = Head(job.steps).new
      BY <1>3, <3>1
    <3> DEFINE put == [op |-> "put", at |-> t, new |-> c]
               copy == [op |-> "copy", at |-> t]
    <3>3. put \in Steps /\ copy \in Steps /\ put.op = "put" /\ copy.op = "copy"
      BY DEF Steps
    <3>4. Then(<<put>>) \/ Then(<<copy, put>>)
      BY <2>3, <3>2 DEF Replace
    <3> HIDE DEF put, copy
    <3> DEFINE new1 == <<put>>
               new2 == <<copy, put>>
    <3>5. /\ new1 \in Seq(Steps) /\ \A i \in 1 .. Len(new1) : new1[i].op \notin {"self", "alias"}
          /\ new2 \in Seq(Steps) /\ \A i \in 1 .. Len(new2) : new2[i].op \notin {"self", "alias"}
          /\ Then(new1) \/ Then(new2)
      BY <3>3, <3>4
    <3> HIDE DEF new1, new2
    <3> QED
      BY <1>1, <3>1, <3>5, QueueStays
  <2> QED
    BY <2>1, <2>2, <2>3
<1> QED
  BY <1>1, <1>4 DEF AliasHasWasm

\* The alias is written over a wasm that an earlier step has put in place.
LEMMA SidebarKeepsQueue ==
  ASSUME InstallInv, Download \/ InstallWasm \/ WriteAlias \/ WriteLayout \/ RestoreLayout
  PROVE  QueueInv' /\ AliasHasWasm'
<1>1. TypeOK /\ QueueInv /\ AliasHasWasm /\ job.steps # <<>> /\ Then(<<>>)
  BY DEF InstallInv, FilesInv, Download, InstallWasm, WriteAlias, WriteLayout, RestoreLayout, Now
<1>2. CASE InstallWasm
  <2>1. wasm' # 0 /\ alias' = alias
    BY <1>1, <1>2, DownloadIsARelease DEF InstallWasm
  <2> QED
    BY <1>1, <2>1, QueueTailStays DEF AliasHasWasm
<1>3. CASE ~InstallWasm
  <2>1. wasm' = wasm /\ Head(job.steps).op # "stage"
    BY <1>3 DEF Download, InstallWasm, WriteAlias, WriteLayout, RestoreLayout, Now, shared
  <2>2. QueueInv'
    BY <1>1, <2>1, QueueTailStays
  <2>3. CASE Head(job.steps).op = "alias"
    <3>1. job.steps \in Seq(Steps) /\ Head(job.steps) = job.steps[1] /\ Len(job.steps) >= 1 /\ Len(job.steps) \in Nat
      BY <1>1, HeadTailProperties, LenProperties, EmptySeq DEF TypeOK, Jobs
    <3>2. ~Staged(job.steps)
      BY <2>3, <3>1 DEF Staged
    <3> QED
      BY <1>1, <2>1, <2>2, <3>2 DEF QueueInv, AliasHasWasm
  <2>4. CASE Head(job.steps).op # "alias"
    <3>1. alias' = alias \/ alias' = "removed"
      BY <1>3, <2>4 DEF Download, WriteAlias, WriteLayout, RestoreLayout, Now, shared
    <3> QED
      BY <1>1, <2>1, <2>2, <3>1 DEF AliasHasWasm
  <2> QED
    BY <2>3, <2>4
<1> QED
  BY <1>2, <1>3

\* A new binary or a failure takes steps off the queue, and never a stage from
\* before an alias that stays.
LEMMA LeavingKeepsQueue ==
  ASSUME InstallInv, SelfReplace \/ Fail
  PROVE  QueueInv' /\ AliasHasWasm'
<1>1. /\ TypeOK /\ QueueInv /\ AliasHasWasm /\ job.steps # <<>> /\ wasm' = wasm /\ alias' = alias
      /\ job \in Jobs /\ job.steps \in Seq(Steps)
  BY DEF InstallInv, FilesInv, SelfReplace, Fail, Now, shared, TypeOK, Jobs
<1>2. /\ Head(job.steps) = job.steps[1] /\ Len(job.steps) \in Nat /\ Len(job.steps) >= 1
      /\ Tail(job.steps) \in Seq(Steps) /\ Len(Tail(job.steps)) = Len(job.steps) - 1
      /\ \A i \in 1 .. Len(Tail(job.steps)) : Tail(job.steps)[i] = job.steps[i + 1]
  BY <1>1, HeadTailProperties, EmptySeq, LenProperties
<1>3. /\ job'.target = job.target /\ (job'.calls = job.calls \/ job'.calls = <<>>)
      /\ \/ job'.steps = <<>>
         \/ job'.steps = Tail(job.steps) /\ Head(job.steps).op # "stage"
  <2>1. CASE SelfReplace
    BY <1>1, <2>1 DEF SelfReplace, Now, Jobs
  <2>2. CASE Fail
    <3> DEFINE op == Head(job.steps).op
               calls == IF op = "self" THEN <<>> ELSE job.calls
               rest == Remaining(op, Tail(job.steps))
    <3>1. job' = [job EXCEPT !.steps = rest, !.clean = FALSE, !.calls = calls]
      BY <2>2 DEF Fail
    <3>2. calls = job.calls \/ calls = <<>>
      OBVIOUS
    <3>3. rest = <<>> \/ (rest = Tail(job.steps) /\ op # "stage")
      BY DEF Remaining
    <3> HIDE DEF calls, rest, op
    <3>4. job'.target = job.target /\ job'.calls = calls /\ job'.steps = rest
      BY <1>1, <3>1 DEF Jobs
    <3> QED
      BY <3>2, <3>3, <3>4 DEF op
  <2> QED
    BY <1>1, <2>1, <2>2 DEF InstallInv
<1>4. CASE job'.steps = <<>>
  BY <1>1, <1>3, <1>4 DEF QueueInv, AimInv, Staged, AliasHasWasm
<1>5. CASE job'.steps = Tail(job.steps) /\ Head(job.steps).op # "stage"
  <2>1. /\ Len(job'.steps) = Len(job.steps) - 1
        /\ \A i \in 1 .. Len(job'.steps) : i + 1 \in 2 .. Len(job.steps) /\ job'.steps[i] = job.steps[i + 1]
    BY <1>2, <1>5
  <2>2. AimInv'
    <3>1. ASSUME NEW i \in 1 .. Len(job'.steps), job'.steps[i].op = "self"
          PROVE  job.target # 0
      <4>1. i + 1 \in 1 .. Len(job.steps) /\ job.steps[i + 1].op = "self"
        BY <1>2, <2>1, <3>1
      <4> QED
        BY <1>1, <4>1 DEF QueueInv, AimInv
    <3> QED
      BY <1>1, <1>3, <3>1 DEF QueueInv, AimInv
  <2>3. ASSUME wasm = 0
        PROVE  Staged(job'.steps)
    <3> SUFFICES ASSUME NEW i \in 1 .. Len(job'.steps), job'.steps[i].op = "alias"
                 PROVE  \E j \in 1 .. (i - 1) : job'.steps[j].op = "stage"
      BY DEF Staged
    <3>1. i + 1 \in 2 .. Len(job.steps) /\ i + 1 \in 1 .. Len(job.steps) /\ job.steps[i + 1].op = "alias"
      BY <1>2, <2>1
    <3>2. PICK j \in 1 .. (i + 1 - 1) : job.steps[j].op = "stage"
      BY <1>1, <2>3, <3>1 DEF QueueInv, Staged
    <3>3. j # 1
      BY <1>2, <1>5, <3>2
    <3>4. j - 1 \in 1 .. (i - 1) /\ j - 1 \in 1 .. Len(job'.steps) /\ j - 1 + 1 = j
      BY <3>2, <3>3
    <3>5. job'.steps[j - 1] = job.steps[j]
      BY <2>1, <3>4
    <3> QED
      BY <3>2, <3>4, <3>5
  <2> QED
    BY <1>1, <2>2, <2>3 DEF QueueInv, AliasHasWasm
<1> QED
  BY <1>3, <1>4, <1>5

\* What a call plans stages the wasm before the alias; a call that replaces the
\* binary was told with what, and the calls a rewiring adds replace none.
LEMMA PlanKeepsQueue ==
  ASSUME InstallInv, Plan
  PROVE  QueueInv' /\ AliasHasWasm'
<1>1. /\ FilesInv /\ QueueInv /\ AliasHasWasm /\ job \in Jobs /\ job.calls \in Seq(Calls)
      /\ job.calls # <<>> /\ wasm' = wasm /\ alias' = alias
  BY DEF InstallInv, FilesInv, TypeOK, Jobs, Plan, shared
<1>2. /\ Head(job.calls) = job.calls[1] /\ Len(job.calls) \in Nat /\ Len(job.calls) >= 1
      /\ Head(job.calls) \in Calls /\ Tail(job.calls) \in Seq(Calls)
      /\ Len(Tail(job.calls)) = Len(job.calls) - 1
      /\ \A i \in 1 .. Len(Tail(job.calls)) : Tail(job.calls)[i] = job.calls[i + 1]
  BY <1>1, HeadTailProperties, EmptySeq, LenProperties
<1>3. PICK c \in Calls : c = Head(job.calls)
  BY <1>2
<1> DEFINE first == IF c.what = "rewire" THEN Rewire ELSE <<>>
           calls == first \o Tail(job.calls)
           steps == Planned(c)
<1>4. job' = [job EXCEPT !.steps = steps, !.calls = calls]
  BY <1>3 DEF Plan
<1>5. /\ Staged(steps) /\ \A i \in 1 .. Len(steps) : steps[i].op = "self" => c.what = "self"
  <2>1. Staged(Planned(c))
    BY <1>1, PlannedPlain
  <2>2. ASSUME NEW i \in 1 .. Len(Planned(c)), Planned(c)[i].op = "self"
        PROVE  c.what = "self"
    BY <1>1, <2>2, PlannedPlain
  <2> QED
    BY <2>1, <2>2
<1>6. first \in Seq(Calls) /\ \A i \in 1 .. Len(first) : first[i].what # "self"
  <2>1. PICK a \in Seq(Calls), b \in Seq(Calls) :
          /\ a = When(Wired(Bridges), Call("wire", Bridges, FALSE))
          /\ b = When(Wired({Slot}), Call("wire", {Slot}, FALSE))
    <3>1. Call("wire", Bridges, FALSE) \in Calls /\ Call("wire", {Slot}, FALSE) \in Calls
      BY DEF Call, Calls, Whats
    <3>2. \A needed \in BOOLEAN, call \in Calls : When(needed, call) \in Seq(Calls)
      BY DEF When
    <3>3. Wired(Bridges) \in BOOLEAN /\ Wired({Slot}) \in BOOLEAN
      BY DEF Wired
    <3> QED
      BY <3>1, <3>2, <3>3
  <2>2. /\ \A i \in 1 .. Len(a) : a[i].what # "self"
        /\ \A i \in 1 .. Len(b) : b[i].what # "self"
    BY <2>1 DEF When, Call
  <2>3. /\ a \o b \in Seq(Calls)
        /\ \A i \in 1 .. Len(a \o b) : \/ \E j \in 1 .. Len(a) : (a \o b)[i] = a[j]
                                       \/ \E j \in 1 .. Len(b) : (a \o b)[i] = b[j]
    BY ConcatParts
  <2>4. Rewire = a \o b
    BY <2>1 DEF Rewire
  <2>5. Rewire \in Seq(Calls) /\ \A i \in 1 .. Len(Rewire) : Rewire[i].what # "self"
    BY <2>2, <2>3, <2>4
  <2>6. Len(<<>>) = 0 /\ <<>> \in Seq(Calls)
    OBVIOUS
  <2> QED
    BY <2>5, <2>6
<1>7. ASSUME NEW i \in 1 .. Len(calls), calls[i].what = "self"
      PROVE  job.target # 0
  <2> HIDE DEF first
  <2> DEFINE rest == Tail(job.calls)
  <2>0. calls = first \o rest /\ first \in Seq(Calls) /\ rest \in Seq(Calls)
    BY <1>2, <1>6
  <2> HIDE DEF calls, rest
  <2>1. \A k \in 1 .. Len(calls) : \/ \E j \in 1 .. Len(first) : calls[k] = first[j]
                                   \/ \E j \in 1 .. Len(rest) : calls[k] = rest[j]
    BY <2>0, ConcatParts
  <2>2. PICK j \in 1 .. Len(rest) : calls[i] = rest[j]
    BY <1>6, <1>7, <2>1
  <2>3. j + 1 \in 1 .. Len(job.calls) /\ job.calls[j + 1].what = "self"
    BY <1>2, <1>7, <2>2 DEF rest
  <2> QED
    BY <1>1, <2>3 DEF QueueInv, AimInv
<1>8. c.what = "self" => job.target # 0
  <2>1. 1 \in 1 .. Len(job.calls) /\ job.calls[1] = c
    BY <1>2, <1>3
  <2> QED
    BY <1>1, <2>1 DEF QueueInv, AimInv
<1> HIDE DEF calls, steps
<1>9. job'.steps = steps /\ job'.calls = calls /\ job'.target = job.target
  BY <1>1, <1>4 DEF Jobs
<1> QED
  BY <1>1, <1>5, <1>7, <1>8, <1>9 DEF QueueInv, AimInv, AliasHasWasm

-----------------------------------------------------------------------------
(* What the user runs and edits                                            *)

\* With no process running nothing is owed.
LEMMA IdleOwesNothing ==
  ASSUME job = Idle
  PROVE  job \in Jobs /\ StepsInv /\ QueueInv
<1>1. job \in Jobs /\ job.steps = <<>> /\ job.calls = <<>>
  BY IdleIsAJob
<1> QED
  BY <1>1, EmptyQueue DEF QueueInv, AimInv, Staged

\* The process ends, or is killed: the queue goes with it.
LEMMA EndKeeps ==
  ASSUME InstallInv, Finish \/ Crash
  PROVE  InstallInv'
<1>1. job' = Idle /\ UNCHANGED shared
  BY DEF Finish, Crash
<1>2. job' \in Jobs /\ job'.steps = <<>> /\ job'.calls = <<>>
  BY <1>1, IdleIsAJob
<1>3. StepsInv' /\ QueueInv'
  BY <1>2 DEF StepsInv, Ahead, QueueInv, AimInv, Staged
<1> QED
  BY <1>1, <1>2, <1>3 DEF InstallInv, FilesInv, TypeOK, BridgesInv, SlotInv, AliasHasWasm, shared

\* What is started has no step to do yet; only an update that was told with
\* what replaces the binary.
LEMMA RunKeeps ==
  ASSUME InstallInv, NEW does \in {"install", "uninstall", "update"}, NEW calls \in Seq(Calls), NEW target \in Nat,
         NEW of \in {{}, Bridges, {Slot}, {"rail"}}, Run(does, calls, target, of),
         \A i \in 1 .. Len(calls) : calls[i].what = "self" => target # 0
  PROVE  InstallInv'
<1>1. job' = [Idle EXCEPT !.does = does, !.calls = calls, !.target = target, !.of = of] /\ UNCHANGED shared
  BY DEF Run
<1>4. Idle \in Jobs
  BY IdleIsAJob
<1>2. /\ job' \in Jobs /\ job'.steps = <<>> /\ job'.calls = calls /\ job'.target = target
  <2>1. Idle.steps = <<>>
    BY DEF Idle
  <2> QED
    BY <1>1, <1>4, <2>1 DEF Jobs
<1>3. StepsInv' /\ QueueInv'
  BY <1>2 DEF StepsInv, Ahead, QueueInv, AimInv, Staged
<1> QED
  BY <1>1, <1>2, <1>3 DEF InstallInv, FilesInv, TypeOK, BridgesInv, SlotInv, AliasHasWasm, shared

\* Every command the user may run starts so.
LEMMA CommandsKeep ==
  ASSUME InstallInv,
         (\E ts \in Producers : SetupAgents(ts) \/ UninstallAgents(ts)) \/ SetupRail \/ UninstallRail \/ Update
  PROVE  InstallInv'
<1>1. ASSUME NEW c \in Calls, c.what # "self", NEW does \in {"install", "uninstall"},
             NEW of \in {{}, Bridges, {Slot}, {"rail"}}, Run(does, <<c>>, 0, of)
      PROVE  InstallInv'
  <2> DEFINE calls == <<c>>
  <2>1. calls \in Seq(Calls) /\ Len(calls) = 1 /\ calls[1] = c /\ Run(does, calls, 0, of)
    BY <1>1
  <2> HIDE DEF calls
  <2>2. \A i \in 1 .. Len(calls) : calls[i].what = "self" => 0 # 0
    BY <1>1, <2>1
  <2> QED
    BY <2>1, <2>2, RunKeeps
<1>2. \A what \in Whats, ts \in {Bridges, {Slot}, {}}, force \in BOOLEAN :
        Call(what, ts, force) \in Calls /\ Call(what, ts, force).what = what
  BY DEF Call, Calls
<1>3. ASSUME NEW ts \in Producers, SetupAgents(ts)
      PROVE  InstallInv'
  <2>1. PICK force \in BOOLEAN : Run("install", <<Call("wire", ts, force)>>, 0, {})
    BY <1>3 DEF SetupAgents
  <2>2. ts \in {Bridges, {Slot}, {}} /\ "wire" \in Whats
    BY DEF Producers, Whats
  <2> QED
    BY <1>1, <1>2, <2>1, <2>2
<1>4. ASSUME NEW ts \in Producers, UninstallAgents(ts)
      PROVE  InstallInv'
  <2>1. Run("uninstall", <<Call("unwire", ts, FALSE)>>, 0, ts)
    BY <1>4 DEF UninstallAgents
  <2>2. ts \in {Bridges, {Slot}, {}} /\ ts \in {{}, Bridges, {Slot}, {"rail"}} /\ "unwire" \in Whats
    BY DEF Producers, Whats
  <2> QED
    BY <1>1, <1>2, <2>1, <2>2
<1>5. ASSUME SetupRail
      PROVE  InstallInv'
  <2>1. PICK what \in {"zellij", "rail"}, force \in BOOLEAN, inject \in BOOLEAN :
          Run("install", <<[Call(what, {}, force) EXCEPT !.inject = inject]>>, 0, {})
    BY <1>5 DEF SetupRail
  <2>2. Call(what, {}, force) \in Calls /\ Call(what, {}, force).what = what
    BY <1>2 DEF Whats
  <2>3. PICK c \in Calls : c = [Call(what, {}, force) EXCEPT !.inject = inject] /\ c.what = what
    <3>1. PICK c \in Calls : c = Call(what, {}, force) /\ c.what = what
      BY <2>2
    <3>2. [c EXCEPT !.inject = inject] \in Calls /\ [c EXCEPT !.inject = inject].what = what
      BY <3>1 DEF Calls
    <3> QED
      BY <3>1, <3>2
  <2> QED
    BY <1>1, <2>1, <2>3
<1>6. ASSUME UninstallRail
      PROVE  InstallInv'
  <2>1. Run("uninstall", <<Call("unzellij", {}, FALSE)>>, 0, {"rail"}) /\ "unzellij" \in Whats
    BY <1>6 DEF UninstallRail, Whats
  <2> QED
    BY <1>1, <1>2, <2>1
<1>7. ASSUME Update
      PROVE  InstallInv'
  <2>1. PICK target \in cli .. latest, unknown \in BOOLEAN : Run("update", UpdateCalls(target, unknown), target, {})
    BY <1>7 DEF Update
  <2>2. target \in Nat \ {0}
    BY <2>1 DEF InstallInv, FilesInv, TypeOK
  <2>3. UpdateCalls(target, unknown) \in Seq(Calls)
    <3>1. \A needed \in BOOLEAN, call \in Calls : When(needed, call) \in Seq(Calls)
      BY DEF When
    <3>2. (target > cli) \in BOOLEAN /\ NeedsRefresh(target, unknown) \in BOOLEAN
      BY DEF NeedsRefresh
    <3>3. {"self", "zellij", "rewire"} \subseteq Whats
      BY DEF Whats
    <3>4. /\ When(target > cli, Call("self", {}, FALSE)) \in Seq(Calls)
          /\ When(NeedsRefresh(target, unknown), Call("zellij", {}, FALSE)) \in Seq(Calls)
          /\ When(target > cli, Call("rewire", {}, FALSE)) \in Seq(Calls)
      BY <1>2, <3>1, <3>2, <3>3
    <3> QED
      BY <3>4, ConcatProperties DEF UpdateCalls
  <2> QED
    BY <2>1, <2>2, <2>3, RunKeeps
<1> QED
  BY <1>3, <1>4, <1>5, <1>6, <1>7

\* What the user writes, removes or restores is what is wanted there from now
\* on; a bridge of ours that is removed leaves their text in the backup.
LEMMA UserKeeps ==
  ASSUME InstallInv,
         NEW t \in Targets, UserWrites(t) \/ UserRemoves(t) \/ UserRestores(t)
  PROVE  InstallInv'
<1>1. /\ TypeOK /\ BridgesInv /\ SlotInv /\ StepsInv /\ QueueInv /\ AliasHasWasm
      /\ job = Idle /\ UNCHANGED <<cli, latest, wasm, alias, job>>
  BY DEF InstallInv, FilesInv, UserWrites, UserRemoves, UserRestores
<1>2. job' \in Jobs /\ job'.steps = <<>> /\ job'.calls = <<>>
  BY <1>1, IdleIsAJob
<1>3. StepsInv' /\ QueueInv' /\ AliasHasWasm'
  BY <1>1, <1>2 DEF StepsInv, Ahead, QueueInv, AimInv, Staged, AliasHasWasm
<1>4. file[t] \in Contents /\ bak[t] \in Contents /\ mine[t] \in Contents
  BY <1>1 DEF TypeOK
<1>5. CASE UserWrites(t)
  <2>1. PICK c \in Contents :
          /\ file' = [file EXCEPT ![t] = c] /\ mine' = [mine EXCEPT ![t] = c] /\ bak' = bak
          /\ t = Slot => c.by = "user"
    <3>1. PICK c \in {Text(u) : u \in Texts} \cup (IF t = Slot THEN {} ELSE {Empty}) :
            file' = [file EXCEPT ![t] = c] /\ mine' = [mine EXCEPT ![t] = c]
      BY <1>5 DEF UserWrites
    <3>2. c \in Contents /\ (t = Slot => c.by = "user")
      BY <3>1, ContentsHas
    <3>3. bak' = bak
      BY <1>5 DEF UserWrites
    <3> QED
      BY <3>1, <3>2, <3>3
  <2>2. /\ TypeOK' /\ file'[t] = c /\ mine'[t] = c
        /\ \A x \in Targets : x # t => file'[x] = file[x] /\ mine'[x] = mine[x]
    BY <1>1, <1>2, <2>1 DEF TypeOK
  <2>3. BridgesInv'
    BY <1>1, <2>1, <2>2 DEF BridgesInv, Targets
  <2>4. SlotInv'
    <3>1. CASE t = Slot
      BY <2>1, <2>2, <3>1 DEF SlotInv
    <3>2. CASE t # Slot
      BY <1>1, <2>1, <2>2, <3>2 DEF SlotInv, Targets
    <3> QED
      BY <3>1, <3>2
  <2> QED
    BY <1>3, <2>2, <2>3, <2>4 DEF InstallInv, FilesInv
<1>6. CASE UserRemoves(t)
  <2>1. PICK c \in Contents :
          /\ file' = [file EXCEPT ![t] = Absent] /\ mine' = [mine EXCEPT ![t] = c] /\ bak' = bak
          /\ c = IF file[t].by = "ours" /\ t # Slot THEN mine[t] ELSE Absent
    BY <1>4, <1>6, <1>1, ContentsHas DEF UserRemoves, TypeOK
  <2>2. /\ TypeOK' /\ file'[t] = Absent /\ mine'[t] = c
        /\ \A x \in Targets : x # t => file'[x] = file[x] /\ mine'[x] = mine[x]
    BY <1>1, <1>2, <2>1, ContentsHas DEF TypeOK
  <2>3. BridgesInv'
    <3> SUFFICES ASSUME NEW x \in Bridges, mine'[x].by = "user"
                 PROVE  file'[x] = mine'[x] \/ (bak[x] = mine'[x] /\ file'[x].by \in {"ours", "none"})
      BY <2>1 DEF BridgesInv
    <3>1. x \in Targets
      BY DEF Targets
    <3>2. CASE x # t
      BY <1>1, <2>2, <3>1, <3>2 DEF BridgesInv
    <3>3. CASE x = t
      <4>1. c = mine[t] /\ file[t].by = "ours"
        BY <2>1, <2>2, <3>3, ContentsHas
      <4>2. mine[t].by = "user" => file[t] = mine[t] \/ bak[t] = mine[t]
        BY <1>1, <3>3 DEF BridgesInv
      <4> QED
        BY <2>2, <3>3, <4>1, <4>2, ContentsHas
    <3> QED
      BY <3>2, <3>3
  <2>4. SlotInv'
    <3>1. CASE t = Slot
      BY <2>1, <2>2, <3>1, ContentsHas DEF SlotInv
    <3>2. CASE t # Slot
      BY <1>1, <2>1, <2>2, <3>2 DEF SlotInv, Targets
    <3> QED
      BY <3>1, <3>2
  <2> QED
    BY <1>3, <2>2, <2>3, <2>4 DEF InstallInv, FilesInv
<1>7. CASE UserRestores(t)
  <2>1. /\ t # Slot /\ file' = [file EXCEPT ![t] = bak[t]] /\ bak' = [bak EXCEPT ![t] = Absent]
        /\ mine' = [mine EXCEPT ![t] = bak[t]]
    BY <1>7 DEF UserRestores
  <2>2. /\ TypeOK' /\ file'[t] = bak[t] /\ mine'[t] = bak[t]
        /\ \A x \in Targets : x # t => file'[x] = file[x] /\ mine'[x] = mine[x] /\ bak'[x] = bak[x]
    BY <1>1, <1>2, <1>4, <2>1, ContentsHas DEF TypeOK
  <2>3. BridgesInv'
    BY <1>1, <2>2 DEF BridgesInv, Targets
  <2>4. SlotInv'
    BY <1>1, <2>1, <2>2 DEF SlotInv, Targets
  <2> QED
    BY <1>3, <2>2, <2>3, <2>4 DEF InstallInv, FilesInv
<1> QED
  BY <1>5, <1>6, <1>7

\* The user's own alias is not the managed one, and a release is only news.
LEMMA NewsKeeps ==
  ASSUME InstallInv, UserEditsConfig \/ Release
  PROVE  InstallInv'
<1>1. /\ UNCHANGED <<cli, wasm, file, bak, mine, job>> /\ latest' \in Nat
      /\ alias' = alias \/ alias' # "ours"
  BY DEF UserEditsConfig, Release, InstallInv, FilesInv, TypeOK
<1> QED
  BY <1>1 DEF InstallInv, FilesInv, TypeOK, BridgesInv, SlotInv, StepsInv, Ahead, Backed,
       QueueInv, AimInv, AliasHasWasm

-----------------------------------------------------------------------------
(* The theorems                                                            *)

\* The invariant holds before anything is installed.
LEMMA InstallStarts ==
  Init => InstallInv
<1> SUFFICES ASSUME Init
             PROVE  InstallInv
  OBVIOUS
<1>1. job \in Jobs /\ StepsInv /\ QueueInv
  BY IdleOwesNothing DEF Init
<1>2. TypeOK /\ BridgesInv /\ SlotInv
  BY <1>1, ContentsHas DEF Init, TypeOK, BridgesInv, SlotInv, Targets
<1>3. AliasHasWasm
  BY DEF Init, AliasHasWasm
<1> QED
  BY <1>1, <1>2, <1>3 DEF InstallInv, FilesInv

\* Every step keeps the invariant.
LEMMA InstallSteps ==
  InstallInv /\ [Next]_vars => InstallInv'
<1> SUFFICES ASSUME InstallInv, [Next]_vars
             PROVE  InstallInv'
  OBVIOUS
<1>0. FilesInv /\ AimInv
  BY DEF InstallInv, QueueInv
<1>1. ASSUME Work
      PROVE  InstallInv'
  <2>1. CASE Plan
    BY <1>0, <2>1, PlanKeeps, PlanKeepsQueue DEF InstallInv
  <2>2. CASE Replace
    BY <1>0, <2>2, ReplaceKeeps, FileStepsKeepQueue DEF InstallInv
  <2>3. CASE Copy
    BY <1>0, <2>3, CopyKeeps, FileStepsKeepQueue DEF InstallInv
  <2>4. CASE Put
    BY <1>0, <2>4, PutKeeps, FileStepsKeepQueue DEF InstallInv
  <2>5. CASE Unlink
    BY <1>0, <2>5, UnlinkKeeps, FileStepsKeepQueue DEF InstallInv
  <2>6. CASE RemoveBackup
    BY <1>0, <2>6, RemoveBackupKeeps, FileStepsKeepQueue DEF InstallInv
  <2>7. CASE Download \/ InstallWasm \/ WriteAlias \/ WriteLayout \/ RestoreLayout
    BY <1>0, <2>7, SidebarKeeps, SidebarKeepsQueue DEF InstallInv
  <2>8. CASE SelfReplace
    BY <1>0, <2>8, SelfReplaceKeeps, LeavingKeepsQueue DEF InstallInv
  <2>9. CASE Fail
    BY <1>0, <2>9, FailKeeps, LeavingKeepsQueue DEF InstallInv
  <2>10. CASE Finish \/ Crash
    BY <2>10, EndKeeps
  <2> QED
    BY <1>1, <2>1, <2>2, <2>3, <2>4, <2>5, <2>6, <2>7, <2>8, <2>9, <2>10 DEF Work
<1>2. ASSUME User
      PROVE  InstallInv'
  BY <1>2, CommandsKeep, UserKeeps, NewsKeeps DEF User
<1>3. ASSUME Release
      PROVE  InstallInv'
  BY <1>3, NewsKeeps
<1>4. ASSUME UNCHANGED vars
      PROVE  InstallInv'
  BY <1>4 DEF vars, InstallInv, FilesInv, TypeOK, BridgesInv, SlotInv, StepsInv, Ahead, Backed,
       QueueInv, AimInv, AliasHasWasm
<1> QED
  BY <1>1, <1>2, <1>3, <1>4 DEF Next

\* The inductive invariant: whatever runs, fails or is killed, the books of
\* every path agree and the steps still queued may all be done.
THEOREM InstallCorrect == Spec => []InstallInv
BY InstallStarts, InstallSteps, PTL DEF Spec

\* What the user wrote at a path is there or in its backup, after any sequence
\* of installs, forced or not, updates, uninstalls, failures and kills.
THEOREM UsersTextIsKeptCorrect == Spec => []UsersTextIsKept
<1>1. InstallInv => UsersTextIsKept
  <2> SUFFICES ASSUME InstallInv, NEW t \in Targets, mine[t].by = "user"
               PROVE  mine[t] \in {file[t], bak[t]}
    BY DEF UsersTextIsKept
  <2>1. CASE t \in Bridges
    BY <2>1 DEF InstallInv, FilesInv, BridgesInv
  <2>2. CASE t = Slot
    BY <2>2, ContentsHas DEF InstallInv, FilesInv, SlotInv
  <2> QED
    BY <2>1, <2>2 DEF Targets
<1> QED
  BY <1>1, InstallCorrect, PTL

\* The managed alias names a wasm that is on disk, at every point where an
\* install, an update or an uninstall may be killed.
THEOREM AliasHasWasmCorrect == Spec => []AliasHasWasm
<1>1. InstallInv => AliasHasWasm
  BY DEF InstallInv
<1> QED
  BY <1>1, InstallCorrect, PTL

-----------------------------------------------------------------------------
(* An uninstall clears                                                     *)

\* A step in whose place `new' comes leaves owed what it does not do itself.
LEMMA OwedStays ==
  ASSUME TypeOK, job.steps # <<>>, NEW new \in Seq(Steps), Then(new)
  PROVE  /\ job'.calls = job.calls /\ job'.does = job.does /\ job'.clean = job.clean /\ job'.of = job.of
         /\ \A t \in Targets : Owed(t) =>
              \/ Owed(t)'
              \/ /\ Head(job.steps).op \in Clearing /\ Head(job.steps).at = t
                 /\ \A i \in 1 .. Len(new) : ~(new[i].op \in Clearing /\ new[i].at = t)
         /\ \A op \in {"unalias", "unlayout"} : OwedRail(op) => OwedRail(op)' \/ Head(job.steps).op = op
         /\ (\A i \in 1 .. Len(job.steps) : Unmakes(job.steps[i])) /\ (\A i \in 1 .. Len(new) : Unmakes(new[i]))
              => \A i \in 1 .. Len(job'.steps) : Unmakes(job'.steps[i])
<1>1. /\ Len(job.steps) \in Nat /\ Len(job.steps) > 0 /\ Head(job.steps) = job.steps[1] /\ Len(new) \in Nat
      /\ Len(job'.steps) = Len(new) + Len(job.steps) - 1
      /\ \A i \in 1 .. Len(new) : job'.steps[i] = new[i]
      /\ \A i \in (Len(new) + 1) .. Len(job'.steps) :
           /\ i - Len(new) + 1 \in 2 .. Len(job.steps)
           /\ job'.steps[i] = job.steps[i - Len(new) + 1]
  BY ThenSteps
<1>2. job'.calls = job.calls /\ job'.does = job.does /\ job'.clean = job.clean /\ job'.of = job.of
  BY ThenSteps DEF TypeOK, Jobs
<1>3. ASSUME NEW i \in 2 .. Len(job.steps)
      PROVE  \E j \in 1 .. Len(job'.steps) : job'.steps[j] = job.steps[i]
  <2> DEFINE j == i + Len(new) - 1
  <2>1. j \in (Len(new) + 1) .. Len(job'.steps) /\ j - Len(new) + 1 = i /\ j \in 1 .. Len(job'.steps)
    BY <1>1
  <2> HIDE DEF j
  <2> QED
    BY <1>1, <2>1
<1>4. ASSUME NEW i \in 1 .. Len(new)
      PROVE  i \in 1 .. Len(job'.steps) /\ job'.steps[i] = new[i]
  BY <1>1
<1>5. ASSUME NEW t \in Targets, Owed(t), ~Owed(t)'
      PROVE  /\ Head(job.steps).op \in Clearing /\ Head(job.steps).at = t
             /\ \A i \in 1 .. Len(new) : ~(new[i].op \in Clearing /\ new[i].at = t)
  <2>1. PICK i \in 1 .. Len(job.steps) : job.steps[i].op \in Clearing /\ job.steps[i].at = t
    BY <1>2, <1>5 DEF Owed
  <2>2. i = 1
    <3>1. ASSUME i # 1
          PROVE  FALSE
      <4>1. i \in 2 .. Len(job.steps)
        BY <1>1, <3>1
      <4>2. PICK j \in 1 .. Len(job'.steps) : job'.steps[j] = job.steps[i]
        BY <1>3, <4>1
      <4> QED
        BY <1>5, <2>1, <4>2 DEF Owed
    <3> QED
      BY <3>1
  <2> QED
    BY <1>1, <1>4, <1>5, <2>1, <2>2 DEF Owed
<1>6. ASSUME NEW op \in {"unalias", "unlayout"}, OwedRail(op), ~OwedRail(op)'
      PROVE  Head(job.steps).op = op
  <2>1. PICK i \in 1 .. Len(job.steps) : job.steps[i].op = op
    BY <1>2, <1>6 DEF OwedRail
  <2>2. i = 1
    <3>1. ASSUME i # 1
          PROVE  FALSE
      <4>1. i \in 2 .. Len(job.steps)
        BY <1>1, <3>1
      <4>2. PICK j \in 1 .. Len(job'.steps) : job'.steps[j] = job.steps[i]
        BY <1>3, <4>1
      <4> QED
        BY <1>6, <2>1, <4>2 DEF OwedRail
    <3> QED
      BY <3>1
  <2> QED
    BY <1>1, <2>1, <2>2
<1>7. ASSUME \A i \in 1 .. Len(job.steps) : Unmakes(job.steps[i]), \A i \in 1 .. Len(new) : Unmakes(new[i]),
             NEW i \in 1 .. Len(job'.steps)
      PROVE  Unmakes(job'.steps[i])
  <2>1. CASE i <= Len(new)
    BY <1>1, <1>7, <2>1
  <2>2. CASE ~(i <= Len(new))
    BY <1>1, <1>7, <2>2
  <2> QED
    BY <2>1, <2>2
<1> QED
  BY <1>2, <1>5, <1>6, <1>7

\* A step of an uninstall keeps what is owed when it makes nothing ours, and does
\* what it was queued for.
LEMMA ClearStays ==
  ASSUME TypeOK, ClearInv, job.does = "uninstall", job.steps # <<>>, NEW new \in Seq(Steps), Then(new),
         \A i \in 1 .. Len(new) : Unmakes(new[i]),
         \A t \in Targets : file'[t].by = "ours" =>
           /\ file[t].by = "ours"
           /\ Head(job.steps).op \in Clearing /\ Head(job.steps).at = t =>
                \E i \in 1 .. Len(new) : new[i].op \in Clearing /\ new[i].at = t,
         alias' = "ours" => alias = "ours" /\ Head(job.steps).op # "unalias",
         layout' \in {"injected", "whole"} => layout \in {"injected", "whole"} /\ Head(job.steps).op # "unlayout"
  PROVE  ClearInv'
<1>1. /\ job'.calls = job.calls /\ job'.does = job.does /\ job'.clean = job.clean /\ job'.of = job.of
      /\ \A i \in 1 .. Len(job.calls) : job.calls[i].what \in {"unwire", "unzellij"}
      /\ \A i \in 1 .. Len(job'.steps) : Unmakes(job'.steps[i])
  BY OwedStays DEF ClearInv
<1>2. ASSUME job.clean
      PROVE  OwedInv'
  <2>1. OwedInv
    BY <1>2 DEF ClearInv
  <2>2. ASSUME NEW t \in job'.of \cap Targets, file'[t].by = "ours"
        PROVE  Owed(t)'
    <3>1. Owed(t)
      BY <1>1, <2>1, <2>2 DEF OwedInv
    <3>2. \/ Owed(t)'
          \/ /\ Head(job.steps).op \in Clearing /\ Head(job.steps).at = t
             /\ \A i \in 1 .. Len(new) : ~(new[i].op \in Clearing /\ new[i].at = t)
      BY <2>2, <3>1, OwedStays
    <3> QED
      BY <2>2, <3>2
  <2>3. ASSUME "rail" \in job'.of, alias' = "ours"
        PROVE  OwedRail("unalias")'
    BY <1>1, <2>1, <2>3, OwedStays DEF OwedInv
  <2>4. ASSUME "rail" \in job'.of, layout' \in {"injected", "whole"}
        PROVE  OwedRail("unlayout")'
    BY <1>1, <2>1, <2>4, OwedStays DEF OwedInv
  <2> QED
    BY <2>2, <2>3, <2>4 DEF OwedInv
<1> QED
  BY <1>1, <1>2 DEF ClearInv

\* A replacement of an uninstall leaves its rename to do, a removal the restore
\* point; nothing else puts a step in its place.
LEMMA ClearKeeps ==
  ASSUME InstallInv, ClearInv, job.does = "uninstall",
         \/ Replace \/ Copy \/ Put \/ Unlink \/ RemoveBackup \/ Download \/ InstallWasm \/ WriteAlias
         \/ WriteLayout \/ RestoreLayout \/ SelfReplace
  PROVE  ClearInv'
<1>1. TypeOK /\ job.steps # <<>> /\ job \in Jobs /\ job.steps \in Seq(Steps)
  BY DEF InstallInv, FilesInv, TypeOK, Jobs, Replace, Copy, Put, Unlink, RemoveBackup, Download, InstallWasm, WriteAlias,
         WriteLayout, RestoreLayout, SelfReplace, Now
<1>2. Head(job.steps) = job.steps[1] /\ Head(job.steps) \in Steps /\ Len(job.steps) \in Nat /\ Len(job.steps) > 0
  BY <1>1, HeadTailProperties, EmptySeq, LenProperties
<1>3. PICK s \in Steps : s = Head(job.steps)
  BY <1>2
<1>4. Unmakes(s)
  BY <1>2, <1>3 DEF ClearInv
<1>5. /\ s.op \in {"replace", "put", "copy", "remove", "unback"} => At \in Targets /\ At = s.at
      /\ s.op \in {"replace", "put"} => s.new \in Contents /\ s.new.by # "ours"
  BY <1>3, <1>4, StepParts DEF At, Unmakes
<1>6. \A t \in Targets : file[t] \in Contents
  BY <1>1 DEF TypeOK
<1>7. CASE Replace
  <2>1. s.op = "replace" /\ UNCHANGED <<file, alias, layout>>
    BY <1>3, <1>7 DEF Replace, Now
  <2> DEFINE put == [op |-> "put", at |-> s.at, new |-> s.new]
             copy == [op |-> "copy", at |-> s.at]
  <2>2. put \in Steps /\ copy \in Steps /\ Unmakes(put) /\ Unmakes(copy) /\ put.op \in Clearing /\ put.at = s.at
    BY <1>5, <2>1 DEF Steps, Unmakes, Clearing
  <2>3. Then(<<put>>) \/ Then(<<copy, put>>)
    BY <1>3, <1>5, <2>1, <1>7 DEF Replace
  <2> HIDE DEF put, copy
  <2> DEFINE new1 == <<put>>
             new2 == <<copy, put>>
  <2>4. /\ new1 \in Seq(Steps) /\ Len(new1) = 1 /\ new1[1] = put
        /\ new2 \in Seq(Steps) /\ Len(new2) = 2 /\ new2[1] = copy /\ new2[2] = put
        /\ Then(new1) \/ Then(new2)
    BY <2>2, <2>3
  <2> HIDE DEF new1, new2
  <2>5. PICK new \in Seq(Steps), n \in {1, 2} :
          /\ Then(new) /\ Len(new) = n /\ new[n] = put /\ \A i \in 1 .. n : new[i] \in {copy, put}
    BY <2>4
  <2>6. \A i \in 1 .. Len(new) : Unmakes(new[i])
    BY <2>2, <2>5
  <2>7. \A t \in Targets : s.at = t => \E i \in 1 .. Len(new) : new[i].op \in Clearing /\ new[i].at = t
    BY <2>2, <2>5
  <2> QED
    BY <1>1, <1>3, <2>1, <2>5, <2>6, <2>7, ClearStays
<1>8. CASE Unlink
  <2>1. /\ s.op = "remove" /\ UNCHANGED <<alias, layout>> /\ Then(<<[op |-> "unback", at |-> s.at]>>)
        /\ file' = [file EXCEPT ![s.at] = Absent] /\ s.at \in Targets
    BY <1>3, <1>5, <1>8 DEF Unlink, Now
  <2>2. PICK r \in Steps : Then(<<r>>) /\ Unmakes(r)
    <3> DEFINE r == [op |-> "unback", at |-> s.at]
    <3>1. r \in Steps /\ Unmakes(r) /\ Then(<<r>>)
      BY <2>1 DEF Steps, Unmakes
    <3> QED
      BY <3>1
  <2> DEFINE new == <<r>>
  <2>3. new \in Seq(Steps) /\ Then(new) /\ \A i \in 1 .. Len(new) : Unmakes(new[i])
    BY <2>2
  <2> HIDE DEF new
  <2>4. \A t \in Targets : file'[t].by = "ours" => file[t].by = "ours" /\ s.at # t
    BY <1>1, <2>1, ContentsHas DEF TypeOK
  <2> QED
    BY <1>1, <1>3, <2>1, <2>3, <2>4, ClearStays
<1>9. CASE Copy \/ Put \/ RemoveBackup \/ WriteAlias \/ RestoreLayout
  <2> DEFINE new == <<>>
  <2>1. new \in Seq(Steps) /\ Then(new) /\ Len(new) = 0
    BY <1>9 DEF Copy, Put, RemoveBackup, WriteAlias, RestoreLayout
  <2> HIDE DEF new
  <2>2. \A i \in 1 .. Len(new) : Unmakes(new[i])
    BY <2>1
  <2>3. CASE Copy \/ RemoveBackup
    <3>1. UNCHANGED <<file, alias, layout>> /\ s.op \in {"copy", "unback"}
      BY <1>3, <2>3 DEF Copy, RemoveBackup, Now
    <3>2. Head(job.steps).op \notin Clearing /\ Head(job.steps).op \notin {"unalias", "unlayout"}
      BY <1>3, <3>1 DEF Clearing
    <3> QED
      BY <1>1, <2>1, <2>2, <3>1, <3>2, ClearStays
  <2>4. CASE Put
    <3>1. /\ UNCHANGED <<alias, layout>> /\ s.op = "put" /\ s.at \in Targets /\ s.new.by # "ours"
          /\ file' = [file EXCEPT ![s.at] = s.new]
      BY <1>3, <1>5, <2>4 DEF Put, Now
    <3>2. \A t \in Targets : file'[t].by = "ours" => file[t].by = "ours" /\ s.at # t
      BY <1>1, <3>1 DEF TypeOK
    <3> QED
      BY <1>1, <1>3, <2>1, <2>2, <3>1, <3>2, ClearStays
  <2>5. CASE WriteAlias
    <3>1. UNCHANGED <<file, layout>> /\ s.op = "unalias" /\ alias' = "removed"
      BY <1>3, <1>4, <2>5 DEF WriteAlias, Now, Unmakes, Clearing
    <3>2. Head(job.steps).op \notin Clearing /\ Head(job.steps).op # "unlayout"
      BY <1>3, <3>1 DEF Clearing
    <3> QED
      BY <1>1, <2>1, <2>2, <3>1, <3>2, ClearStays
  <2>6. CASE RestoreLayout
    <3>1. UNCHANGED <<file, alias>> /\ s.op = "unlayout" /\ layout' \notin {"injected", "whole"}
      BY <1>3, <2>6 DEF RestoreLayout, Now, LayoutBefore
    <3>2. Head(job.steps).op \notin Clearing /\ Head(job.steps).op # "unalias"
      BY <1>3, <3>1 DEF Clearing
    <3> QED
      BY <1>1, <2>1, <2>2, <3>1, <3>2, ClearStays
  <2> QED
    BY <1>9, <2>3, <2>4, <2>5, <2>6
<1>10. ~(Download \/ InstallWasm \/ WriteLayout \/ SelfReplace)
  BY <1>3, <1>4 DEF Download, InstallWasm, WriteLayout, SelfReplace, Now, Unmakes, Clearing
<1> QED
  BY <1>7, <1>8, <1>9, <1>10

\* What an uninstall plans clears what its call was owed for.
LEMMA ClearPlan ==
  ASSUME InstallInv, ClearInv, job.does = "uninstall", Plan
  PROVE  ClearInv'
<1>1. /\ FilesInv /\ job \in Jobs /\ job.calls \in Seq(Calls) /\ job.calls # <<>> /\ job.steps = <<>>
      /\ UNCHANGED <<file, alias, layout>>
  BY DEF InstallInv, FilesInv, TypeOK, Jobs, Plan, shared
<1>2. /\ Head(job.calls) = job.calls[1] /\ Len(job.calls) \in Nat /\ Len(job.calls) >= 1
      /\ Head(job.calls) \in Calls /\ Tail(job.calls) \in Seq(Calls)
      /\ Len(Tail(job.calls)) = Len(job.calls) - 1
      /\ \A i \in 1 .. Len(Tail(job.calls)) : Tail(job.calls)[i] = job.calls[i + 1]
  BY <1>1, HeadTailProperties, EmptySeq, LenProperties
<1>3. PICK c \in Calls : c = Head(job.calls)
  BY <1>2
<1>4. c.what \in {"unwire", "unzellij"} /\ c.ts \in {Bridges, {Slot}, {}}
  BY <1>2, <1>3 DEF ClearInv, Calls
<1> DEFINE steps == Planned(c)
<1>5. job' = [job EXCEPT !.steps = steps, !.calls = Tail(job.calls)]
  <2>1. <<>> \o Tail(job.calls) = Tail(job.calls)
    BY <1>2
  <2> QED
    BY <1>3, <1>4, <2>1 DEF Plan
<1>6. /\ \A i \in 1 .. Len(steps) : Unmakes(steps[i])
      /\ c.what = "unwire" => \A t \in c.ts : file[t].by = "ours" =>
           \E i \in 1 .. Len(steps) : steps[i].op \in Clearing /\ steps[i].at = t
      /\ c.what = "unzellij" => /\ (alias = "ours" => \E i \in 1 .. Len(steps) : steps[i].op = "unalias")
                                /\ \E i \in 1 .. Len(steps) : steps[i].op = "unlayout"
  <2>1. CASE c.what = "unwire"
    <3>1. steps = Unwiring(c.ts)
      BY <2>1 DEF Planned
    <3> HIDE DEF steps
    <3>2. /\ \A i \in 1 .. Len(steps) :
               /\ steps[i].op \in {"put", "replace"} => steps[i].new.by # "ours"
               /\ steps[i].op \in {"put", "replace", "remove"}
          /\ \A t \in c.ts : file[t].by = "ours" => \E i \in 1 .. Len(steps) : steps[i].at = t
      BY <1>1, <1>4, <3>1, UnwiringSteps
    <3> QED
      BY <2>1, <3>2 DEF Unmakes, Clearing
  <2>2. CASE c.what = "unzellij"
    <3>1. steps = UnsetupZellij
      BY <2>2 DEF Planned
    <3>2. CASE alias = "ours"
      <4> DEFINE a == <<[op |-> "unalias"]>>
                 b == <<[op |-> "unlayout"]>>
      <4>1. steps = a \o b
        BY <3>1, <3>2 DEF UnsetupZellij
      <4>3. /\ a \in Seq(Steps) /\ Len(a) = 1 /\ a[1].op = "unalias"
            /\ b \in Seq(Steps) /\ Len(b) = 1 /\ b[1].op = "unlayout"
        BY DEF Steps, ZellijOps
      <4> HIDE DEF steps, a, b
      <4>2. Len(steps) = 2 /\ steps[1].op = "unalias" /\ steps[2].op = "unlayout"
        BY <4>1, <4>3, ConcatProperties
      <4> QED
        BY <2>2, <4>2 DEF Unmakes, Clearing
    <3>3. CASE alias # "ours"
      <4>1. steps = <<[op |-> "unlayout"]>>
        BY <3>1, <3>3 DEF UnsetupZellij
      <4> HIDE DEF steps
      <4>2. Len(steps) = 1 /\ steps[1].op = "unlayout"
        BY <4>1
      <4> QED
        BY <2>2, <3>3, <4>2 DEF Unmakes, Clearing
    <3> QED
      BY <3>2, <3>3
  <2> QED
    BY <1>4, <2>1, <2>2
<1> HIDE DEF steps
<1>7. /\ job'.steps = steps /\ job'.calls = Tail(job.calls) /\ job'.does = job.does /\ job'.clean = job.clean
      /\ job'.of = job.of
  BY <1>1, <1>5 DEF Jobs
<1>8. \A i \in 1 .. Len(job'.calls) : job'.calls[i].what \in {"unwire", "unzellij"}
  BY <1>2, <1>7 DEF ClearInv
<1>9. ASSUME NEW i \in 1 .. Len(job.calls), i # 1
      PROVE  i - 1 \in 1 .. Len(job'.calls) /\ job'.calls[i - 1] = job.calls[i]
  BY <1>2, <1>7, <1>9
<1>10. Len(job.steps) = 0
  BY <1>1
<1>11. ASSUME job.clean
       PROVE  OwedInv'
  <2>1. OwedInv
    BY <1>11 DEF ClearInv
  <2>2. ASSUME NEW t \in job'.of \cap Targets, file'[t].by = "ours"
        PROVE  Owed(t)'
    <3>1. PICK i \in 1 .. Len(job.calls) : job.calls[i].what = "unwire" /\ t \in job.calls[i].ts
      BY <1>1, <1>7, <1>10, <2>1, <2>2 DEF OwedInv, Owed
    <3>2. CASE i # 1
      BY <1>9, <3>1, <3>2 DEF Owed
    <3>3. CASE i = 1
      <4>1. \E j \in 1 .. Len(steps) : steps[j].op \in Clearing /\ steps[j].at = t
        BY <1>1, <1>2, <1>3, <1>6, <2>2, <3>1, <3>3
      <4> QED
        BY <1>7, <4>1 DEF Owed
    <3> QED
      BY <3>2, <3>3
  <2>3. ASSUME NEW op \in {"unalias", "unlayout"}, "rail" \in job'.of, OwedRail(op), op = "unalias" => alias = "ours"
        PROVE  OwedRail(op)'
    <3>1. PICK i \in 1 .. Len(job.calls) : job.calls[i].what = "unzellij"
      BY <1>10, <2>3 DEF OwedRail
    <3>2. CASE i # 1
      BY <1>9, <3>1, <3>2 DEF OwedRail
    <3>3. CASE i = 1
      <4>1. \E j \in 1 .. Len(steps) : steps[j].op = op
        BY <1>2, <1>3, <1>6, <2>3, <3>1, <3>3
      <4> QED
        BY <1>7, <4>1 DEF OwedRail
    <3> QED
      BY <3>2, <3>3
  <2> QED
    BY <1>1, <1>7, <2>1, <2>2, <2>3 DEF OwedInv
<1> QED
  BY <1>6, <1>7, <1>8, <1>11 DEF ClearInv

\* An uninstall starts with all of it owed.
LEMMA ClearStarts ==
  ASSUME job = Idle, NEW c \in Calls, NEW of, Run("uninstall", <<c>>, 0, of),
         \/ c.what = "unwire" /\ of = c.ts /\ "rail" \notin of
         \/ c.what = "unzellij" /\ of = {"rail"} /\ "rail" \notin Targets
  PROVE  ClearInv'
<1> DEFINE calls == <<c>>
<1>1. Len(calls) = 1 /\ calls[1] = c
  OBVIOUS
<1> HIDE DEF calls
<1>2. job'.calls = calls /\ job'.steps = <<>> /\ job'.of = of
  BY DEF Run, Idle, calls
<1>3. ASSUME NEW t \in of \cap Targets
      PROVE  Owed(t)'
  BY <1>1, <1>2 DEF Owed
<1>4. ASSUME NEW op, "rail" \in of
      PROVE  OwedRail(op)'
  <2>1. 1 \in 1 .. Len(job'.calls) /\ job'.calls[1].what = "unzellij"
    BY <1>1, <1>2, <1>4
  <2> QED
    BY <2>1 DEF OwedRail
<1>5. OwedInv'
  BY <1>2, <1>3, <1>4 DEF OwedInv
<1>6. \A i \in 1 .. Len(job'.calls) : job'.calls[i].what \in {"unwire", "unzellij"}
  <2>1. \A i \in 1 .. Len(calls) : calls[i] = c
    BY <1>1
  <2> QED
    BY <1>2, <2>1
<1>7. Len(job'.steps) = 0
  BY <1>2
<1> QED
  BY <1>5, <1>6, <1>7 DEF ClearInv

\* Every step keeps what an uninstall owes.
LEMMA ClearSteps ==
  InstallInv /\ ClearInv /\ [Next]_vars => ClearInv'
<1> SUFFICES ASSUME InstallInv, ClearInv, [Next]_vars
             PROVE  ClearInv'
  OBVIOUS
<1>1. CASE \/ Replace \/ Copy \/ Put \/ Unlink \/ RemoveBackup \/ Download \/ InstallWasm \/ WriteAlias
           \/ WriteLayout \/ RestoreLayout
  <2>1. Then(<<>>) \/ \E new : Then(new)
    BY <1>1 DEF Replace, Copy, Put, Unlink, RemoveBackup, Download, InstallWasm, WriteAlias, WriteLayout, RestoreLayout
  <2>2. job'.does = job.does
    BY <2>1 DEF Then, InstallInv, FilesInv, TypeOK, Jobs
  <2>3. CASE job.does = "uninstall"
    BY <1>1, <2>3, ClearKeeps
  <2>4. CASE job.does # "uninstall"
    BY <2>2, <2>4 DEF ClearInv
  <2> QED
    BY <2>3, <2>4
<1>2. CASE SelfReplace
  <2>1. job'.does = job.does
    BY <1>2 DEF SelfReplace, InstallInv, FilesInv, TypeOK, Jobs
  <2>2. CASE job.does = "uninstall"
    BY <1>2, <2>2, ClearKeeps
  <2>3. CASE job.does # "uninstall"
    BY <2>1, <2>3 DEF ClearInv
  <2> QED
    BY <2>2, <2>3
<1>3. CASE Plan
  <2>1. job'.does = job.does
    BY <1>3 DEF Plan, InstallInv, FilesInv, TypeOK, Jobs
  <2>2. CASE job.does = "uninstall"
    BY <1>3, <2>2, ClearPlan
  <2>3. CASE job.does # "uninstall"
    BY <2>1, <2>3 DEF ClearInv
  <2> QED
    BY <2>2, <2>3
<1>4. CASE Fail
  <2> DEFINE op == Head(job.steps).op
             rest == Remaining(op, Tail(job.steps))
             calls == IF op = "self" THEN <<>> ELSE job.calls
  <2>1. job.steps # <<>> /\ job' = [job EXCEPT !.steps = rest, !.clean = FALSE, !.calls = calls]
    BY <1>4 DEF Fail
  <2>2. rest \in {<<>>, Tail(job.steps)} /\ calls \in {<<>>, job.calls}
    BY DEF Remaining
  <2> HIDE DEF op, rest, calls
  <2>3. job \in Jobs /\ job.steps \in Seq(Steps)
    BY DEF InstallInv, FilesInv, TypeOK, Jobs
  <2>4. /\ job'.steps \in {<<>>, Tail(job.steps)} /\ job'.calls \in {<<>>, job.calls}
        /\ job'.clean = FALSE /\ job'.does = job.does
    BY <2>1, <2>2, <2>3 DEF Jobs
  <2>5. /\ Len(Tail(job.steps)) = Len(job.steps) - 1 /\ Len(job.steps) \in Nat
        /\ \A i \in 1 .. Len(Tail(job.steps)) : Tail(job.steps)[i] = job.steps[i + 1]
    BY <2>1, <2>3, HeadTailProperties, LenProperties
  <2>6. ASSUME job.does = "uninstall", NEW i \in 1 .. Len(job'.steps)
        PROVE  Unmakes(job'.steps[i])
    <3>1. job'.steps = Tail(job.steps)
      <4>1. job'.steps # <<>>
        BY <2>6
      <4> QED
        BY <2>4, <4>1
    <3>2. i + 1 \in 1 .. Len(job.steps) /\ job'.steps[i] = job.steps[i + 1]
      BY <2>5, <3>1
    <3> QED
      BY <2>6, <3>2 DEF ClearInv
  <2> QED
    BY <2>4, <2>6 DEF ClearInv
<1>5. CASE Finish \/ Crash
  BY <1>5 DEF Finish, Crash, ClearInv, Idle
<1>6. CASE \/ \E ts \in Producers : SetupAgents(ts)
           \/ SetupRail \/ Update
  <2>1. job'.does \in {"install", "update"}
    BY <1>6 DEF SetupAgents, SetupRail, Update, Run, Idle
  <2> QED
    BY <2>1 DEF ClearInv
<1>7. CASE \E ts \in Producers : UninstallAgents(ts)
  <2>1. PICK ts \in Producers : UninstallAgents(ts)
    BY <1>7
  <2>2. PICK c \in Calls : c = Call("unwire", ts, FALSE)
    BY DEF Call, Calls, Producers, Whats
  <2>3. c.what = "unwire" /\ c.ts = ts /\ "rail" \notin ts
    BY <2>2, InstallerAssumption DEF Call, Producers
  <2>4. Run("uninstall", <<c>>, 0, ts) /\ job = Idle
    BY <2>1, <2>2 DEF UninstallAgents, Run
  <2> QED
    BY <2>3, <2>4, ClearStarts
<1>8. CASE UninstallRail
  <2>1. PICK c \in Calls : c = Call("unzellij", {}, FALSE)
    BY DEF Call, Calls, Whats
  <2>2. c.what = "unzellij" /\ "rail" \notin Targets
    BY <2>1, InstallerAssumption DEF Call, Targets
  <2>3. Run("uninstall", <<c>>, 0, {"rail"}) /\ job = Idle
    BY <1>8, <2>1 DEF UninstallRail, Run
  <2> QED
    BY <2>2, <2>3, ClearStarts
<1>9. CASE UserEditsConfig \/ \E t \in Targets : UserWrites(t) \/ UserRemoves(t) \/ UserRestores(t)
  <2>1. job' = Idle
    BY <1>9 DEF UserEditsConfig, UserWrites, UserRemoves, UserRestores
  <2> QED
    BY <2>1 DEF ClearInv, Idle
<1>10. CASE Release \/ UNCHANGED vars
  BY <1>10 DEF Release, vars, ClearInv, OwedInv, Owed, OwedRail
<1> QED
  BY <1>1, <1>2, <1>3, <1>4, <1>5, <1>6, <1>7, <1>8, <1>9, <1>10 DEF Next, Work, User

\* An uninstall that reports no failure leaves nothing of ours that is loaded,
\* the slot with what the user last had there, and no layout of setup's, even
\* after attempts that failed or were killed half way.
THEOREM UninstallClearsCorrect == Spec => UninstallClears
<1>1. Init => ClearInv
  BY DEF Init, ClearInv, Idle
<1>2. InstallInv /\ ClearInv =>
        (job.does = "uninstall" /\ Finish /\ job.clean =>
           /\ \A t \in job.of \cap Targets : file[t].by # "ours" /\ (t = Slot => file[t] = mine[t])
           /\ "rail" \in job.of => alias # "ours" /\ layout \notin {"injected", "whole"})
  <2> SUFFICES ASSUME InstallInv, ClearInv, job.does = "uninstall", Finish, job.clean
               PROVE  /\ \A t \in job.of \cap Targets : file[t].by # "ours" /\ (t = Slot => file[t] = mine[t])
                      /\ "rail" \in job.of => alias # "ours" /\ layout \notin {"injected", "whole"}
    OBVIOUS
  <2>1. OwedInv /\ Len(job.calls) = 0 /\ Len(job.steps) = 0
    BY DEF ClearInv, Finish
  <2>2. \A t \in Targets : ~Owed(t)
    BY <2>1 DEF Owed
  <2>3. \A op \in {"unalias", "unlayout"} : ~OwedRail(op)
    BY <2>1 DEF OwedRail
  <2>4. SlotInv
    BY DEF InstallInv, FilesInv
  <2> QED
    BY <2>1, <2>2, <2>3, <2>4 DEF OwedInv, SlotInv
<1> QED
  BY <1>1, <1>2, ClearSteps, InstallCorrect, PTL DEF Spec, UninstallClears

-----------------------------------------------------------------------------
(* An update ends whole                                                    *)

\* A step in whose place `new' comes leaves due what it does not do itself.
LEMMA DueStays ==
  ASSUME TypeOK, job.steps # <<>>, NEW new \in Seq(Steps), Then(new)
  PROVE  /\ job'.calls = job.calls /\ job'.does = job.does /\ job'.clean = job.clean /\ job'.moved = job.moved
         /\ job'.target = job.target
         /\ Head(job.steps).op \notin {"stage", "refresh", "refuse"} => (WasmDue => WasmDue')
         /\ \A t \in Bridges : BridgeDue(t) =>
              \/ BridgeDue(t)'
              \/ Head(job.steps).op = "refuse"
              \/ /\ Head(job.steps).op \in {"replace", "put"} /\ Head(job.steps).at = t
                 /\ \A i \in 1 .. Len(new) : ~(new[i].op \in {"replace", "put"} /\ new[i].at = t)
         /\ \A v : (\A i \in 1 .. Len(job.steps) : OfTarget(job.steps[i], v)) /\ (\A i \in 1 .. Len(new) : OfTarget(new[i], v))
              => \A i \in 1 .. Len(job'.steps) : OfTarget(job'.steps[i], v)
         /\ \A i \in 1 .. Len(job'.steps) : \/ \E j \in 1 .. Len(new) : job'.steps[i] = new[j]
                                          \/ \E j \in 2 .. Len(job.steps) : job'.steps[i] = job.steps[j]
<1>1. /\ Len(job.steps) \in Nat /\ Len(job.steps) > 0 /\ Head(job.steps) = job.steps[1] /\ Len(new) \in Nat
      /\ Len(job'.steps) = Len(new) + Len(job.steps) - 1
      /\ \A i \in 1 .. Len(new) : job'.steps[i] = new[i]
      /\ \A i \in (Len(new) + 1) .. Len(job'.steps) :
           /\ i - Len(new) + 1 \in 2 .. Len(job.steps)
           /\ job'.steps[i] = job.steps[i - Len(new) + 1]
  BY ThenSteps
<1>2. /\ job'.calls = job.calls /\ job'.does = job.does /\ job'.clean = job.clean /\ job'.moved = job.moved
      /\ job'.target = job.target
  BY ThenSteps DEF TypeOK, Jobs
<1>3. ASSUME NEW i \in 1 .. Len(job.steps), i # 1
      PROVE  \E j \in 1 .. Len(job'.steps) : job'.steps[j] = job.steps[i]
  <2> DEFINE j == i + Len(new) - 1
  <2>1. j \in (Len(new) + 1) .. Len(job'.steps) /\ j - Len(new) + 1 = i /\ j \in 1 .. Len(job'.steps)
    BY <1>1, <1>3
  <2> HIDE DEF j
  <2> QED
    BY <1>1, <2>1
<1>4. ASSUME NEW i \in 1 .. Len(new)
      PROVE  i \in 1 .. Len(job'.steps) /\ job'.steps[i] = new[i]
  BY <1>1
<1>5. ASSUME NEW i \in 1 .. Len(job'.steps)
      PROVE  \/ \E j \in 1 .. Len(new) : job'.steps[i] = new[j]
             \/ \E j \in 2 .. Len(job.steps) : job'.steps[i] = job.steps[j]
  <2>1. CASE i <= Len(new)
    BY <1>1, <2>1
  <2>2. CASE ~(i <= Len(new))
    <3>1. i \in (Len(new) + 1) .. Len(job'.steps)
      BY <1>1, <2>2
    <3> QED
      BY <1>1, <3>1
  <2> QED
    BY <2>1, <2>2
<1>6. ASSUME Head(job.steps).op \notin {"stage", "refresh", "refuse"}, WasmDue
      PROVE  WasmDue'
  <2>1. CASE CallDue("zellij")
    BY <1>2, <2>1 DEF WasmDue, CallDue
  <2>2. CASE StepDue({"stage", "refresh", "refuse"})
    <3>1. PICK i \in 1 .. Len(job.steps) : job.steps[i].op \in {"stage", "refresh", "refuse"}
      BY <2>2 DEF StepDue
    <3>2. i # 1
      BY <1>1, <1>6, <3>1
    <3> QED
      BY <1>3, <3>1, <3>2 DEF WasmDue, StepDue
  <2> QED
    BY <1>6, <2>1, <2>2 DEF WasmDue
<1>7. ASSUME NEW t \in Bridges, BridgeDue(t), ~BridgeDue(t)', Head(job.steps).op # "refuse"
      PROVE  /\ Head(job.steps).op \in {"replace", "put"} /\ Head(job.steps).at = t
             /\ \A i \in 1 .. Len(new) : ~(new[i].op \in {"replace", "put"} /\ new[i].at = t)
  <2>1. /\ \A i \in 1 .. Len(job'.steps) : ~(job'.steps[i].op \in {"replace", "put"} /\ job'.steps[i].at = t)
        /\ \A i \in 1 .. Len(job'.steps) : job'.steps[i].op # "refuse"
    BY <1>7 DEF BridgeDue, StepDue
  <2>2. PICK i \in 1 .. Len(job.steps) :
          \/ job.steps[i].op = "refuse"
          \/ job.steps[i].op \in {"replace", "put"} /\ job.steps[i].at = t
    BY <1>2, <1>7 DEF BridgeDue, CallDue, StepDue
  <2>3. i = 1
    BY <1>3, <2>1, <2>2
  <2> QED
    BY <1>1, <1>4, <1>7, <2>1, <2>2, <2>3
<1>8. ASSUME NEW v, \A i \in 1 .. Len(job.steps) : OfTarget(job.steps[i], v),
             \A i \in 1 .. Len(new) : OfTarget(new[i], v),
             NEW i \in 1 .. Len(job'.steps)
      PROVE  OfTarget(job'.steps[i], v)
  <2>1. \/ \E j \in 1 .. Len(new) : job'.steps[i] = new[j]
        \/ \E j \in 1 .. Len(job.steps) : job'.steps[i] = job.steps[j]
    BY <1>1, <1>5
  <2> QED
    BY <1>8, <2>1
<1> QED
  BY <1>2, <1>5, <1>6, <1>7, <1>8

\* A step of an update keeps what is due when it writes only what was asked for,
\* and does what it was queued for.
LEMMA WholeStays ==
  ASSUME TypeOK, WholeInv, job.does = "update", job.steps # <<>>, NEW new \in Seq(Steps), Then(new), cli' = cli,
         Head(job.steps).op \notin {"self", "refuse"}, \A i \in 1 .. Len(new) : new[i].op # "self",
         job.moved => \A i \in 1 .. Len(new) : OfTarget(new[i], job.target),
         \/ wasm' = job.target
         \/ wasm' = wasm /\ Head(job.steps).op \notin {"stage", "refresh"},
         \A t \in Bridges : file'[t].by = "ours" =>
           \/ job.moved => file'[t] = Ours(job.target)
           \/ /\ file'[t] = file[t]
              /\ Head(job.steps).op \in {"replace", "put"} /\ Head(job.steps).at = t =>
                   \E i \in 1 .. Len(new) : new[i].op \in {"replace", "put"} /\ new[i].at = t
  PROVE  WholeInv'
<1>1. /\ job'.calls = job.calls /\ job'.does = job.does /\ job'.clean = job.clean /\ job'.moved = job.moved
      /\ job'.target = job.target
      /\ \A i \in 1 .. Len(job'.steps) : \/ \E j \in 1 .. Len(new) : job'.steps[i] = new[j]
                                         \/ \E j \in 2 .. Len(job.steps) : job'.steps[i] = job.steps[j]
  BY DueStays
<1>2. job.steps \in Seq(Steps) /\ Len(job.steps) \in Nat /\ Len(job.steps) > 0
  BY EmptySeq, LenProperties DEF TypeOK, Jobs
<1>3. ASSUME NEW i \in 1 .. Len(job'.calls), job'.calls[i].what = "self"
      PROVE  FALSE
  BY <1>1, <1>3 DEF WholeInv
<1>4. ASSUME NEW i \in 1 .. Len(job'.steps), job'.steps[i].op = "self"
      PROVE  FALSE
  <2>1. PICK j \in 2 .. Len(job.steps) : job.steps[j].op = "self"
    BY <1>1, <1>4
  <2>2. j \in 1 .. Len(job.steps) /\ Len(job.steps) # 1
    BY <1>2, <2>1
  <2> QED
    BY <2>1, <2>2 DEF WholeInv
<1>5. job'.moved => cli' = job'.target /\ \A i \in 1 .. Len(job'.steps) : OfTarget(job'.steps[i], job'.target)
  <2> SUFFICES ASSUME job.moved
               PROVE  cli = job.target /\ \A i \in 1 .. Len(job'.steps) : OfTarget(job'.steps[i], job.target)
    BY <1>1
  <2>1. cli = job.target /\ \A i \in 1 .. Len(job.steps) : OfTarget(job.steps[i], job.target)
    BY DEF WholeInv
  <2> QED
    BY <2>1, DueStays
<1>6. job'.clean => wasm' \in {0, job'.target} \/ WasmDue'
  BY <1>1, DueStays DEF WholeInv
<1>7. ASSUME job'.clean, job'.moved, NEW t \in Bridges, file'[t].by = "ours"
      PROVE  file'[t] = Ours(job'.target) \/ BridgeDue(t)'
  <2>1. CASE file'[t] = Ours(job.target)
    BY <1>1, <2>1
  <2>2. CASE file'[t] # Ours(job.target)
    <3>1. /\ file'[t] = file[t]
          /\ Head(job.steps).op \in {"replace", "put"} /\ Head(job.steps).at = t =>
               \E i \in 1 .. Len(new) : new[i].op \in {"replace", "put"} /\ new[i].at = t
      BY <1>1, <1>7, <2>2
    <3>2. BridgeDue(t)
      BY <1>1, <1>7, <2>2, <3>1 DEF WholeInv
    <3> QED
      BY <3>1, <3>2, DueStays
  <2> QED
    BY <2>1, <2>2
<1> QED
  BY <1>1, <1>3, <1>4, <1>5, <1>6, <1>7 DEF WholeInv

\* The steps on the files and the wasm keep what an update still has to do.
LEMMA WholeKeeps ==
  ASSUME InstallInv, WholeInv, job.does = "update",
         \/ Replace \/ Copy \/ Put \/ Unlink \/ RemoveBackup \/ Download \/ InstallWasm \/ WriteAlias
         \/ WriteLayout \/ RestoreLayout
  PROVE  WholeInv'
<1>1. TypeOK /\ job.steps # <<>> /\ job \in Jobs /\ job.steps \in Seq(Steps) /\ cli' = cli
  BY DEF InstallInv, FilesInv, TypeOK, Jobs, Replace, Copy, Put, Unlink, RemoveBackup, Download, InstallWasm, WriteAlias,
         WriteLayout, RestoreLayout, Now, shared
<1>2. Head(job.steps) = job.steps[1] /\ Head(job.steps) \in Steps /\ Len(job.steps) \in Nat /\ Len(job.steps) > 0
  BY <1>1, HeadTailProperties, EmptySeq, LenProperties
<1>3. PICK s \in Steps : s = Head(job.steps)
  BY <1>2
<1>4. job.moved => OfTarget(s, job.target)
  BY <1>2, <1>3 DEF WholeInv
<1>5. /\ s.op \in {"replace", "put", "copy", "remove", "unback"} => At \in Targets /\ At = s.at
      /\ s.op \in {"replace", "put"} => s.new \in Contents
  BY <1>3, StepParts DEF At
<1>6. Head(job.steps).op \notin {"self", "refuse"}
  BY DEF Replace, Copy, Put, Unlink, RemoveBackup, Download, InstallWasm, WriteAlias, WriteLayout, RestoreLayout, Now
<1>7. CASE Replace
  <2>1. s.op = "replace" /\ UNCHANGED <<file, wasm>>
    BY <1>3, <1>7 DEF Replace, Now
  <2> DEFINE put == [op |-> "put", at |-> s.at, new |-> s.new]
             copy == [op |-> "copy", at |-> s.at]
  <2>2. /\ put \in Steps /\ copy \in Steps /\ put.op = "put" /\ put.at = s.at /\ copy.op = "copy"
        /\ job.moved => OfTarget(put, job.target)
    BY <1>4, <1>5, <2>1 DEF Steps, OfTarget
  <2>3. Then(<<put>>) \/ Then(<<copy, put>>)
    BY <1>3, <1>5, <2>1, <1>7 DEF Replace
  <2> HIDE DEF put, copy
  <2> DEFINE new1 == <<put>>
             new2 == <<copy, put>>
  <2>4. /\ new1 \in Seq(Steps) /\ Len(new1) = 1 /\ new1[1] = put
        /\ new2 \in Seq(Steps) /\ Len(new2) = 2 /\ new2[1] = copy /\ new2[2] = put
        /\ Then(new1) \/ Then(new2)
    BY <2>2, <2>3
  <2> HIDE DEF new1, new2
  <2>5. PICK new \in Seq(Steps), n \in {1, 2} :
          /\ Then(new) /\ Len(new) = n /\ new[n] = put /\ \A i \in 1 .. n : new[i] \in {copy, put}
    BY <2>4
  <2>6. /\ \A i \in 1 .. Len(new) : new[i].op # "self"
        /\ job.moved => \A i \in 1 .. Len(new) : OfTarget(new[i], job.target)
    BY <2>2, <2>5 DEF OfTarget
  <2>7. \A t \in Bridges : s.at = t => \E i \in 1 .. Len(new) : new[i].op \in {"replace", "put"} /\ new[i].at = t
    BY <2>2, <2>5
  <2>8. Head(job.steps).op \notin {"stage", "refresh"}
    BY <1>3, <2>1
  <2> QED
    BY <1>1, <1>3, <1>6, <2>1, <2>5, <2>6, <2>7, <2>8, WholeStays
<1>8. CASE Unlink
  <2>1. /\ s.op = "remove" /\ UNCHANGED wasm /\ Then(<<[op |-> "unback", at |-> s.at]>>)
        /\ file' = [file EXCEPT ![s.at] = Absent] /\ s.at \in Targets
    BY <1>3, <1>5, <1>8 DEF Unlink, Now
  <2>2. PICK r \in Steps : Then(<<r>>) /\ r.op = "unback"
    <3> DEFINE r == [op |-> "unback", at |-> s.at]
    <3>1. r \in Steps /\ r.op = "unback" /\ Then(<<r>>)
      BY <2>1 DEF Steps
    <3> QED
      BY <3>1
  <2> DEFINE new == <<r>>
  <2>3. /\ new \in Seq(Steps) /\ Then(new)
        /\ \A i \in 1 .. Len(new) : new[i].op # "self" /\ OfTarget(new[i], job.target)
    BY <2>2 DEF OfTarget
  <2> HIDE DEF new
  <2>4. \A t \in Bridges : file'[t].by = "ours" => file'[t] = file[t]
    BY <1>1, <2>1, ContentsHas DEF TypeOK, Targets
  <2>5. Head(job.steps).op \notin {"stage", "refresh", "replace", "put"}
    BY <1>3, <2>1
  <2> QED
    BY <1>1, <1>6, <2>1, <2>3, <2>4, <2>5, WholeStays
<1>9. CASE Copy \/ Put \/ RemoveBackup \/ Download \/ InstallWasm \/ WriteAlias \/ WriteLayout \/ RestoreLayout
  <2> DEFINE new == <<>>
  <2>1. new \in Seq(Steps) /\ Then(new) /\ Len(new) = 0
    BY <1>9 DEF Copy, Put, RemoveBackup, Download, InstallWasm, WriteAlias, WriteLayout, RestoreLayout
  <2> HIDE DEF new
  <2>2. \A i \in 1 .. Len(new) : new[i].op # "self" /\ OfTarget(new[i], job.target)
    BY <2>1
  <2>3. CASE Put
    <3>1. /\ UNCHANGED wasm /\ s.op = "put" /\ s.at \in Targets /\ file' = [file EXCEPT ![s.at] = s.new]
      BY <1>3, <1>5, <2>3 DEF Put, Now
    <3>2. ASSUME NEW t \in Bridges
          PROVE  \/ job.moved => file'[t] = Ours(job.target)
                 \/ file'[t] = file[t] /\ s.at # t
      <4>1. t \in Targets /\ t # Slot
        BY InstallerAssumption DEF Targets
      <4>2. CASE s.at # t
        BY <1>1, <3>1, <4>1, <4>2 DEF TypeOK
      <4>3. CASE s.at = t
        BY <1>1, <1>4, <3>1, <4>1, <4>3 DEF TypeOK, OfTarget
      <4> QED
        BY <4>2, <4>3
    <3>3. Head(job.steps).op \notin {"stage", "refresh"}
      BY <1>3, <3>1
    <3> QED
      BY <1>1, <1>3, <1>6, <2>1, <2>2, <3>1, <3>2, <3>3, WholeStays
  <2>4. CASE InstallWasm
    <3>1. wasm' = job.target /\ file' = file /\ s.op \in {"stage", "refresh"}
      BY <1>3, <2>4 DEF InstallWasm, DownloadVersion, WholeInv, Now
    <3>2. Head(job.steps).op \notin {"replace", "put"}
      BY <1>3, <3>1
    <3> QED
      BY <1>1, <1>6, <2>1, <2>2, <3>1, <3>2, WholeStays
  <2>5. CASE Copy \/ RemoveBackup \/ Download \/ WriteAlias \/ WriteLayout \/ RestoreLayout
    <3>1. /\ wasm' = wasm /\ file' = file
          /\ Head(job.steps).op \notin {"replace", "put", "stage", "refresh"}
      BY <2>5 DEF Copy, RemoveBackup, Download, WriteAlias, WriteLayout, RestoreLayout, Now, shared
    <3> QED
      BY <1>1, <1>6, <2>1, <2>2, <3>1, WholeStays
  <2> QED
    BY <1>9, <2>3, <2>4, <2>5
<1> QED
  BY <1>7, <1>8, <1>9

\* The new binary finds the wasm's call and the rewiring still to come.
LEMMA WholeMoves ==
  ASSUME InstallInv, WholeInv, job.does = "update", SelfReplace
  PROVE  WholeInv'
<1>1. /\ job \in Jobs /\ job.steps \in Seq(Steps) /\ job.steps # <<>> /\ Head(job.steps).op = "self"
      /\ cli' = job.target /\ wasm' = wasm /\ file' = file
      /\ job' = [job EXCEPT !.steps = Tail(job.steps), !.moved = TRUE]
  BY DEF InstallInv, FilesInv, TypeOK, Jobs, SelfReplace, Now
<1>2. /\ Head(job.steps) = job.steps[1] /\ Len(job.steps) \in Nat /\ Len(job.steps) > 0
      /\ Len(Tail(job.steps)) = Len(job.steps) - 1
  BY <1>1, HeadTailProperties, EmptySeq, LenProperties
<1>3. /\ job'.steps = Tail(job.steps) /\ job'.calls = job.calls /\ job'.does = job.does /\ job'.clean = job.clean
      /\ job'.target = job.target
  BY <1>1 DEF Jobs
<1>4. Len(job.steps) = 1 /\ ~CallDue("self") /\ CallDue("rewire")
  BY <1>1, <1>2 DEF WholeInv
<1>5. Len(job'.steps) = 0
  BY <1>2, <1>3, <1>4
<1>6. \A i \in 1 .. Len(job'.calls) : job'.calls[i].what # "self"
  BY <1>3, <1>4 DEF CallDue
<1>7. \A t \in Bridges : BridgeDue(t)'
  BY <1>3, <1>4 DEF BridgeDue, CallDue
<1>8. WasmDue => WasmDue'
  <2>1. ~StepDue({"stage", "refresh", "refuse"})
    BY <1>1, <1>2, <1>4 DEF StepDue
  <2> QED
    BY <1>3, <2>1 DEF WasmDue, CallDue
<1> QED
  BY <1>1, <1>3, <1>5, <1>6, <1>7, <1>8 DEF WholeInv

\* A failure ends what may be claimed, and queues nothing.
LEMMA WholeFails ==
  ASSUME InstallInv, WholeInv, job.does = "update", Fail
  PROVE  WholeInv'
<1> DEFINE op == Head(job.steps).op
           rest == Remaining(op, Tail(job.steps))
           calls == IF op = "self" THEN <<>> ELSE job.calls
<1>1. job.steps # <<>> /\ job' = [job EXCEPT !.steps = rest, !.clean = FALSE, !.calls = calls] /\ cli' = cli
  BY DEF Fail, shared
<1>2. rest \in {<<>>, Tail(job.steps)} /\ calls \in {<<>>, job.calls}
  BY DEF Remaining
<1> HIDE DEF op, rest, calls
<1>3. job \in Jobs /\ job.steps \in Seq(Steps)
  BY DEF InstallInv, FilesInv, TypeOK, Jobs
<1>4. /\ job'.steps \in {<<>>, Tail(job.steps)} /\ job'.calls \in {<<>>, job.calls} /\ ~job'.clean
      /\ job'.does = job.does /\ job'.target = job.target /\ job'.moved = job.moved
  BY <1>1, <1>2, <1>3 DEF Jobs
<1>5. /\ Len(Tail(job.steps)) = Len(job.steps) - 1 /\ Len(job.steps) \in Nat
      /\ \A i \in 1 .. Len(Tail(job.steps)) : Tail(job.steps)[i] = job.steps[i + 1]
  BY <1>1, <1>3, HeadTailProperties, LenProperties
<1>6. ASSUME NEW i \in 1 .. Len(job'.steps)
      PROVE  i + 1 \in 2 .. Len(job.steps) /\ job'.steps[i] = job.steps[i + 1]
  <2>1. job'.steps # <<>>
    BY <1>6
  <2> QED
    BY <1>4, <1>5, <2>1
<1>7. ASSUME NEW i \in 1 .. Len(job'.calls)
      PROVE  job'.calls = job.calls
  <2>1. job'.calls # <<>>
    BY <1>7
  <2> QED
    BY <1>4, <2>1
<1>8. \A i \in 1 .. Len(job'.calls) : job'.calls[i].what # "self"
  BY <1>1, <1>7 DEF WholeInv
<1>9. ASSUME NEW i \in 1 .. Len(job'.steps)
      PROVE  job'.steps[i].op # "self"
  <2>1. i + 1 \in 1 .. Len(job.steps) /\ Len(job.steps) # 1
    BY <1>5, <1>6
  <2> QED
    BY <1>6, <2>1 DEF WholeInv
<1>10. ASSUME job.moved, NEW i \in 1 .. Len(job'.steps)
       PROVE  OfTarget(job'.steps[i], job.target)
  <2>1. i + 1 \in 1 .. Len(job.steps)
    BY <1>5, <1>6
  <2> QED
    BY <1>6, <1>10, <2>1 DEF WholeInv
<1> QED
  BY <1>1, <1>4, <1>8, <1>9, <1>10 DEF WholeInv

\* The call whose turn it is plans what was due from it.
LEMMA WholePlans ==
  ASSUME InstallInv, WholeInv, job.does = "update", Plan
  PROVE  WholeInv'
<1>1. /\ FilesInv /\ TypeOK /\ job \in Jobs /\ job.calls \in Seq(Calls) /\ job.calls # <<>> /\ job.steps = <<>>
      /\ UNCHANGED <<cli, file, wasm>>
  BY DEF InstallInv, FilesInv, TypeOK, Jobs, Plan, shared
<1>2. /\ Head(job.calls) = job.calls[1] /\ Len(job.calls) \in Nat /\ Len(job.calls) >= 1
      /\ Head(job.calls) \in Calls /\ Tail(job.calls) \in Seq(Calls)
      /\ Len(Tail(job.calls)) = Len(job.calls) - 1
      /\ \A i \in 1 .. Len(Tail(job.calls)) : Tail(job.calls)[i] = job.calls[i + 1]
  BY <1>1, HeadTailProperties, EmptySeq, LenProperties
<1>3. PICK c \in Calls : c = Head(job.calls)
  BY <1>2
<1> DEFINE first == IF c.what = "rewire" THEN Rewire ELSE <<>>
           rest == Tail(job.calls)
           calls == first \o rest
           steps == Planned(c)
<1>4. job' = [job EXCEPT !.steps = steps, !.calls = calls]
  BY <1>3 DEF Plan
<1>5. steps \in Seq(Steps) /\ \A i \in 1 .. Len(steps) : steps[i].op = "self" => c.what = "self"
  <2>1. Planned(c) \in Seq(Steps)
    BY <1>1, PlannedPlain
  <2>2. ASSUME NEW i \in 1 .. Len(Planned(c)), Planned(c)[i].op = "self"
        PROVE  c.what = "self"
    BY <1>1, <2>2, PlannedPlain
  <2> QED
    BY <2>1, <2>2
<1>6. /\ first \in Seq(Calls) /\ \A i \in 1 .. Len(first) : first[i].what = "wire"
      /\ c.what = "rewire" => \A t \in Bridges : file[t].by = "ours" =>
           \E i \in 1 .. Len(first) : first[i].what = "wire" /\ t \in first[i].ts
  <2>1. PICK a \in Seq(Calls), b \in Seq(Calls) :
          /\ a = When(Wired(Bridges), Call("wire", Bridges, FALSE))
          /\ b = When(Wired({Slot}), Call("wire", {Slot}, FALSE))
    <3>1. Call("wire", Bridges, FALSE) \in Calls /\ Call("wire", {Slot}, FALSE) \in Calls
      BY DEF Call, Calls, Whats
    <3>2. \A needed \in BOOLEAN, call \in Calls : When(needed, call) \in Seq(Calls)
      BY DEF When
    <3>3. Wired(Bridges) \in BOOLEAN /\ Wired({Slot}) \in BOOLEAN
      BY DEF Wired
    <3> QED
      BY <3>1, <3>2, <3>3
  <2>2. /\ \A i \in 1 .. Len(a) : a[i].what = "wire"
        /\ \A i \in 1 .. Len(b) : b[i].what = "wire"
        /\ Wired(Bridges) => Len(a) = 1 /\ a[1].ts = Bridges
    BY <2>1 DEF When, Call
  <2>3. /\ a \o b \in Seq(Calls)
        /\ \A i \in 1 .. Len(a \o b) : \/ \E j \in 1 .. Len(a) : (a \o b)[i] = a[j]
                                       \/ \E j \in 1 .. Len(b) : (a \o b)[i] = b[j]
    BY ConcatParts
  <2>4. Rewire = a \o b
    BY <2>1 DEF Rewire
  <2>5. Rewire \in Seq(Calls) /\ \A i \in 1 .. Len(Rewire) : Rewire[i].what = "wire"
    BY <2>2, <2>3, <2>4
  <2>6. Len(<<>>) = 0 /\ <<>> \in Seq(Calls)
    OBVIOUS
  <2>7. ASSUME Wired(Bridges)
        PROVE  1 \in 1 .. Len(Rewire) /\ Rewire[1].what = "wire" /\ Rewire[1].ts = Bridges
    <3>4. Len(a) = 1 /\ a[1].ts = Bridges
      BY <2>2, <2>7
    <3>2. Len(a) = 1 /\ a[1].ts = Bridges /\ a[1].what = "wire"
      BY <2>2, <3>4
    <3>3. 1 \in 1 .. Len(a \o b) /\ (a \o b)[1] = a[1]
      BY <3>4, ConcatHead
    <3> QED
      BY <2>4, <3>2, <3>3
  <2>8. \A t \in Bridges : file[t].by = "ours" => Wired(Bridges)
    BY DEF Wired
  <2> QED
    BY <2>5, <2>6, <2>7, <2>8
<1>7. /\ calls \in Seq(Calls)
      /\ \A i \in 1 .. Len(calls) : \/ \E j \in 1 .. Len(first) : calls[i] = first[j]
                                    \/ \E j \in 1 .. Len(rest) : calls[i] = rest[j]
      /\ \A j \in 1 .. Len(first) : \E i \in 1 .. Len(calls) : calls[i] = first[j]
      /\ \A j \in 1 .. Len(rest) : \E i \in 1 .. Len(calls) : calls[i] = rest[j]
  <2> HIDE DEF first, rest
  <2>1. first \in Seq(Calls) /\ rest \in Seq(Calls)
    BY <1>2, <1>6 DEF rest
  <2>2. /\ Len(calls) = Len(first) + Len(rest) /\ Len(first) \in Nat /\ Len(rest) \in Nat
        /\ \A i \in 1 .. Len(calls) : calls[i] = IF i <= Len(first) THEN first[i] ELSE rest[i - Len(first)]
    BY <2>1, ConcatProperties, LenProperties
  <2>3. ASSUME NEW j \in 1 .. Len(rest)
        PROVE  \E i \in 1 .. Len(calls) : calls[i] = rest[j]
    <3>1. j + Len(first) \in 1 .. Len(calls) /\ ~(j + Len(first) <= Len(first)) /\ j + Len(first) - Len(first) = j
      BY <2>2
    <3> HIDE DEF calls
    <3> QED
      BY <2>2, <3>1
  <2>4. ASSUME NEW j \in 1 .. Len(first)
        PROVE  \E i \in 1 .. Len(calls) : calls[i] = first[j]
    BY <2>2
  <2>5. /\ calls \in Seq(Calls)
        /\ \A i \in 1 .. Len(calls) : \/ \E j \in 1 .. Len(first) : calls[i] = first[j]
                                      \/ \E j \in 1 .. Len(rest) : calls[i] = rest[j]
    BY <2>1, ConcatParts
  <2> QED
    BY <2>3, <2>4, <2>5
<1>8. \A i \in 1 .. Len(job.calls) : i # 1 => i - 1 \in 1 .. Len(rest) /\ rest[i - 1] = job.calls[i]
  BY <1>2
<1>9. \A i \in 1 .. Len(rest) : i + 1 \in 2 .. Len(job.calls) /\ rest[i] = job.calls[i + 1]
  BY <1>2
<1>20. job.calls[1] = c
  BY <1>2, <1>3
<1> HIDE DEF calls, steps, first, rest
<1>10. /\ job'.steps = steps /\ job'.calls = calls /\ job'.does = job.does /\ job'.clean = job.clean
       /\ job'.target = job.target /\ job'.moved = job.moved
  BY <1>1, <1>4 DEF Jobs
\* every call but the first is still to come
<1>11. ASSUME NEW i \in 1 .. Len(job.calls), i # 1
       PROVE  \E j \in 1 .. Len(job'.calls) : job'.calls[j] = job.calls[i]
  <2>1. PICK k \in 1 .. Len(rest) : rest[k] = job.calls[i]
    BY <1>8, <1>11
  <2>2. PICK j \in 1 .. Len(calls) : calls[j] = rest[k]
    BY <1>7
  <2> QED
    BY <1>10, <2>1, <2>2
<1>12. \A i \in 1 .. Len(job'.calls) : job'.calls[i].what # "self"
  <2> SUFFICES ASSUME NEW i \in 1 .. Len(calls), calls[i].what = "self"
               PROVE  FALSE
    BY <1>10
  <2>1. PICK j \in 1 .. Len(rest) : calls[i] = rest[j]
    BY <1>6, <1>7
  <2>2. j + 1 \in 1 .. Len(job.calls) /\ j + 1 # 1 /\ job.calls[j + 1].what = "self"
    BY <1>2, <1>9, <2>1
  <2> QED
    BY <2>2 DEF WholeInv
<1>13. ASSUME c.what = "self"
       PROVE  Len(steps) = 1 /\ ~job.moved /\ CallDue("rewire")'
  <2>1. steps = <<[op |-> "self"]>>
    BY <1>13 DEF steps, Planned
  <2>2. Len(steps) = 1
    BY <2>1
  <2>3. 1 \in 1 .. Len(job.calls) /\ job.calls[1].what = "self"
    BY <1>2, <1>13, <1>20
  <2>4. ~job.moved /\ CallDue("rewire")
    BY <2>3 DEF WholeInv
  <2>5. PICK i \in 1 .. Len(job.calls) : job.calls[i].what = "rewire"
    BY <2>4 DEF CallDue
  <2>6. i # 1
    BY <2>3, <2>5
  <2> QED
    BY <1>11, <2>2, <2>4, <2>5, <2>6 DEF CallDue
<1>14. ASSUME NEW i \in 1 .. Len(job'.steps), job'.steps[i].op = "self"
       PROVE  Len(job'.steps) = 1 /\ ~job'.moved /\ ~CallDue("self")' /\ CallDue("rewire")'
  BY <1>5, <1>10, <1>12, <1>13, <1>14 DEF CallDue
<1>15. ASSUME job.moved, NEW i \in 1 .. Len(steps)
       PROVE  OfTarget(steps[i], job.target)
  <2>1. cli = job.target
    BY <1>15 DEF WholeInv
  <2>2. c.ts \in {Bridges, {Slot}, {}} /\ c.what \in Whats /\ c.force \in BOOLEAN /\ c.inject \in BOOLEAN
    BY DEF Calls
  <2>3. CASE c.what = "wire"
    <3> DEFINE w == Wiring(c.ts, c.force)
    <3>1. /\ w \in Seq(Steps)
          /\ \A j \in 1 .. Len(w) : w[j].op \in {"replace", "refuse"}
          /\ Embeds(w, c.ts)
      BY <1>1, <2>2, WiringSteps
    <3>2. steps = w
      BY <2>3 DEF steps, Planned
    <3> HIDE DEF w
    <3> QED
      BY <1>15, <2>1, <3>1, <3>2 DEF OfTarget, Embedded, Embeds
  <2>4. CASE c.what = "unwire"
    <3>1. steps = Unwiring(c.ts)
      BY <2>4 DEF steps, Planned
    <3>2. Plain(steps[i], file, mine) /\ (steps[i].op \in {"put", "replace"} => steps[i].new.by # "ours")
      BY <1>1, <1>15, <2>2, <3>1, UnwiringSteps
    <3> QED
      BY <3>2 DEF OfTarget, Plain
  <2>5. CASE c.what \in {"zellij", "rail", "unzellij"}
    <3>1. steps \in SidebarQueues
      <4>1. CASE c.what = "zellij"
        BY <2>2, <4>1, ZellijSteps DEF steps, Planned
      <4>2. CASE c.what = "rail"
        BY <2>2, <4>2, ZellijSteps DEF steps, Planned
      <4>3. CASE c.what = "unzellij"
        BY <4>3, ZellijSteps DEF steps, Planned
      <4> QED
        BY <2>5, <4>1, <4>2, <4>3
    <3>2. steps[i] \in [op : ZellijOps]
      BY <1>15, <3>1, ElementOfSeq DEF SidebarQueues
    <3> QED
      BY <3>2 DEF OfTarget, ZellijOps
  <2>6. CASE c.what = "self"
    BY <1>13, <1>15, <2>6
  <2>7. CASE c.what = "rewire"
    <3>1. steps = <<>>
      BY <2>7 DEF steps, Planned
    <3> QED
      BY <1>15, <3>1
  <2> QED
    BY <2>2, <2>3, <2>4, <2>5, <2>6, <2>7 DEF Whats
<1>16. ASSUME WasmDue
       PROVE  WasmDue'
  <2>1. PICK i \in 1 .. Len(job.calls) : job.calls[i].what = "zellij"
    BY <1>1, <1>16 DEF WasmDue, CallDue, StepDue
  <2>2. CASE i # 1
    BY <1>11, <2>1, <2>2 DEF WasmDue, CallDue
  <2>3. CASE i = 1
    <3>1. c.what = "zellij" /\ c.force \in BOOLEAN /\ c.inject \in BOOLEAN
      BY <1>20, <2>1, <2>3 DEF Calls
    <3>2. steps = SetupZellij(TRUE, c.force, c.inject)
      BY <3>1 DEF steps, Planned
    <3>3. \E j \in 1 .. Len(steps) : steps[j].op \in {"stage", "refresh", "refuse"}
      BY <3>1, <3>2, ZellijStages
    <3> QED
      BY <1>10, <3>3 DEF WasmDue, StepDue
  <2> QED
    BY <2>2, <2>3
<1>17. ASSUME job.moved, NEW t \in Bridges, BridgeDue(t), file[t].by = "ours", file[t] # Ours(job.target)
       PROVE  BridgeDue(t)'
  <2>1. PICK i \in 1 .. Len(job.calls) :
          job.calls[i].what = "rewire" \/ (job.calls[i].what = "wire" /\ t \in job.calls[i].ts)
    BY <1>1, <1>17 DEF BridgeDue, CallDue, StepDue
  <2>2. CASE i # 1
    BY <1>11, <2>1, <2>2 DEF BridgeDue, CallDue
  <2>3. CASE i = 1 /\ c.what = "rewire"
    <3>1. PICK j \in 1 .. Len(first) : first[j].what = "wire" /\ t \in first[j].ts
      BY <1>6, <1>17, <2>3
    <3> QED
      BY <1>7, <1>10, <3>1 DEF BridgeDue
  <2>4. CASE i = 1 /\ c.what = "wire" /\ t \in c.ts
    <3> DEFINE w == Wiring(c.ts, c.force)
    <3>1. c.ts \in {Bridges, {Slot}, {}} /\ c.force \in BOOLEAN
      BY DEF Calls
    <3>2. \/ file[t] = Embedded(t)
          \/ \E j \in 1 .. Len(w) : w[j].op = "refuse" \/ (w[j].op = "replace" /\ w[j].at = t)
      <4>1. Embeds(w, c.ts)
        BY <1>1, <3>1, WiringSteps
      <4> HIDE DEF w
      <4> QED
        BY <2>4, <4>1 DEF Embeds
    <3>3. steps = w
      BY <2>4 DEF steps, Planned
    <3> HIDE DEF w
    <3>4. Embedded(t) = Ours(job.target)
      BY <1>17, InstallerAssumption DEF Embedded, WholeInv
    <3>6. PICK j \in 1 .. Len(w) : w[j].op = "refuse" \/ (w[j].op = "replace" /\ w[j].at = t)
      BY <1>17, <3>2, <3>4
    <3>5. PICK k \in 1 .. Len(job'.steps) : job'.steps[k].op = "refuse" \/ (job'.steps[k].op = "replace" /\ job'.steps[k].at = t)
      BY <1>10, <3>3, <3>6
    <3> QED
      BY <3>5 DEF BridgeDue, StepDue
  <2> QED
    BY <1>20, <2>1, <2>2, <2>3, <2>4
<1>18. job'.moved => cli' = job'.target /\ \A i \in 1 .. Len(job'.steps) : OfTarget(job'.steps[i], job'.target)
  BY <1>1, <1>10, <1>15 DEF WholeInv
<1> QED
  BY <1>1, <1>10, <1>12, <1>14, <1>16, <1>17, <1>18 DEF WholeInv

\* An update starts with all of it due: the binary first and the bridges last,
\* the wasm whenever it is there and not the release's.
LEMMA WholeStarts ==
  ASSUME InstallInv, Update
  PROVE  WholeInv'
<1>1. PICK target \in cli .. latest, unknown \in BOOLEAN : Run("update", UpdateCalls(target, unknown), target, {})
  BY DEF Update
<1>2. target \in Nat \ {0}
  BY <1>1 DEF InstallInv, FilesInv, TypeOK
<1> DEFINE a == When(target > cli, Call("self", {}, FALSE))
           b == When(NeedsRefresh(target, unknown), Call("zellij", {}, FALSE))
           r == When(target > cli, Call("rewire", {}, FALSE))
           calls == (a \o b) \o r
<1>3. /\ job'.calls = calls /\ job'.steps = <<>> /\ job'.does = "update" /\ ~job'.moved /\ job'.target = target
      /\ wasm' = wasm
  BY <1>1 DEF Run, Idle, UpdateCalls, shared
<1>4. /\ a \in Seq(Calls) /\ b \in Seq(Calls) /\ r \in Seq(Calls)
      /\ Len(a) \in {0, 1} /\ Len(b) \in {0, 1} /\ Len(r) \in {0, 1}
      /\ Len(a) = 1 => a[1].what = "self" /\ Len(r) = 1
      /\ Len(b) = 1 => b[1].what = "zellij"
      /\ Len(r) = 1 => r[1].what = "rewire"
      /\ wasm \in {0, target} \/ Len(b) = 1
  <2>1. \A what \in Whats : Call(what, {}, FALSE) \in Calls /\ Call(what, {}, FALSE).what = what
    BY DEF Call, Calls
  <2>2. \A call \in Calls : /\ <<call>> \in Seq(Calls) /\ Len(<<call>>) = 1 /\ <<call>>[1] = call
    OBVIOUS
  <2>3. <<>> \in Seq(Calls) /\ Len(<<>>) = 0
    OBVIOUS
  <2>4. \A needed \in BOOLEAN, call \in Calls :
          /\ When(needed, call) \in Seq(Calls) /\ Len(When(needed, call)) \in {0, 1}
          /\ Len(When(needed, call)) = 1 <=> needed
          /\ needed => When(needed, call)[1] = call
    BY <2>2, <2>3 DEF When
  <2>5. (target > cli) \in BOOLEAN /\ NeedsRefresh(target, unknown) \in BOOLEAN
    BY DEF NeedsRefresh
  <2>6. {"self", "zellij", "rewire"} \subseteq Whats
    BY DEF Whats
  <2>7. wasm \notin {0, target} => NeedsRefresh(target, unknown)
    BY DEF NeedsRefresh, WasmStale
  <2>8. /\ a \in Seq(Calls) /\ Len(a) \in {0, 1} /\ (Len(a) = 1 <=> target > cli) /\ (target > cli => a[1].what = "self")
    BY <2>1, <2>4, <2>5, <2>6
  <2>9. /\ b \in Seq(Calls) /\ Len(b) \in {0, 1} /\ (Len(b) = 1 <=> NeedsRefresh(target, unknown))
        /\ NeedsRefresh(target, unknown) => b[1].what = "zellij"
    BY <2>1, <2>4, <2>5, <2>6
  <2>10. /\ r \in Seq(Calls) /\ Len(r) \in {0, 1} /\ (Len(r) = 1 <=> target > cli) /\ (target > cli => r[1].what = "rewire")
    BY <2>1, <2>4, <2>5, <2>6
  <2> HIDE DEF a, b, r
  <2> QED
    BY <2>7, <2>8, <2>9, <2>10
<1> HIDE DEF a, b, r
<1>5. /\ a \o b \in Seq(Calls) /\ Len(a \o b) = Len(a) + Len(b)
      /\ \A i \in 1 .. Len(a \o b) : (a \o b)[i] = IF i <= Len(a) THEN a[i] ELSE b[i - Len(a)]
  BY <1>4, ConcatProperties
<1>6. /\ Len(calls) = Len(a \o b) + Len(r)
      /\ \A i \in 1 .. Len(calls) : calls[i] = IF i <= Len(a \o b) THEN (a \o b)[i] ELSE r[i - Len(a \o b)]
  BY <1>4, <1>5, ConcatProperties
<1>7. /\ \A i \in 1 .. Len(calls) : calls[i].what = "self" => i = 1 /\ Len(r) = 1
      /\ Len(r) = 1 => \E i \in 1 .. Len(calls) : calls[i].what = "rewire"
      /\ Len(b) = 1 => \E i \in 1 .. Len(calls) : calls[i].what = "zellij"
  <2> DEFINE ab == a \o b
  <2>1. /\ Len(ab) = Len(a) + Len(b)
        /\ \A i \in 1 .. Len(ab) : ab[i] = IF i <= Len(a) THEN a[i] ELSE b[i - Len(a)]
        /\ Len(calls) = Len(ab) + Len(r)
        /\ \A i \in 1 .. Len(calls) : calls[i] = IF i <= Len(ab) THEN ab[i] ELSE r[i - Len(ab)]
    BY <1>5, <1>6
  <2> HIDE DEF calls, ab
  <2>2. ASSUME NEW i \in 1 .. Len(calls), calls[i].what = "self"
        PROVE  i = 1 /\ Len(r) = 1
    <3>1. CASE i <= Len(ab) /\ i <= Len(a)
      <4>1. i = 1 /\ Len(a) = 1
        BY <1>4, <2>1, <3>1
      <4> QED
        BY <1>4, <4>1
    <3>2. CASE i <= Len(ab) /\ ~(i <= Len(a))
      <4>1. i - Len(a) = 1 /\ Len(b) = 1 /\ i \in 1 .. Len(ab)
        BY <1>4, <2>1, <3>2
      <4>2. calls[i] = b[1]
        BY <2>1, <3>2, <4>1
      <4> QED
        BY <1>4, <2>2, <4>1, <4>2
    <3>3. CASE ~(i <= Len(ab))
      <4>1. i - Len(ab) = 1 /\ Len(r) = 1
        BY <1>4, <2>1, <3>3
      <4>2. calls[i] = r[1]
        BY <2>1, <3>3, <4>1
      <4> QED
        BY <1>4, <2>2, <4>1, <4>2
    <3> QED
      BY <3>1, <3>2, <3>3
  <2>3. ASSUME Len(r) = 1
        PROVE  \E i \in 1 .. Len(calls) : calls[i].what = "rewire"
    <3>1. Len(calls) \in 1 .. Len(calls) /\ ~(Len(calls) <= Len(ab)) /\ Len(calls) - Len(ab) = 1
      BY <1>4, <2>1, <2>3
    <3>2. calls[Len(calls)] = r[1]
      BY <2>1, <3>1
    <3> QED
      BY <1>4, <2>3, <3>1, <3>2
  <2>4. ASSUME Len(b) = 1
        PROVE  \E i \in 1 .. Len(calls) : calls[i].what = "zellij"
    <3>1. /\ Len(ab) \in 1 .. Len(calls) /\ Len(ab) \in 1 .. Len(ab)
          /\ ~(Len(ab) <= Len(a)) /\ Len(ab) - Len(a) = 1
      BY <1>4, <2>1, <2>4
    <3>3. Len(ab) <= Len(ab)
      BY <3>1
    <3>4. calls[Len(ab)] = ab[Len(ab)]
      BY <2>1, <3>1, <3>3
    <3>2. calls[Len(ab)] = b[1]
      BY <2>1, <3>1, <3>4
    <3> QED
      BY <1>4, <2>4, <3>1, <3>2
  <2> QED
    BY <2>2, <2>3, <2>4
<1> HIDE DEF calls
<1>8. Len(job'.steps) = 0
  BY <1>3
<1>9. wasm' \in {0, job'.target} \/ WasmDue'
  BY <1>3, <1>4, <1>7 DEF WasmDue, CallDue
<1>10. \A i \in 1 .. Len(job'.calls) : job'.calls[i].what = "self" => i = 1 /\ CallDue("rewire")'
  BY <1>3, <1>7 DEF CallDue
<1> QED
  BY <1>2, <1>3, <1>8, <1>9, <1>10 DEF WholeInv

\* Every step keeps what an update has still to do.
LEMMA WholeSteps ==
  InstallInv /\ WholeInv /\ [Next]_vars => WholeInv'
<1> SUFFICES ASSUME InstallInv, WholeInv, [Next]_vars
             PROVE  WholeInv'
  OBVIOUS
<1>1. CASE \/ Replace \/ Copy \/ Put \/ Unlink \/ RemoveBackup \/ Download \/ InstallWasm \/ WriteAlias
           \/ WriteLayout \/ RestoreLayout
  <2>1. \E new : Then(new)
    BY <1>1 DEF Replace, Copy, Put, Unlink, RemoveBackup, Download, InstallWasm, WriteAlias, WriteLayout, RestoreLayout
  <2>2. job'.does = job.does
    BY <2>1 DEF Then, InstallInv, FilesInv, TypeOK, Jobs
  <2>3. CASE job.does = "update"
    BY <1>1, <2>3, WholeKeeps
  <2>4. CASE job.does # "update"
    BY <2>2, <2>4 DEF WholeInv
  <2> QED
    BY <2>3, <2>4
<1>2. CASE SelfReplace \/ Plan \/ Fail
  <2>1. job'.does = job.does
    BY <1>2 DEF SelfReplace, Plan, Fail, InstallInv, FilesInv, TypeOK, Jobs
  <2>2. CASE job.does = "update"
    BY <1>2, <2>2, WholeMoves, WholePlans, WholeFails
  <2>3. CASE job.does # "update"
    BY <2>1, <2>3 DEF WholeInv
  <2> QED
    BY <2>2, <2>3
<1>3. CASE Finish \/ Crash
  BY <1>3 DEF Finish, Crash, WholeInv, Idle
<1>4. CASE \/ \E ts \in Producers : SetupAgents(ts) \/ UninstallAgents(ts)
           \/ SetupRail \/ UninstallRail
  <2>1. job'.does \in {"install", "uninstall"}
    BY <1>4 DEF SetupAgents, UninstallAgents, SetupRail, UninstallRail, Run, Idle
  <2> QED
    BY <2>1 DEF WholeInv
<1>5. CASE Update
  BY <1>5, WholeStarts
<1>6. CASE UserEditsConfig \/ \E t \in Targets : UserWrites(t) \/ UserRemoves(t) \/ UserRestores(t)
  <2>1. job' = Idle
    BY <1>6 DEF UserEditsConfig, UserWrites, UserRemoves, UserRestores
  <2> QED
    BY <2>1 DEF WholeInv, Idle
<1>7. CASE Release \/ UNCHANGED vars
  <2>1. UNCHANGED <<cli, wasm, file, job>>
    BY <1>7 DEF Release, vars
  <2>2. WasmDue' = WasmDue /\ CallDue("rewire")' = CallDue("rewire") /\ CallDue("self")' = CallDue("self")
    BY <2>1 DEF WasmDue, CallDue, StepDue
  <2>3. \A t \in Bridges : BridgeDue(t) => BridgeDue(t)'
    BY <2>1 DEF BridgeDue, CallDue, StepDue
  <2> QED
    BY <2>1, <2>2, <2>3 DEF WholeInv
<1> QED
  BY <1>1, <1>2, <1>3, <1>4, <1>5, <1>6, <1>7 DEF Next, Work, User

\* An update that moved the binary and reports no failure leaves the sidebar and
\* every wired bridge at the version of the binary.
THEOREM UpdateEndsWholeCorrect == Spec => UpdateEndsWhole
<1>1. Init => WholeInv
  BY DEF Init, WholeInv, Idle
<1>2. InstallInv /\ WholeInv =>
        (job.does = "update" /\ Finish /\ job.clean /\ job.moved =>
           /\ wasm \in {0, cli}
           /\ \A t \in Bridges : file[t].by = "ours" => file[t] = Ours(cli))
  <2> SUFFICES ASSUME InstallInv, WholeInv, job.does = "update", Finish, job.clean, job.moved
               PROVE  wasm \in {0, cli} /\ \A t \in Bridges : file[t].by = "ours" => file[t] = Ours(cli)
    OBVIOUS
  <2>1. Len(job.calls) = 0 /\ Len(job.steps) = 0 /\ cli = job.target
    BY DEF WholeInv, Finish
  <2>2. ~WasmDue /\ \A t \in Bridges : ~BridgeDue(t)
    BY <2>1 DEF WasmDue, BridgeDue, CallDue, StepDue
  <2> QED
    BY <2>1, <2>2 DEF WholeInv
<1> QED
  BY <1>1, <1>2, WholeSteps, InstallCorrect, PTL DEF Spec, UpdateEndsWhole

-----------------------------------------------------------------------------
(* `zj-radar run': the files of the owned config dir                       *)

\* The files a run writes itself: all but a wasm its build does not carry.
OwnFiles == {f \in R!Files : f # "wasm" \/ embedded}

\* What a run may have left to write, the marker last.
Rests ==
  {<<"wasm", "config", "layout", "onboarding", "marker">>,
   <<"config", "layout", "onboarding", "marker">>, <<"layout", "onboarding", "marker">>,
   <<"onboarding", "marker">>, <<"marker">>}

Unwritten(rest) == {rest[i] : i \in 1 .. Len(rest)}

\* No file is newer than the binary, and none of a run's own that is there is
\* older than the marker says: that is what a later run relies on when it finds
\* the dir up to date.
MarkerIsOldest ==
  /\ dir \in [R!Files -> 0 .. version]
  /\ \A f \in OwnFiles : dir[f] = 0 \/ dir["marker"] <= dir[f]

WritesInOrder ==
  step = "write" =>
    /\ todo \in Rests /\ (Head(todo) = "wasm" => embedded)
    /\ \A f \in OwnFiles \ Unwritten(todo) : dir[f] = version

WholeBeforeLaunch ==
  /\ step \in {"probe", "fetch", "plan", "launch"} => \A f \in OwnFiles : dir[f] = version
  /\ step \in {"plan", "launch"} => dir["wasm"] # 0

RunInv ==
  /\ version \in Nat \ {0} /\ embedded \in BOOLEAN
  /\ MarkerIsOldest /\ WritesInOrder /\ WholeBeforeLaunch

\* One file after the other, and the marker when nothing else is left.
\* What is written are files of the dir.
LEMMA FileNames ==
  /\ {"wasm", "config", "layout", "onboarding", "marker"} \subseteq R!Files
  /\ \A rest \in Rests : rest \in Seq(R!Files) /\ rest # <<>>
<1>1. "wasm" \in R!Files /\ "config" \in R!Files /\ "layout" \in R!Files
      /\ "onboarding" \in R!Files /\ "marker" \in R!Files
  BY DEF R!Files
<1>2. <<"wasm", "config", "layout", "onboarding", "marker">> \in Seq(R!Files)
  BY <1>1
<1>3. <<"config", "layout", "onboarding", "marker">> \in Seq(R!Files)
  BY <1>1
<1>4. <<"layout", "onboarding", "marker">> \in Seq(R!Files)
  BY <1>1
<1>5. <<"onboarding", "marker">> \in Seq(R!Files)
  BY <1>1
<1>6. <<"marker">> \in Seq(R!Files)
  BY <1>1
<1>7. \A rest \in Rests : rest # <<>>
  BY DEF Rests
<1> QED
  BY <1>1, <1>2, <1>3, <1>4, <1>5, <1>6, <1>7 DEF Rests

LEMMA RestsShrink ==
  ASSUME NEW rest \in Rests
  PROVE  /\ Head(rest) \in R!Files
         /\ Unwritten(rest) \subseteq {Head(rest)} \cup Unwritten(Tail(rest))
         /\ IF Head(rest) = "marker" THEN Tail(rest) = <<>>
                                     ELSE Tail(rest) \in Rests /\ Head(Tail(rest)) # "wasm"
<1>1. rest \in Seq(R!Files) /\ rest # <<>>
  BY FileNames
<1>2. Head(rest) \in R!Files
  BY <1>1
<1>3. Unwritten(rest) \subseteq {Head(rest)} \cup Unwritten(Tail(rest))
  <2> SUFFICES ASSUME NEW i \in 1 .. Len(rest), rest[i] # Head(rest)
               PROVE  rest[i] \in Unwritten(Tail(rest))
    BY DEF Unwritten
  <2>1. i - 1 \in 1 .. Len(Tail(rest)) /\ Tail(rest)[i - 1] = rest[i]
    BY <1>1
  <2> QED
    BY <2>1 DEF Unwritten
<1>4. CASE rest = <<"wasm", "config", "layout", "onboarding", "marker">>
  <2>1. Head(rest) = "wasm" /\ Tail(rest) = <<"config", "layout", "onboarding", "marker">>
    BY <1>4
  <2> QED
    BY <1>2, <1>3, <2>1 DEF Rests
<1>5. CASE rest = <<"config", "layout", "onboarding", "marker">>
  <2>1. Head(rest) = "config" /\ Tail(rest) = <<"layout", "onboarding", "marker">>
    BY <1>5
  <2> QED
    BY <1>2, <1>3, <2>1 DEF Rests
<1>6. CASE rest = <<"layout", "onboarding", "marker">>
  <2>1. Head(rest) = "layout" /\ Tail(rest) = <<"onboarding", "marker">>
    BY <1>6
  <2> QED
    BY <1>2, <1>3, <2>1 DEF Rests
<1>7. CASE rest = <<"onboarding", "marker">>
  <2>1. Head(rest) = "onboarding" /\ Tail(rest) = <<"marker">>
    BY <1>7
  <2> QED
    BY <1>2, <1>3, <2>1 DEF Rests
<1>8. CASE rest = <<"marker">>
  <2>1. Head(rest) = "marker" /\ Tail(rest) = <<>>
    BY <1>8
  <2> QED
    BY <1>2, <1>3, <2>1
<1> QED
  BY <1>4, <1>5, <1>6, <1>7, <1>8 DEF Rests

\* What a concatenation is, by its places.
LEMMA ConcatIs ==
  ASSUME NEW S, NEW s \in Seq(S), NEW t \in Seq(S), NEW u \in Seq(S), Len(u) = Len(s) + Len(t),
         \A i \in 1 .. Len(u) : u[i] = IF i <= Len(s) THEN s[i] ELSE t[i - Len(s)]
  PROVE  s \o t = u
<1> DEFINE both == s \o t
<1>1. both \in Seq(S) /\ Len(both) = Len(s) + Len(t)
      /\ \A i \in 1 .. Len(s) + Len(t) : both[i] = IF i <= Len(s) THEN s[i] ELSE t[i - Len(s)]
  BY ConcatProperties
<1> HIDE DEF both
<1>2. \A i \in 1 .. Len(both) : both[i] = u[i]
  BY <1>1
<1>3. both = u
  BY <1>1, <1>2, SeqEqual
<1> QED
  BY <1>3 DEF both

\* A run that finds the dir out of date begins with all it writes itself.
LEMMA RestsStart ==
  embedded \in BOOLEAN =>
    /\ R!ToWrite \in Rests /\ (Head(R!ToWrite) = "wasm" => embedded)
    /\ OwnFiles \subseteq Unwritten(R!ToWrite)
<1> SUFFICES ASSUME embedded \in BOOLEAN
             PROVE  /\ R!ToWrite \in Rests /\ (Head(R!ToWrite) = "wasm" => embedded)
                    /\ OwnFiles \subseteq Unwritten(R!ToWrite)
  OBVIOUS
<1> DEFINE tail == <<"config", "layout", "onboarding", "marker">>
           whole == <<"wasm", "config", "layout", "onboarding", "marker">>
<1>1. R!ToWrite = IF embedded THEN whole ELSE tail
  <2> DEFINE g == R!Generated
             most == <<"wasm", "config", "layout", "onboarding">>
  <2>1. g \in Seq(R!Files) /\ Len(g) = 3 /\ g[1] = "config" /\ g[2] = "layout" /\ g[3] = "onboarding"
    BY FileNames DEF R!Generated
  <2>2. <<"wasm">> \in Seq(R!Files) /\ <<"marker">> \in Seq(R!Files) /\ most \in Seq(R!Files)
    BY FileNames
  <2>3. tail \in Seq(R!Files) /\ whole \in Seq(R!Files)
    BY FileNames DEF Rests
  <2>4. Len(most) = 4 /\ most[1] = "wasm" /\ most[2] = "config" /\ most[3] = "layout" /\ most[4] = "onboarding"
    OBVIOUS
  <2>5. Len(<<"wasm">>) = 1 /\ <<"wasm">>[1] = "wasm" /\ Len(<<"marker">>) = 1 /\ <<"marker">>[1] = "marker"
    OBVIOUS
  <2> HIDE DEF g, most
  <2> DEFINE w == <<"wasm">>
             m == <<"marker">>
  <2> HIDE DEF w, m
  <2>6. /\ w \in Seq(R!Files) /\ Len(w) = 1 /\ w[1] = "wasm"
        /\ m \in Seq(R!Files) /\ Len(m) = 1 /\ m[1] = "marker"
    BY <2>2, <2>5 DEF w, m
  <2>7. /\ Len(tail) = 4 /\ tail[1] = "config" /\ tail[2] = "layout" /\ tail[3] = "onboarding" /\ tail[4] = "marker"
        /\ Len(whole) = 5 /\ whole[1] = "wasm" /\ whole[2] = "config" /\ whole[3] = "layout"
        /\ whole[4] = "onboarding" /\ whole[5] = "marker"
    OBVIOUS
  <2> HIDE DEF tail, whole
  <2>8. w \o g = most
    <3>1. \A i \in 1 .. Len(most) : most[i] = IF i <= Len(w) THEN w[i] ELSE g[i - Len(w)]
      BY <2>1, <2>4, <2>6
    <3>2. Len(most) = Len(w) + Len(g) /\ most \in Seq(R!Files) /\ w \in Seq(R!Files) /\ g \in Seq(R!Files)
      BY <2>1, <2>2, <2>4, <2>6
    <3> HIDE DEF most
    <3> QED
      BY <3>1, <3>2, ConcatIs
  <2>9. most \o m = whole
    <3>1. \A i \in 1 .. Len(whole) : whole[i] = IF i <= Len(most) THEN most[i] ELSE m[i - Len(most)]
      BY <2>4, <2>6, <2>7
    <3>2. Len(whole) = Len(most) + Len(m) /\ whole \in Seq(R!Files) /\ most \in Seq(R!Files) /\ m \in Seq(R!Files)
      BY <2>2, <2>3, <2>4, <2>6, <2>7
    <3> HIDE DEF most
    <3> QED
      BY <3>1, <3>2, ConcatIs
  <2>10. g \o m = tail
    <3>1. \A i \in 1 .. Len(tail) : tail[i] = IF i <= Len(g) THEN g[i] ELSE m[i - Len(g)]
      BY <2>1, <2>6, <2>7
    <3>2. Len(tail) = Len(g) + Len(m) /\ tail \in Seq(R!Files) /\ g \in Seq(R!Files) /\ m \in Seq(R!Files)
      BY <2>1, <2>3, <2>6, <2>7
    <3> HIDE DEF most
    <3> QED
      BY <3>1, <3>2, ConcatIs
  <2>11. <<>> \o g = g
    BY <2>1, ConcatEmptySeq
  <2> QED
    BY <2>8, <2>9, <2>10, <2>11 DEF R!ToWrite, R!EmbeddedWasm, w, m, g
<1>2. Len(tail) = 4 /\ tail[1] = "config" /\ tail[2] = "layout" /\ tail[3] = "onboarding" /\ tail[4] = "marker"
  OBVIOUS
<1>3. Len(whole) = 5 /\ whole[1] = "wasm" /\ whole[2] = "config" /\ whole[3] = "layout"
      /\ whole[4] = "onboarding" /\ whole[5] = "marker"
  OBVIOUS
<1>4. {"config", "layout", "onboarding", "marker"} \subseteq Unwritten(tail)
  BY <1>2 DEF Unwritten
<1>5. R!Files \subseteq Unwritten(whole)
  BY <1>3 DEF Unwritten, R!Files
<1>6. Head(tail) = "config" /\ Head(whole) = "wasm" /\ tail \in Rests /\ whole \in Rests
  BY DEF Rests
<1> HIDE DEF tail, whole
<1> QED
  BY <1>1, <1>4, <1>5, <1>6 DEF OwnFiles, R!Files

-----------------------------------------------------------------------------
(* A run, and what its steps leave of the invariant                        *)

\* Every step of a scene keeps the invariant while versions only grow.
LEMMA RunSteps ==
  RunInv /\ ~MayDowngrade /\ [SetupNext]_setupVars => RunInv'
<1> SUFFICES ASSUME RunInv, ~MayDowngrade, [SetupNext]_setupVars PROVE RunInv'
  OBVIOUS
<1> USE DEF RunInv
<1>0. "wasm" \in R!Files /\ "marker" \in R!Files /\ "marker" \in OwnFiles
  BY DEF OwnFiles, R!Files
<1>1. CASE UNCHANGED <<version, embedded, dir, todo>> /\ (step' = step \/ step' \in {"idle", "attached"})
  <2>1. OwnFiles' = OwnFiles
    BY <1>1 DEF OwnFiles, R!Files
  <2> QED
    BY <1>1, <2>1 DEF MarkerIsOldest, WritesInOrder, WholeBeforeLaunch, Unwritten, R!Files
<1>2. CASE UNCHANGED <<version, embedded, dir>> /\ step' = "idle"
  <2>1. OwnFiles' = OwnFiles
    BY <1>2 DEF OwnFiles, R!Files
  <2> QED
    BY <1>2, <2>1 DEF MarkerIsOldest, WritesInOrder, WholeBeforeLaunch, R!Files
<1>3. CASE R!Start
  <2>1. OwnFiles' = OwnFiles /\ UNCHANGED <<version, embedded, dir>>
    BY <1>3 DEF R!Start, R!world, OwnFiles, R!Files
  <2>2. MarkerIsOldest'
    BY <2>1 DEF MarkerIsOldest, R!Files
  <2>3. CASE R!UpToDate
    <3>1. step' = "probe"
      BY <1>3, <2>3 DEF R!Start
    <3>2. \A f \in OwnFiles : dir[f] = version
      <4> SUFFICES ASSUME NEW f \in OwnFiles PROVE dir[f] = version
        OBVIOUS
      <4>1. f \in R!Files /\ dir[f] # 0 /\ dir["marker"] = version
        BY <2>3 DEF R!UpToDate, OwnFiles
      <4>2. dir[f] \in 0 .. version /\ dir["marker"] <= dir[f]
        BY <4>1 DEF MarkerIsOldest
      <4> QED
        BY <4>1, <4>2
    <3> QED
      BY <2>1, <2>2, <3>1, <3>2 DEF WritesInOrder, WholeBeforeLaunch
  <2>4. CASE ~R!UpToDate
    <3>1. step' = "write" /\ todo' = R!ToWrite
      BY <1>3, <2>4 DEF R!Start
    <3>2. WritesInOrder'
      BY <2>1, <3>1, RestsStart DEF WritesInOrder, Unwritten
    <3> QED
      BY <2>1, <2>2, <3>1, <3>2 DEF WholeBeforeLaunch
  <2> QED
    BY <2>3, <2>4
<1>4. CASE R!WriteFile
  <2> DEFINE h == Head(todo)
  <2>1. /\ todo \in Rests /\ (h = "wasm" => embedded)
        /\ \A f \in OwnFiles \ Unwritten(todo) : dir[f] = version
    BY <1>4 DEF R!WriteFile, WritesInOrder
  <2>2. /\ h \in R!Files /\ Unwritten(todo) \subseteq {h} \cup Unwritten(Tail(todo))
        /\ IF h = "marker" THEN Tail(todo) = <<>> ELSE Tail(todo) \in Rests /\ Head(Tail(todo)) # "wasm"
    BY <2>1, RestsShrink
  <2>3. OwnFiles' = OwnFiles /\ UNCHANGED <<version, embedded>> /\ dir' = [dir EXCEPT ![h] = version]
        /\ todo' = Tail(todo) /\ step' = IF Tail(todo) = <<>> THEN "probe" ELSE "write"
    BY <1>4 DEF R!WriteFile, R!world, OwnFiles, R!Files
  <2>4. dir \in [R!Files -> 0 .. version] /\ h \in OwnFiles
    BY <2>1, <2>2 DEF MarkerIsOldest, OwnFiles
  <2> HIDE DEF h
  <2>5. \A f \in OwnFiles \ Unwritten(Tail(todo)) : dir'[f] = version
    BY <2>1, <2>2, <2>3, <2>4 DEF OwnFiles
  <2>6. dir' \in [R!Files -> 0 .. version]
    BY <2>2, <2>3, <2>4
  <2>7. CASE h = "marker"
    <3>1. step' = "probe" /\ Unwritten(Tail(todo)) = {}
      BY <2>2, <2>3, <2>7 DEF Unwritten
    <3>2. \A f \in OwnFiles : dir'[f] = version
      BY <2>5, <3>1
    <3> QED
      BY <2>3, <2>6, <3>1, <3>2, <1>0 DEF MarkerIsOldest, WritesInOrder, WholeBeforeLaunch, R!Files
  <2>8. CASE h # "marker"
    <3>1. step' = "write" /\ todo' \in Rests /\ Head(todo') # "wasm"
      BY <2>2, <2>3, <2>8, FileNames
    <3>2. dir'["marker"] = dir["marker"] /\ dir["marker"] \in 0 .. version
      BY <2>3, <2>4, <2>8, <1>0
    <3>3. \A f \in OwnFiles : dir'[f] = 0 \/ dir'["marker"] <= dir'[f]
      <4> SUFFICES ASSUME NEW f \in OwnFiles PROVE dir'[f] = 0 \/ dir'["marker"] <= dir'[f]
        OBVIOUS
      <4>1. dir'[f] = version \/ dir'[f] = dir[f]
        BY <2>3, <2>4 DEF OwnFiles
      <4> QED
        BY <4>1, <3>2 DEF MarkerIsOldest
    <3>4. WritesInOrder'
      BY <2>3, <2>5, <3>1 DEF WritesInOrder, Unwritten
    <3> QED
      BY <2>3, <2>6, <3>1, <3>3, <3>4 DEF MarkerIsOldest, WholeBeforeLaunch, R!Files
  <2> QED
    BY <2>7, <2>8
<1>5. CASE R!Probe
  <2>1. OwnFiles' = OwnFiles /\ UNCHANGED <<version, embedded, dir>>
    BY <1>5 DEF R!Probe, R!world, OwnFiles, R!Files
  <2>2. step = "probe" /\ step' = IF dir["wasm"] = 0 THEN "fetch" ELSE "plan"
    BY <1>5 DEF R!Probe
  <2> QED
    BY <2>1, <2>2 DEF MarkerIsOldest, WritesInOrder, WholeBeforeLaunch, R!Files
<1>6. CASE R!Fetch
  <2>1. OwnFiles' = OwnFiles /\ UNCHANGED <<version, embedded>> /\ dir' = [dir EXCEPT !["wasm"] = version]
        /\ step = "fetch" /\ step' = "plan"
    BY <1>6 DEF R!Fetch, R!world, OwnFiles, R!Files
  <2>2. dir \in [R!Files -> 0 .. version] /\ \A f \in OwnFiles : dir[f] = version
    BY <2>1 DEF MarkerIsOldest, WholeBeforeLaunch
  <2>3. dir' \in [R!Files -> 0 .. version] /\ dir'["wasm"] = version /\ \A f \in OwnFiles : dir'[f] = version
    BY <2>1, <2>2, <1>0 DEF OwnFiles
  <2> QED
    BY <2>1, <2>3, <1>0 DEF MarkerIsOldest, WritesInOrder, WholeBeforeLaunch, R!Files
<1>7. CASE R!Go
  <2>1. OwnFiles' = OwnFiles /\ UNCHANGED <<version, embedded, dir>> /\ step = "plan" /\ step' = "launch"
    BY <1>7 DEF R!Go, OwnFiles, R!Files
  <2> QED
    BY <2>1 DEF MarkerIsOldest, WritesInOrder, WholeBeforeLaunch, R!Files
<1>8. CASE R!Reinstall
  <2>1. OwnFiles' = OwnFiles /\ UNCHANGED <<embedded, dir, step>> /\ step \in {"idle", "attached"}
    BY <1>8 DEF R!Reinstall, R!Unaffected, OwnFiles, R!Files
  <2>2. version' \in Nat \ {0} /\ version' > version
    BY <1>8 DEF R!Reinstall
  <2>3. dir' \in [R!Files -> 0 .. version']
    BY <2>1, <2>2 DEF MarkerIsOldest
  <2> QED
    BY <2>1, <2>2, <2>3 DEF MarkerIsOldest, WritesInOrder, WholeBeforeLaunch, R!Files
<1>9. CASE R!FileLost
  <2>1. OwnFiles' = OwnFiles /\ UNCHANGED <<version, embedded>> /\ step = "idle" /\ step' = "idle"
    BY <1>9 DEF R!FileLost, R!Unaffected, R!world, OwnFiles, R!Files
  <2>2. PICK f \in R!Files : dir' = [dir EXCEPT ![f] = 0]
    BY <1>9 DEF R!FileLost
  <2>3. dir \in [R!Files -> 0 .. version]
    BY DEF MarkerIsOldest
  <2>4. dir' \in [R!Files -> 0 .. version] /\ \A g \in R!Files : dir'[g] \in {0, dir[g]}
    BY <2>2, <2>3
  <2>5. \A g \in OwnFiles : dir'[g] = 0 \/ dir'["marker"] <= dir'[g]
    <3> SUFFICES ASSUME NEW g \in OwnFiles PROVE dir'[g] = 0 \/ dir'["marker"] <= dir'[g]
      OBVIOUS
    <3>1. g \in R!Files /\ dir[g] \in Nat /\ dir["marker"] \in Nat /\ (dir[g] = 0 \/ dir["marker"] <= dir[g])
      BY <2>3, <1>0 DEF MarkerIsOldest, OwnFiles
    <3> QED
      BY <3>1, <2>4, <1>0
  <2> QED
    BY <2>1, <2>4, <2>5 DEF MarkerIsOldest, WritesInOrder, WholeBeforeLaunch, R!Files
<1>10. CASE R!Return \/ R!Killed
  BY <1>2, <1>10 DEF R!Return, R!Killed, R!world
<1>11. CASE R!Launch \/ R!LaunchFails \/ R!Detach \/ R!UserCreates \/ R!Exits \/ R!Deleted
  BY <1>1, <1>11 DEF R!Launch, R!LaunchFails, R!Detach, R!UserCreates, R!Exits, R!Deleted, R!world, R!Unaffected
<1>12. CASE UNCHANGED runState
  BY <1>1, <1>12 DEF runState
<1> QED
  BY <1>3, <1>4, <1>5, <1>6, <1>7, <1>8, <1>9, <1>10, <1>11, <1>12 DEF SetupNext, setupVars, R!RunNext

\* It holds of the first state, when no file is there.
LEMMA RunStarts == SetupInit => RunInv
<1> SUFFICES ASSUME SetupInit PROVE RunInv
  OBVIOUS
<1>1. version = 1 /\ embedded \in BOOLEAN /\ dir = [f \in R!Files |-> 0] /\ step = "idle"
  BY DEF SetupInit, At0, R!RunInit
<1>2. dir \in [R!Files -> 0 .. version]
  BY <1>1
<1> QED
  BY <1>1, <1>2 DEF RunInv, MarkerIsOldest, WritesInOrder, WholeBeforeLaunch, OwnFiles

\* A run at its launch has written, found or fetched every file.
LEMMA RunInvIsWhole == RunInv => OwnedDirIsWhole
<1> SUFFICES ASSUME RunInv, step = "launch", NEW f \in R!Files
             PROVE  IF f # "wasm" \/ embedded THEN dir[f] = version ELSE dir[f] # 0
  BY DEF OwnedDirIsWhole, R!OwnedDirIsWhole
<1> QED
  BY DEF RunInv, WholeBeforeLaunch, OwnFiles

\* Whatever was killed, lost or upgraded before, Zellij is launched on a dir
\* whose every generated file is the launcher's own (`materialize', run.rs). The
\* marker is compared for equality only, so a binary that goes back to an older
\* release is left out: after one the marker may be of a version that some file
\* is not.
THEOREM OwnedDirIsWholeCorrect ==
  ASSUME ~MayDowngrade
  PROVE  SetupSpec => []OwnedDirIsWhole
<1>1. RunInv /\ [SetupNext]_setupVars => RunInv'
  BY RunSteps
<1> QED
  BY <1>1, RunStarts, RunInvIsWhole, PTL DEF SetupSpec

\* The scenes of the file operations are the installer's own.
LEMMA SceneSteps == [SetupNext]_setupVars => [Next]_vars
<1>1. ASSUME InScene PROVE Next
  <2>1. CASE \E ts \in {Bridges, {Slot}} : UsesFiles(ts)
    BY <2>1 DEF UsesFiles, Next, User, Producers, Targets
  <2>2. CASE Update \/ Release \/ SetupRail \/ UninstallRail \/ UserEditsConfig
    BY <2>2 DEF Next, User
  <2> QED
    BY <1>1, <2>1, <2>2 DEF InScene
<1> QED
  BY <1>1 DEF SetupNext, setupVars, Next, vars

\* What is proved of the installer holds in the composition the runs check.
THEOREM SetupImplementsInstaller == SetupSpec => Spec
<1>1. SetupInit => Init
  BY DEF SetupInit, At0
<1> QED
  BY <1>1, SceneSteps, PTL DEF SetupSpec, Spec

\* What a run launches and what an update leaves is of one version, for every
\* number of releases, bridge files and texts.
THEOREM EndsWholeCorrect ==
  ASSUME ~MayDowngrade
  PROVE  SetupSpec => EndsWhole
<1>1. SetupSpec => []OwnedDirIsWhole
  BY OwnedDirIsWholeCorrect
<1>2. SetupSpec => UpdateEndsWhole
  BY SetupImplementsInstaller, UpdateEndsWholeCorrect
<1>3. []OwnedDirIsWhole => [][OwnedDirIsWhole']_setupVars
  BY PTL
<1> QED
  BY <1>1, <1>2, <1>3, PTL DEF EndsWhole

-----------------------------------------------------------------------------
(* The configuration                                                       *)

\* Whatever words a layout has, and whatever messages come after it
\* (RailConfig::from_map, then apply_overrides per message).
ConfigSpec ==
  (\E first : Load(first)) /\ [][\E message : HearConfig(message)]_configVars

\* kv has a word for the field that its parser knows.
Says(kv, field) == field \in DOMAIN kv /\ Recognised(field, kv[field])

\* A field is made by the last of what was said that has a word for it.
MadeBy(field, m) ==
  /\ Says(said[m], field) /\ config[field] = Parsed(field, said[m][field])
  /\ \A k \in 1 .. Len(said) : k > m => ~Says(said[k], field)

Untold(field) ==
  config[field] = Defaults[field] /\ \A k \in 1 .. Len(said) : ~Says(said[k], field)

ConfigInv ==
  /\ said \in Seq({said[k] : k \in 1 .. Len(said)})
  /\ \A field \in Config : Untold(field) \/ \E m \in 1 .. Len(said) : MadeBy(field, m)

\* What a message makes of each field.
LEMMA Overridden ==
  ASSUME NEW old, NEW kv, NEW field \in Config
  PROVE  ApplyOverrides(old, kv)[field] =
           IF Says(kv, field) THEN Parsed(field, kv[field]) ELSE old[field]
BY DEF ApplyOverrides, Says

\* A first says the first words.
LEMMA LayoutSays == ASSUME NEW first, Load(first) PROVE ConfigInv
<1>1. said = <<first>> /\ Len(said) = 1 /\ said[1] = first /\ config = ApplyOverrides(Defaults, first)
  BY DEF Load, FromMap
<1>2. said \in Seq({said[k] : k \in 1 .. Len(said)})
  BY <1>1
<1>3. ASSUME NEW field \in Config PROVE Untold(field) \/ MadeBy(field, 1)
  BY <1>1, Overridden DEF Untold, MadeBy
<1> QED
  BY <1>1, <1>2, <1>3 DEF ConfigInv

\* A message adds its words, and overrides what it has a word for.
LEMMA MessageSays ==
  ASSUME ConfigInv, NEW message, HearConfig(message)
  PROVE  ConfigInv'
<1> DEFINE kv == OverridesFromJson(message)
           n == Len(said)
           T == {said[k] : k \in 1 .. Len(said)} \cup {kv}
<1>1. said' = Append(said, kv) /\ config' = ApplyOverrides(config, kv)
  BY DEF HearConfig
<1>2. said \in Seq(T) /\ kv \in T
  BY DEF ConfigInv
<1>3. /\ n \in Nat /\ Len(said') = n + 1 /\ said' \in Seq(T)
      /\ said'[n + 1] = kv /\ \A k \in 1 .. n : said'[k] = said[k]
  BY <1>1, <1>2, AppendProperties, LenProperties
<1> HIDE DEF kv, T
<1>4. said' \in Seq({said'[k] : k \in 1 .. Len(said')})
  BY <1>3, SeqDef, LenProperties
<1>5. ASSUME NEW field \in Config
      PROVE  Untold(field)' \/ \E m \in 1 .. Len(said') : MadeBy(field, m)'
  <2>1. config'[field] = IF Says(kv, field) THEN Parsed(field, kv[field]) ELSE config[field]
    BY <1>1, Overridden
  <2>2. CASE Says(kv, field)
    <3>1. PICK m \in 1 .. Len(said') : m = n + 1
      BY <1>3
    <3>2. MadeBy(field, m)'
      BY <1>3, <2>1, <2>2, <3>1 DEF MadeBy
    <3> QED
      BY <3>2
  <2>3. CASE ~Says(kv, field)
    <3>1. CASE Untold(field)
      BY <1>3, <2>1, <2>3, <3>1 DEF Untold
    <3>2. ASSUME NEW m \in 1 .. n, MadeBy(field, m) PROVE MadeBy(field, m)'
      BY <1>3, <2>1, <2>3, <3>2 DEF MadeBy
    <3> QED
      BY <1>3, <3>1, <3>2 DEF ConfigInv
  <2> QED
    BY <2>2, <2>3
<1> QED
  BY <1>4, <1>5 DEF ConfigInv

\* A word that is not understood, or a message about something else, changes
\* nothing: any layouts, any messages, in any order.
THEOREM LastRecognisedWinsCorrect == ConfigSpec => []LastRecognisedWins
<1>1. ConfigInv /\ [\E message : HearConfig(message)]_configVars => ConfigInv'
  <2>1. ASSUME ConfigInv, UNCHANGED configVars PROVE ConfigInv'
    BY <2>1 DEF ConfigInv, Untold, MadeBy, configVars
  <2> QED
    BY <2>1, MessageSays
<1>2. ConfigInv => LastRecognisedWins
  <2> SUFFICES ASSUME ConfigInv, NEW field \in Config
               PROVE  LET heard == {i \in DOMAIN said : field \in DOMAIN said[i] /\ Recognised(field, said[i][field])}
                      IN  config[field] = IF heard = {} THEN Defaults[field] ELSE Parsed(field, said[Max(heard)][field])
    BY DEF LastRecognisedWins
  <2> DEFINE heard == {i \in DOMAIN said : field \in DOMAIN said[i] /\ Recognised(field, said[i][field])}
  <2>1. heard = {i \in 1 .. Len(said) : Says(said[i], field)} /\ Len(said) \in Nat
    BY LenProperties DEF Says, ConfigInv
  <2> HIDE DEF heard
  <2>2. CASE Untold(field)
    BY <2>1, <2>2 DEF Untold, heard
  <2>3. ASSUME NEW m \in 1 .. Len(said), MadeBy(field, m)
        PROVE  config[field] = IF heard = {} THEN Defaults[field] ELSE Parsed(field, said[Max(heard)][field])
    <3>1. m \in heard /\ \A k \in heard : m >= k /\ k \in Int
      BY <2>1, <2>3 DEF MadeBy
    <3>2. Max(heard) = m
      <4>1. \A k \in heard : (\A l \in heard : k >= l) => k = m
        BY <3>1
      <4> QED
        BY <3>1, <4>1 DEF Max
    <3> QED
      BY <3>1, <3>2, <2>3 DEF MadeBy
  <2> QED
    BY <2>2, <2>3 DEF ConfigInv, heard
<1>3. (\E first : Load(first)) => ConfigInv
  BY LayoutSays
<1> QED
  BY <1>1, <1>2, <1>3, PTL DEF ConfigSpec

-----------------------------------------------------------------------------
(* Numbers, and what is told of them one after the other                   *)

\* A set of numbers that has one has a least one.
LEMMA LeastNumber ==
  ASSUME NEW S \in SUBSET Nat, S # {}
  PROVE  \E x \in S : \A y \in S : x <= y
<1> DEFINE Below == {ss \in Nat \X Nat : ss[1] < ss[2]}
<1>1. IsWellFoundedOn(Below, Nat)
  BY NatLessThanWellFounded DEF OpToRel
<1> HIDE DEF Below
<1>2. PICK x \in S : \A y \in S : ~(<<y, x>> \in Below)
  BY <1>1, WFMin
<1>3. ASSUME NEW y \in S PROVE x <= y
  <2>1. <<y, x>> \notin Below /\ x \in Nat /\ y \in Nat
    BY <1>2
  <2>2. ~(y < x)
    BY <2>1 DEF Below
  <2> QED
    BY <2>1, <2>2
<1> QED
  BY <1>2, <1>3

\* A set of numbers that has 0, and with each the next, has them all.
LEMMA Reach ==
  ASSUME NEW n \in Nat, NEW S, 0 \in S, \A k \in 0 .. n - 1 : k \in S => k + 1 \in S
  PROVE  0 .. n \subseteq S
<1> DEFINE M == {k \in 0 .. n : k \notin S}
<1> SUFFICES ASSUME M # {} PROVE FALSE
  OBVIOUS
<1>1. PICK x \in M : \A y \in M : x <= y
  <2>1. M \in SUBSET Nat
    OBVIOUS
  <2> QED
    BY <2>1, LeastNumber
<1>2. x \in 0 .. n /\ x # 0 /\ x - 1 \in 0 .. n - 1 /\ x - 1 \notin M
  BY <1>1
<1> QED
  BY <1>1, <1>2

\* g iterates F from base.
Unfolds(g, n, base, F) == g[0] = base /\ \A m \in 1 .. n : g[m] = F[m][g[m - 1]]

\* A function given by its value at 0 and a step is the function it says it is.
LEMMA Iterates ==
  ASSUME NEW n \in Nat, NEW X, NEW base \in X, NEW F \in [1 .. n -> [X -> X]]
  PROVE  \E g \in [0 .. n -> X] : Unfolds(g, n, base, F)
<1> DEFINE Upto(k, g) == g[0] = base /\ \A m \in 1 .. k : g[m] = F[m][g[m - 1]]
           S == {k \in 0 .. n : \E g \in [0 .. n -> X] : Upto(k, g)}
<1>1. 0 \in S
  <2> DEFINE g == [m \in 0 .. n |-> base]
  <2>1. g \in [0 .. n -> X] /\ Upto(0, g)
    OBVIOUS
  <2>2. 0 \in 0 .. n
    OBVIOUS
  <2> HIDE DEF g, Upto
  <2> QED
    BY <2>1, <2>2
<1>2. ASSUME NEW k \in 0 .. n - 1, k \in S PROVE k + 1 \in S
  <2>1. PICK g \in [0 .. n -> X] : Upto(k, g)
    BY <1>2
  <2> DEFINE h == [m \in 0 .. n |-> IF m = k + 1 THEN F[k + 1][g[k]] ELSE g[m]]
  <2>2. g[k] \in X /\ k + 1 \in 1 .. n /\ F[k + 1][g[k]] \in X
    OBVIOUS
  <2>3. h \in [0 .. n -> X]
    BY <2>2
  <2>4. ASSUME NEW m \in 1 .. k + 1 PROVE h[m] = F[m][h[m - 1]]
    <3>1. m \in 0 .. n /\ m - 1 \in 0 .. n /\ m - 1 # k + 1
      OBVIOUS
    <3>2. CASE m = k + 1
      BY <3>1, <3>2
    <3>3. CASE m # k + 1
      <4>1. m \in 1 .. k
        BY <3>3
      <4> QED
        BY <2>1, <3>1, <3>3, <4>1
    <3> QED
      BY <3>2, <3>3
  <2>5. h[0] = base
    BY <2>1
  <2> HIDE DEF h
  <2>6. Upto(k + 1, h)
    BY <2>4, <2>5
  <2> QED
    BY <2>3, <2>6
<1>3. n \in S
  <2> HIDE DEF S
  <2>1. \A k \in 0 .. n - 1 : k \in S => k + 1 \in S
    BY <1>2
  <2>2. 0 .. n \subseteq S
    BY <1>1, <2>1, Reach
  <2> QED
    BY <2>2
<1> QED
  BY <1>3 DEF Unfolds

-----------------------------------------------------------------------------
(* The sanitizer                                                           *)

Places == {"text", "escape", "csi", "osc", "oscEscape"}
Readings == [in : Places, out : Seq(Visible)]

Adds == {<<>>} \cup {<<v>> : v \in Visible}
Reading(in, out) == [in |-> in, out |-> out]

\* What a character does, wherever the walk is: it goes on from one place, and
\* adds at most one character.
LEMMA Read ==
  ASSUME NEW c \in Characters, NEW place \in Places
  PROVE  \E in \in Places, more \in Adds :
           \A out \in Seq(Visible) : Walk(Reading(place, out), c) = Reading(in, out \o more)
<1> DEFINE Goes(in, more) == \A out \in Seq(Visible) : Walk(Reading(place, out), c) = Reading(in, out \o more)
<1>1. \A out \in Seq(Visible) : out \o <<>> = out
  BY ConcatEmptySeq
<1>2. \A out \in Seq(Visible), v \in Visible : Append(out, v) = out \o <<v>>
  BY AppendIsConcat
<1>3. ASSUME NEW out PROVE Reading(place, out).in = place /\ Reading(place, out).out = out
  BY DEF Reading
<1>4. \E in \in Places, more \in Adds : \A out \in Seq(Visible) : InText(out, c) = Reading(in, out \o more)
  <2>1. CASE c = "ESC"
    <3>1. \A out \in Seq(Visible) : InText(out, c) = Reading("escape", out \o <<>>)
      BY <1>1, <2>1 DEF InText, Reading, Breaks, Kept, Visible
    <3> QED
      BY <3>1 DEF Places, Adds
  <2>2. CASE c \in Breaks
    <3>1. \A out \in Seq(Visible) : InText(out, c) = Reading("text", out \o <<"digit">>)
      BY <1>2, <2>2 DEF InText, Reading, Breaks, Kept, Visible
    <3> QED
      BY <3>1 DEF Places, Adds, Visible
  <2>3. CASE c \in Visible
    <3>1. \A out \in Seq(Visible) : InText(out, c) = Reading("text", out \o <<c>>)
      BY <1>2, <2>3 DEF InText, Reading, Breaks, Visible, Kept
    <3> QED
      BY <2>3, <3>1 DEF Places, Adds
  <2>4. CASE c \notin Breaks /\ c \notin Visible /\ c # "ESC"
    <3>1. \A out \in Seq(Visible) : InText(out, c) = Reading("text", out \o <<>>)
      BY <1>1, <2>4 DEF InText, Reading, Kept
    <3> QED
      BY <3>1 DEF Places, Adds
  <2> QED
    BY <2>1, <2>2, <2>3, <2>4
<1>5. ASSUME NEW in \in Places, \A out \in Seq(Visible) : Walk(Reading(place, out), c) = Reading(in, out)
      PROVE  \E to \in Places, more \in Adds : Goes(to, more)
  <2>1. Goes(in, <<>>) /\ <<>> \in Adds
    BY <1>1, <1>5 DEF Adds
  <2> QED
    BY <2>1
<1>6. ASSUME \A out \in Seq(Visible) : Walk(Reading(place, out), c) = InText(out, c)
      PROVE  \E to \in Places, more \in Adds : Goes(to, more)
  BY <1>4, <1>6
<1> HIDE DEF Goes
<1>7. CASE place = "text"
  <2>1. \A out \in Seq(Visible) : Walk(Reading(place, out), c) = InText(out, c)
    BY <1>3, <1>7 DEF Walk
  <2> QED
    BY <1>6, <2>1 DEF Goes
<1>8. CASE place = "escape"
  <2>1. \E in \in Places : \A out : Escape(out, c) = Reading(in, out)
    BY DEF Escape, Reading, Places
  <2>2. \A out \in Seq(Visible) : Walk(Reading(place, out), c) = Escape(out, c)
    BY <1>3, <1>8 DEF Walk
  <2> QED
    BY <1>5, <2>1, <2>2 DEF Goes
<1>9. CASE place = "csi"
  <2>1. \A out \in Seq(Visible) : Walk(Reading(place, out), c) = Csi(out, c)
    BY <1>3, <1>9 DEF Walk
  <2>2. CASE c \in Ascii \ BelowSpace
    <3>1. \E in \in Places : \A out : Csi(out, c) = Reading(in, out)
      BY <2>2 DEF Csi, Reading, Places
    <3> QED
      BY <1>5, <2>1, <3>1 DEF Goes
  <2>3. CASE c \notin Ascii \ BelowSpace
    <3>1. \A out \in Seq(Visible) : Walk(Reading(place, out), c) = InText(out, c)
      BY <2>1, <2>3 DEF Csi
    <3> QED
      BY <1>6, <3>1 DEF Goes
  <2> QED
    BY <2>2, <2>3
<1>10. CASE place = "osc"
  <2>1. \A out \in Seq(Visible) : Walk(Reading(place, out), c) = Osc(out, c)
    BY <1>3, <1>10 DEF Walk
  <2>2. CASE c \notin BelowSpace \ {"BEL", "ESC"}
    <3>1. \E in \in Places : \A out : Osc(out, c) = Reading(in, out)
      BY <2>2 DEF Osc, Reading, Places
    <3> QED
      BY <1>5, <2>1, <3>1 DEF Goes
  <2>3. CASE c \in BelowSpace \ {"BEL", "ESC"}
    <3>1. \A out \in Seq(Visible) : Walk(Reading(place, out), c) = InText(out, c)
      BY <2>1, <2>3 DEF Osc
    <3> QED
      BY <1>6, <3>1 DEF Goes
  <2> QED
    BY <2>2, <2>3
<1>11. CASE place = "oscEscape"
  <2>1. \E in \in Places : \A out : OscEscape(out, c) = Reading(in, out)
    BY DEF OscEscape, Escape, Reading, Places
  <2>2. \A out \in Seq(Visible) : Walk(Reading(place, out), c) = OscEscape(out, c)
    BY <1>3, <1>11 DEF Walk
  <2> QED
    BY <1>5, <2>1, <2>2 DEF Goes
<1> QED
  BY <1>7, <1>8, <1>9, <1>10, <1>11 DEF Goes, Places

LEMMA AddsAreTexts == \A more \in Adds : more \in Seq(Visible)
<1>1. \A v \in Visible : <<v>> \in Seq(Visible)
  OBVIOUS
<1>2. <<>> \in Seq(Visible)
  OBVIOUS
<1> QED
  BY <1>1, <1>2 DEF Adds

LEMMA ReadingsAre ==
  /\ \A at \in Readings : \E place \in Places, out \in Seq(Visible) : at = Reading(place, out)
  /\ \A place \in Places, out \in Seq(Visible) : Reading(place, out) \in Readings
  /\ \A place, out : Reading(place, out).in = place /\ Reading(place, out).out = out
BY DEF Readings, Reading

LEMMA WalkStays ==
  ASSUME NEW at \in Readings, NEW c \in Characters PROVE Walk(at, c) \in Readings
<1>1. PICK place \in Places, out \in Seq(Visible) : at = Reading(place, out)
  BY ReadingsAre
<1>2. PICK in \in Places, more \in Adds : Walk(Reading(place, out), c) = Reading(in, out \o more)
  BY Read
<1>3. out \o more \in Seq(Visible)
  BY AddsAreTexts, ConcatProperties
<1> QED
  BY <1>1, <1>2, <1>3, ReadingsAre

\* What was read before has no part in what is read of a character.
LEMMA WalkGoesOn ==
  ASSUME NEW at \in Readings, NEW c \in Characters, NEW before \in Seq(Visible)
  PROVE  Walk(Reading(at.in, before \o at.out), c)
           = Reading(Walk(at, c).in, before \o Walk(at, c).out)
<1>1. PICK place \in Places, out \in Seq(Visible) : at = Reading(place, out)
  BY ReadingsAre
<1>2. PICK in \in Places, more \in Adds :
        \A any \in Seq(Visible) : Walk(Reading(place, any), c) = Reading(in, any \o more)
  BY Read
<1>3. more \in Seq(Visible) /\ before \o out \in Seq(Visible)
  BY AddsAreTexts, ConcatProperties
<1>4. (before \o out) \o more = before \o (out \o more)
  BY <1>3, ConcatAssociative
<1>5. at.in = place /\ at.out = out
  BY <1>1, ReadingsAre
<1>6. Walk(at, c).in = in /\ Walk(at, c).out = out \o more
  <2>1. Walk(at, c) = Reading(in, out \o more)
    BY <1>1, <1>2
  <2> QED
    BY <2>1, ReadingsAre
<1> QED
  BY <1>2, <1>3, <1>4, <1>5, <1>6

\* What has been read of a text after each of its characters.
Walks(g, s) == g[0] = Unread /\ \A m \in 1 .. Len(s) : g[m] = Walk(g[m - 1], s[m])

LEMMA Scrubbing ==
  ASSUME NEW s \in Seq(Characters)
  PROVE  \E g \in [0 .. Len(s) -> Readings] : Walks(g, s) /\ Scrubbed(s) = g[Len(s)]
<1> DEFINE n == Len(s)
           walk[m \in 0 .. Len(s)] == IF m = 0 THEN Unread ELSE Walk(walk[m - 1], s[m])
           F == [m \in 1 .. n |-> [at \in Readings |-> Walk(at, s[m])]]
           X == Readings
           base == Unread
<1>1. n \in Nat /\ \A m \in 1 .. n : s[m] \in Characters
  BY LenProperties
<1>2. base \in X
  BY DEF Unread, Readings, Places
<1>3. F \in [1 .. n -> [X -> X]]
  BY <1>1, WalkStays
<1>4. Scrubbed(s) = walk[n]
  BY DEF Scrubbed
<1>5. PICK g \in [0 .. n -> X] : Unfolds(g, n, base, F)
  <2> HIDE DEF F, n, X, base
  <2> QED
    BY <1>1, <1>2, <1>3, Iterates
<1>6. \A m \in 1 .. n : g[m] = Walk(g[m - 1], s[m]) /\ m - 1 \in 0 .. n
  <2>1. \A k \in 1 .. n, at \in X : F[k][at] = Walk(at, s[k])
    OBVIOUS
  <2>2. \A m \in 1 .. n : m - 1 \in 0 .. n
    BY <1>1
  <2> HIDE DEF F, X
  <2> QED
    BY <1>5, <2>1, <2>2 DEF Unfolds
<1>7. g[0] = Unread
  BY <1>5 DEF Unfolds
<1>8. walk = [m \in 0 .. n |-> IF m = 0 THEN Unread ELSE Walk(walk[m - 1], s[m])]
  <2>1. \A m \in 0 .. n : m # 0 => m \in 1 .. n
    BY <1>1
  <2>2. g = [m \in 0 .. n |-> IF m = 0 THEN Unread ELSE Walk(g[m - 1], s[m])]
    <3> HIDE DEF F, n
    <3> QED
      BY <1>5, <1>6, <1>7, <2>1
  <2> QED
    BY <2>2
<1> HIDE DEF walk
<1>9. walk[0] = Unread /\ \A m \in 1 .. n : walk[m] = Walk(walk[m - 1], s[m])
  <2>1. \A m \in 1 .. n : m \in 0 .. n /\ m # 0
    BY <1>1
  <2>2. 0 \in 0 .. n
    BY <1>1
  <2> HIDE DEF n
  <2> QED
    BY <1>8, <2>1, <2>2
<1> DEFINE Good == {m \in 0 .. n : walk[m] = g[m]}
<1>10. 0 .. n \subseteq Good
  <2>1. 0 \in Good
    BY <1>1, <1>7, <1>9
  <2>2. \A m \in 0 .. n - 1 : m \in Good => m + 1 \in Good
    <3> SUFFICES ASSUME NEW m \in 0 .. n - 1, m \in Good PROVE m + 1 \in Good
      OBVIOUS
    <3>1. m + 1 \in 1 .. n /\ m + 1 \in 0 .. n /\ (m + 1) - 1 = m
      BY <1>1
    <3> HIDE DEF n
    <3> QED
      BY <1>6, <1>9, <3>1
  <2> HIDE DEF Good, n
  <2> QED
    BY <1>1, <2>1, <2>2, Reach
<1>11. walk[n] = g[n]
  BY <1>1, <1>10
<1> HIDE DEF F, base
<1> QED
  BY <1>4, <1>5, <1>6, <1>7, <1>11 DEF Walks

SameUpto(s, t, n) == \A m \in 1 .. n : s[m] = t[m]
BreakAt(s, i) == s[i] = "newline"
Follows(t, s, i) == \A m \in 1 .. Len(t) : s[i + m] = t[m]

\* What is read of a text's beginning is what is read of it alone.
LEMMA WalksAgree ==
  ASSUME NEW s \in Seq(Characters), NEW t \in Seq(Characters), NEW n \in 0 .. Len(s), n <= Len(t),
         SameUpto(s, t, n),
         NEW g \in [0 .. Len(s) -> Readings], NEW h \in [0 .. Len(t) -> Readings], Walks(g, s), Walks(h, t)
  PROVE  g[n] = h[n]
<1> DEFINE Same == {m \in 0 .. n : g[m] = h[m]}
<1>1. n \in Nat /\ Len(s) \in Nat /\ Len(t) \in Nat
  BY LenProperties
<1>2. 0 \in Same
  BY <1>1 DEF Walks
<1>3. ASSUME NEW m \in 0 .. n - 1, m \in Same PROVE m + 1 \in Same
  <2>1. m + 1 \in 1 .. Len(s) /\ m + 1 \in 1 .. Len(t) /\ m + 1 \in 1 .. n /\ m + 1 \in 0 .. n /\ (m + 1) - 1 = m
    BY <1>1
  <2>2. g[m + 1] = Walk(g[m], s[m + 1]) /\ h[m + 1] = Walk(h[m], t[m + 1])
    BY <2>1 DEF Walks
  <2> QED
    BY <1>3, <2>1, <2>2 DEF SameUpto
<1>4. 0 .. n \subseteq Same
  <2>1. \A m \in 0 .. n - 1 : m \in Same => m + 1 \in Same
    BY <1>3
  <2> HIDE DEF Same
  <2> QED
    BY <1>1, <1>2, <2>1, Reach
<1> QED
  BY <1>1, <1>4

\* From where the walk is in the text, what follows is read as if it were alone.
LEMMA WalksOn ==
  ASSUME NEW s \in Seq(Characters), NEW t \in Seq(Characters), NEW i \in Nat, Len(s) = i + Len(t),
         Follows(t, s, i), NEW g \in [0 .. Len(s) -> Readings], NEW h \in [0 .. Len(t) -> Readings], Walks(g, s), Walks(h, t),
         NEW before \in Seq(Visible), g[i] = Reading("text", before)
  PROVE  g[Len(s)] = Reading(h[Len(t)].in, before \o h[Len(t)].out)
<1> DEFINE n == Len(t)
           Same == {m \in 0 .. n : g[i + m] = Reading(h[m].in, before \o h[m].out)}
<1>1. n \in Nat /\ Len(s) \in Nat
  BY LenProperties
<1>2. 0 \in Same
  <2>1. h[0].in = "text" /\ h[0].out = <<>>
    BY DEF Walks, Unread
  <2>2. before \o <<>> = before
    BY ConcatEmptySeq
  <2>3. i + 0 = i /\ 0 \in 0 .. n
    BY <1>1
  <2> HIDE DEF n
  <2> QED
    BY <2>1, <2>2, <2>3
<1>3. ASSUME NEW m \in 0 .. n - 1, m \in Same PROVE m + 1 \in Same
  <2>1. /\ i + m + 1 \in 1 .. Len(s) /\ (i + m + 1) - 1 = i + m /\ i + (m + 1) = i + m + 1
        /\ m + 1 \in 1 .. n /\ m + 1 \in 0 .. n /\ (m + 1) - 1 = m /\ m \in 0 .. n
    BY <1>1
  <2>2. g[i + m + 1] = Walk(g[i + m], s[i + m + 1]) /\ h[m + 1] = Walk(h[m], t[m + 1])
    BY <2>1 DEF Walks
  <2>3. s[i + m + 1] = t[m + 1] /\ t[m + 1] \in Characters
    BY <2>1, LenProperties DEF Follows
  <2>4. h[m] \in Readings
    BY <2>1
  <2>5. Walk(Reading(h[m].in, before \o h[m].out), t[m + 1])
          = Reading(Walk(h[m], t[m + 1]).in, before \o Walk(h[m], t[m + 1]).out)
    BY <2>3, <2>4, WalkGoesOn
  <2> HIDE DEF n
  <2> QED
    BY <1>3, <2>1, <2>2, <2>3, <2>5
<1>4. 0 .. n \subseteq Same
  <2>1. \A m \in 0 .. n - 1 : m \in Same => m + 1 \in Same
    BY <1>3
  <2> HIDE DEF Same, n
  <2> QED
    BY <1>1, <1>2, <2>1, Reach
<1>5. n \in Same
  <2>1. n \in 0 .. n
    BY <1>1
  <2> HIDE DEF Same, n
  <2> QED
    BY <1>4, <2>1
<1> QED
  BY <1>5

\* A character would not be taken by an escape whatever it is.
Free(at) == at.in \notin {"escape", "oscEscape"}

\* A line break ends a sequence that it is met in, and reads as a space.
LEMMA BreakEnds ==
  ASSUME NEW at \in Readings, Free(at)
  PROVE  Walk(at, "newline") = Reading("text", Append(at.out, "digit"))
<1>1. \A out : InText(out, "newline") = Reading("text", Append(out, "digit"))
  BY DEF InText, Reading, Breaks, Kept, Visible
<1>2. at.in \in {"text", "csi", "osc"}
  BY DEF Readings, Places, Free
<1>3. Csi(at.out, "newline") = InText(at.out, "newline")
  BY DEF Csi, Ascii, BelowSpace
<1>4. Osc(at.out, "newline") = InText(at.out, "newline")
  BY DEF Osc, BelowSpace
<1> QED
  BY <1>1, <1>2, <1>3, <1>4 DEF Walk

\* A break between two parts of a text: the second is read as if it were alone.
LEMMA Resyncs ==
  ASSUME NEW s \in Seq(Characters), NEW i \in 1 .. Len(s), BreakAt(s, i),
         NEW a \in Seq(Characters), Len(a) = i - 1, SameUpto(a, s, Len(a)),
         NEW b \in Seq(Characters), Len(b) = Len(s) - i, Follows(b, s, i),
         Free(Scrubbed(a))
  PROVE  Scrubbed(s).out = Append(Scrubbed(a).out, "digit") \o Scrubbed(b).out
<1>1. /\ Len(s) \in Nat /\ i \in Nat /\ i # 0 /\ Len(a) \in 0 .. Len(s) /\ Len(a) = i - 1
      /\ Len(s) = i + Len(b) /\ Len(a) \in Nat /\ Len(b) \in Nat
  BY LenProperties
<1>4. PICK g \in [0 .. Len(s) -> Readings] : Walks(g, s) /\ Scrubbed(s) = g[Len(s)]
  BY Scrubbing
<1>5. PICK f \in [0 .. Len(a) -> Readings] : Walks(f, a) /\ Scrubbed(a) = f[Len(a)]
  BY Scrubbing
<1>6. PICK h \in [0 .. Len(b) -> Readings] : Walks(h, b) /\ Scrubbed(b) = h[Len(b)]
  BY Scrubbing
<1>7. Scrubbed(a) \in Readings /\ Scrubbed(b) \in Readings
  <2>1. Len(a) \in 0 .. Len(a) /\ Len(b) \in 0 .. Len(b)
    BY <1>1
  <2> QED
    BY <1>5, <1>6, <2>1
<1>8. g[Len(a)] = Scrubbed(a)
  <2>1. Len(a) \in 0 .. Len(a) /\ Len(a) <= Len(s)
    BY <1>1
  <2> QED
    <3>1. Walks(f, a) /\ Walks(g, s) /\ SameUpto(a, s, Len(a)) /\ Scrubbed(a) = f[Len(a)]
      BY <1>4, <1>5
    <3>2. f[Len(a)] = g[Len(a)]
      BY <2>1, <3>1, WalksAgree
    <3> QED
      BY <3>1, <3>2
<1> DEFINE before == Append(Scrubbed(a).out, "digit")
<1>9. g[i] = Reading("text", before)
  <2>1. g[i] = Walk(g[i - 1], s[i])
    BY <1>4 DEF Walks
  <2> QED
    BY <1>1, <1>7, <1>8, <2>1, BreakEnds DEF BreakAt
<1>10. before \in Seq(Visible)
  <2>1. Scrubbed(a).out \in Seq(Visible) /\ "digit" \in Visible
    BY <1>7 DEF Readings, Visible
  <2> QED
    BY <2>1, AppendProperties
<1> HIDE DEF before
<1>11. g[Len(s)] = Reading(h[Len(b)].in, before \o h[Len(b)].out)
  <2>1. /\ i \in Nat /\ Len(s) = i + Len(b) /\ Follows(b, s, i) /\ Walks(g, s) /\ Walks(h, b)
        /\ h \in [0 .. Len(b) -> Readings]
    BY <1>1, <1>4, <1>6
  <2> QED
    BY <1>9, <1>10, <2>1, WalksOn
<1>12. Scrubbed(s).out = before \o Scrubbed(b).out
  <2>1. Scrubbed(s) = Reading(Scrubbed(b).in, before \o Scrubbed(b).out)
    BY <1>4, <1>6, <1>11
  <2> QED
    BY <2>1, ReadingsAre
<1> QED
  BY <1>12 DEF before

THEOREM TextsResync == text \in Seq(Characters) => NewlineResyncs
<1>1. ASSUME NEW s \in Seq(Characters), NEW i \in 1 .. Len(s)
      PROVE  LET a == SubSeq(s, 1, i - 1)
                 b == SubSeq(s, i + 1, Len(s))
             IN  /\ a \in Seq(Characters) /\ Len(a) = i - 1 /\ SameUpto(a, s, Len(a))
                 /\ b \in Seq(Characters) /\ Len(b) = Len(s) - i /\ Follows(b, s, i)
  <2> DEFINE n == Len(s)
  <2>1. n \in Nat /\ i \in 1 .. n /\ \A m \in 1 .. n : s[m] \in Characters
    BY LenProperties
  <2> HIDE DEF n
  <2>2. (\A m \in 1 .. i - 1 : s[m] \in Characters) /\ (\A m \in i + 1 .. n : s[m] \in Characters)
    BY <2>1
  <2>3. 1 \in Int /\ i - 1 \in Int /\ i + 1 \in Int /\ n \in Int
    BY <2>1
  <2>4. /\ SubSeq(s, 1, i - 1) \in Seq(Characters)
        /\ Len(SubSeq(s, 1, i - 1)) = IF 1 <= i - 1 THEN (i - 1) - 1 + 1 ELSE 0
        /\ \A m \in 1 .. (i - 1) - 1 + 1 : SubSeq(s, 1, i - 1)[m] = s[1 + m - 1]
    BY <2>2, <2>3, SubSeqProperties
  <2>5. /\ SubSeq(s, i + 1, n) \in Seq(Characters)
        /\ Len(SubSeq(s, i + 1, n)) = IF i + 1 <= n THEN n - (i + 1) + 1 ELSE 0
        /\ \A m \in 1 .. n - (i + 1) + 1 : SubSeq(s, i + 1, n)[m] = s[(i + 1) + m - 1]
    BY <2>2, <2>3, SubSeqProperties
  <2> QED
    BY <2>1, <2>4, <2>5 DEF n, SameUpto, Follows
<1> SUFFICES ASSUME text \in Seq(Characters), NEW i \in DOMAIN text, text[i] = "newline",
                    Scrubbed(SubSeq(text, 1, i - 1)).in \notin {"escape", "oscEscape"}
             PROVE  Scrubbed(text).out = Append(Scrubbed(SubSeq(text, 1, i - 1)).out, "digit")
                                           \o Scrubbed(SubSeq(text, i + 1, Len(text))).out
  BY DEF NewlineResyncs
<1>2. i \in 1 .. Len(text)
  BY LenProperties
<1>3. Free(Scrubbed(SubSeq(text, 1, i - 1))) /\ BreakAt(text, i)
  BY DEF Free, BreakAt
<1> QED
  BY <1>1, <1>2, <1>3, Resyncs

-----------------------------------------------------------------------------
(* Reports                                                                 *)

LEMMA Products ==
  ASSUME NEW a \in Nat, NEW b \in Nat, NEW c \in Nat, NEW d \in Nat, a <= c, b <= d
  PROVE  a * b \in Nat /\ a * b <= c * d
<1>1. a * b <= a * d
  OBVIOUS
<1>2. a * d <= c * d
  OBVIOUS
<1> QED
  BY <1>1, <1>2

LEMMA Lesser ==
  ASSUME NEW a \in Nat, NEW b \in Nat
  PROVE  LesserSize(a, b) \in Nat /\ LesserSize(a, b) <= a /\ LesserSize(a, b) <= b
BY DEF LesserSize

LEMMA ReportArrives == report \in Payloads => WireKeepsItsWord
<1> SUFFICES ASSUME report \in Payloads
             PROVE  LET arrived == Parse(ToWire(report))
                    IN  /\ arrived # Dropped
                        /\ arrived.text = LesserSize(report.text, MaxShown)
                        /\ arrived.snapshot => arrived.tasks + report.unread >= report.tasks
  BY DEF WireKeepsItsWord
<1> DEFINE t == LesserSize(report.text, MaxWireField)
           n == LesserSize(report.tasks, MaxTasks)
           l == LesserSize(report.label, MaxTaskText)
           u == LesserSize(report.unread, MaxTasks)
           w == ToWire(report)
<1>1. /\ report.text \in Nat /\ report.tasks \in Nat /\ report.label \in Nat /\ report.unread \in Nat
      /\ report.unread <= report.tasks
  BY DEF Payloads
<1>2. /\ TextFields \in Nat /\ MaxWireField \in Nat /\ MaxShown \in Nat /\ MaxTasks \in Nat
      /\ MaxTaskText \in Nat /\ TaskOverhead \in Nat /\ EscapedBytes \in Nat /\ MaxPayload \in Nat
      /\ MaxShown <= MaxWireField
      /\ TextFields * MaxWireField * EscapedBytes
         + MaxTasks * (MaxTaskText * EscapedBytes + TaskOverhead) < MaxPayload \div 2
  BY WireAssumption
<1>3. w = [text |-> t, label |-> l, tasks |-> n, unread |-> u,
           snapshot |-> report.snapshot /\ report.tasks <= MaxTasks]
  BY DEF ToWire, w, t, l, n, u
<1>4. t \in Nat /\ n \in Nat /\ l \in Nat /\ u \in Nat /\ t <= MaxWireField /\ n <= MaxTasks /\ l <= MaxTaskText
  BY <1>1, <1>2, Lesser
<1> HIDE DEF t, n, l, u, w
<1>5. WireBytes(w) \in Nat /\ WireBytes(w) < MaxPayload \div 2
  <2>1. TextFields * t \in Nat /\ TextFields * t <= TextFields * MaxWireField
    BY <1>2, <1>4, Products
  <2>2. TextFields * t * EscapedBytes \in Nat
        /\ TextFields * t * EscapedBytes <= TextFields * MaxWireField * EscapedBytes
    <3>1. TextFields * MaxWireField \in Nat
      BY <1>2, Products
    <3> QED
      BY <1>2, <2>1, <3>1, Products
  <2>3. l * EscapedBytes \in Nat /\ l * EscapedBytes <= MaxTaskText * EscapedBytes
    BY <1>2, <1>4, Products
  <2>4. MaxTaskText * EscapedBytes \in Nat
    BY <1>2, Products
  <2>5. n * (l * EscapedBytes + TaskOverhead) \in Nat
        /\ n * (l * EscapedBytes + TaskOverhead) <= MaxTasks * (MaxTaskText * EscapedBytes + TaskOverhead)
    <3>1. /\ l * EscapedBytes + TaskOverhead \in Nat /\ MaxTaskText * EscapedBytes + TaskOverhead \in Nat
          /\ l * EscapedBytes + TaskOverhead <= MaxTaskText * EscapedBytes + TaskOverhead
      BY <1>2, <2>3, <2>4
    <3> QED
      BY <1>2, <1>4, <3>1, Products
  <2>6. TextFields * MaxWireField * EscapedBytes \in Nat
        /\ MaxTasks * (MaxTaskText * EscapedBytes + TaskOverhead) \in Nat
    <3>1. TextFields * MaxWireField \in Nat /\ MaxTaskText * EscapedBytes + TaskOverhead \in Nat
      BY <1>2, <2>4, Products
    <3> QED
      BY <1>2, <3>1, Products
  <2> DEFINE a == TextFields * t * EscapedBytes
             b == n * (l * EscapedBytes + TaskOverhead)
             c == TextFields * MaxWireField * EscapedBytes
             d == MaxTasks * (MaxTaskText * EscapedBytes + TaskOverhead)
             half == MaxPayload \div 2
  <2>7. WireBytes(w) = a + b
    BY <1>3 DEF WireBytes
  <2>8. a \in Nat /\ b \in Nat /\ c \in Nat /\ d \in Nat /\ a <= c /\ b <= d /\ c + d < half
    BY <1>2, <2>2, <2>5, <2>6
  <2>9. half \in Nat
    BY <1>2
  <2> HIDE DEF a, b, c, d, half
  <2>10. a + b \in Nat /\ a + b < half
    BY <2>8, <2>9
  <2> QED
    BY <2>7, <2>10 DEF half
<1>6. ~(WireBytes(w) + MaxPayload \div 2 > MaxPayload)
  <2>1. \A m \in Nat : m \div 2 \in Nat /\ 2 * (m \div 2) <= m
    OBVIOUS
  <2>2. MaxPayload \div 2 \in Nat /\ 2 * (MaxPayload \div 2) <= MaxPayload
    BY <1>2, <2>1
  <2> DEFINE half == MaxPayload \div 2
  <2> HIDE DEF half
  <2> QED
    BY <1>2, <1>5, <2>2 DEF half
<1> DEFINE read == n - u
<1>7. Parse(w) = [text |-> LesserSize(t, MaxShown), label |-> LesserSize(l, MaxTaskText),
                  tasks |-> LesserSize(read, MaxTasks), unread |-> 0,
                  snapshot |-> (report.snapshot /\ report.tasks <= MaxTasks) /\ read <= MaxTasks]
  BY <1>3, <1>6 DEF Parse, ParseTasks
<1>8. Parse(w) # Dropped
  <2>1. "text" \in DOMAIN Parse(w) /\ "text" \notin DOMAIN Dropped
    BY <1>7 DEF Dropped
  <2> QED
    BY <2>1
<1>9. Parse(w).text = LesserSize(report.text, MaxShown)
  <2>1. LesserSize(LesserSize(report.text, MaxWireField), MaxShown) = LesserSize(report.text, MaxShown)
    BY <1>1, <1>2 DEF LesserSize
  <2> QED
    BY <1>7, <2>1 DEF t
<1>10. ASSUME report.tasks <= MaxTasks, read <= MaxTasks
       PROVE  Parse(w).tasks + report.unread >= report.tasks
  <2>1. n = report.tasks /\ u = report.unread
    BY <1>1, <1>2, <1>10 DEF n, u, LesserSize
  <2>2. read \in Nat /\ LesserSize(read, MaxTasks) = read
    BY <1>1, <1>2, <1>10, <2>1 DEF LesserSize
  <2> QED
    BY <1>1, <1>7, <2>1, <2>2
<1>11. Parse(w).snapshot => report.tasks <= MaxTasks /\ read <= MaxTasks
  <2> DEFINE whole == (report.snapshot /\ report.tasks <= MaxTasks) /\ read <= MaxTasks
             T == LesserSize(t, MaxShown)
             L == LesserSize(l, MaxTaskText)
             N == LesserSize(read, MaxTasks)
  <2>1. Parse(w) = [text |-> T, label |-> L, tasks |-> N, unread |-> 0, snapshot |-> whole]
    BY <1>7
  <2> HIDE DEF whole, T, L, N
  <2>2. Parse(w).snapshot = whole
    BY <2>1
  <2> QED
    BY <2>2, Zenon DEF whole
<1> QED
  BY <1>8, <1>9, <1>10, <1>11 DEF w

-----------------------------------------------------------------------------
(* Presence                                                                *)

\* A pane of a tab, whatever it is called.
ShownPanes == [agent : BOOLEAN, tracked : BOOLEAN, label : Seq(Characters)]

LEMMA Cutting ==
  ASSUME NEW S, NEW s \in Seq(S), NEW max \in Nat
  PROVE  /\ FirstChars(s, max) \in Seq(S)
         /\ Len(FirstChars(s, max)) <= max /\ Len(FirstChars(s, max)) <= Len(s)
         /\ Len(s) <= max => FirstChars(s, max) = s
         /\ Len(s) > max => Len(FirstChars(s, max)) = max
         /\ \A i \in 1 .. Len(FirstChars(s, max)) : FirstChars(s, max)[i] = s[i]
<1> DEFINE n == LesserSize(Len(s), max)
<1>1. Len(s) \in Nat /\ \A i \in 1 .. Len(s) : s[i] \in S
  BY LenProperties
<1>2. n \in Nat /\ n <= max /\ n <= Len(s) /\ (Len(s) <= max => n = Len(s)) /\ (Len(s) > max => n = max)
  BY <1>1 DEF LesserSize
<1> HIDE DEF n
<1>3. FirstChars(s, max) = SubSeq(s, 1, n)
  BY DEF FirstChars, n
<1>4. \A i \in 1 .. n : s[i] \in S
  BY <1>1, <1>2
<1>5. /\ SubSeq(s, 1, n) \in Seq(S) /\ Len(SubSeq(s, 1, n)) = IF 1 <= n THEN n - 1 + 1 ELSE 0
      /\ \A i \in 1 .. n - 1 + 1 : SubSeq(s, 1, n)[i] = s[1 + i - 1]
  <2>1. 1 \in Int /\ n \in Int
    BY <1>2
  <2> QED
    BY <1>4, <2>1, SubSeqProperties
<1>6. Len(SubSeq(s, 1, n)) = n /\ \A i \in 1 .. n : SubSeq(s, 1, n)[i] = s[i]
  BY <1>2, <1>5
<1>7. SubSeq(s, 1, Len(s)) = s
  BY SubSeqFull
<1> QED
  BY <1>2, <1>3, <1>5, <1>6, <1>7

\* What the sanitizer leaves it leaves again.
LEMMA CleanIsClean ==
  ASSUME NEW s \in Seq(Characters), NEW max \in Nat
  PROVE  Sanitize(Sanitize(s, max), max) = Sanitize(s, max)
<1> DEFINE c == Sanitize(s, max)
<1>1. \E clean \in Seq(Visible) : Sanitize(s, max) = FirstChars(clean, max)
  <2>1. CASE \A i \in DOMAIN s : Kept(s[i])
    <3>1. Len(s) \in Nat /\ DOMAIN s = 1 .. Len(s) /\ s \in [1 .. Len(s) -> Characters]
      BY LenProperties
    <3>2. \A i \in 1 .. Len(s) : s[i] \in Visible
      BY <2>1, <3>1 DEF Kept
    <3>3. s \in [1 .. Len(s) -> Visible]
      BY <3>1, <3>2
    <3>4. s \in Seq(Visible)
      BY <3>1, <3>3, SeqDef
    <3> QED
      BY <2>1, <3>4 DEF Sanitize
  <2>2. CASE ~\A i \in DOMAIN s : Kept(s[i])
    <3>1. Scrubbed(s) \in Readings
      <4>1. PICK g \in [0 .. Len(s) -> Readings] : Scrubbed(s) = g[Len(s)]
        BY Scrubbing
      <4>2. Len(s) \in 0 .. Len(s)
        BY LenProperties
      <4> QED
        BY <4>1, <4>2
    <3>2. Scrubbed(s).out \in Seq(Visible)
      BY <3>1 DEF Readings
    <3> QED
      BY <2>2, <3>2 DEF Sanitize
  <2> QED
    BY <2>1, <2>2
<1>2. c \in Seq(Visible) /\ Len(c) <= max
  BY <1>1, Cutting
<1> HIDE DEF c
<1>3. \A i \in DOMAIN c : Kept(c[i])
  BY <1>2, LenProperties DEF Kept
<1>4. FirstChars(c, max) = c
  BY <1>2, Cutting
<1>5. Sanitize(c, max) = c
  BY <1>3, <1>4 DEF Sanitize
<1> QED
  BY <1>5 DEF c

OfThese(pane, kinds) == pane.tracked /\ pane.agent \in kinds

\* All panes of the kind, and no others.
OnlyThese(s, kinds) == \A i \in 1 .. Len(s) : OfThese(s[i], kinds)
AllThese(s, panes, n, kinds) ==
  \A j \in 1 .. n : OfThese(panes[j], kinds) => \E i \in 1 .. Len(s) : s[i] = panes[j]

LEMMA Sorting ==
  ASSUME NEW panes \in Seq(ShownPanes), NEW kinds
  PROVE  /\ OfKind(panes, kinds) \in Seq(ShownPanes)
         /\ OnlyThese(OfKind(panes, kinds), kinds)
         /\ AllThese(OfKind(panes, kinds), panes, Len(panes), kinds)
<1> DEFINE n == Len(panes)
           X == Seq(ShownPanes)
           Adding(s, m) == IF panes[m].tracked /\ panes[m].agent \in kinds THEN Append(s, panes[m]) ELSE s
           found[m \in 0 .. Len(panes)] ==
             IF m = 0 THEN <<>>
             ELSE IF panes[m].tracked /\ panes[m].agent \in kinds THEN Append(found[m - 1], panes[m])
             ELSE found[m - 1]
           F == [m \in 1 .. n |-> [s \in X |-> Adding(s, m)]]
           base == <<>>
<1>1. n \in Nat /\ \A m \in 1 .. n : panes[m] \in ShownPanes
  BY LenProperties
<1>2. base \in X
  OBVIOUS
<1>3. ASSUME NEW m \in 1 .. n, NEW s \in X PROVE Adding(s, m) \in X
  BY <1>1, AppendProperties
<1>4. F \in [1 .. n -> [X -> X]]
  <2> HIDE DEF Adding, X, n
  <2> QED
    BY <1>3
<1>5. OfKind(panes, kinds) = found[n]
  BY DEF OfKind
<1>6. PICK g \in [0 .. n -> X] : Unfolds(g, n, base, F)
  <2> HIDE DEF F, n, X, base
  <2> QED
    BY <1>1, <1>2, <1>4, Iterates
<1>7. ASSUME NEW m \in 1 .. n
      PROVE  m - 1 \in 0 .. n /\ m \in 0 .. n /\ g[m - 1] \in X /\ g[m] = Adding(g[m - 1], m)
  <2>1. \A k \in 1 .. n, s \in X : F[k][s] = Adding(s, k)
    BY DEF F
  <2>2. m - 1 \in 0 .. n /\ m \in 0 .. n
    BY <1>1
  <2> HIDE DEF F, X, n, Adding
  <2> QED
    BY <1>6, <2>1, <2>2 DEF Unfolds
<1>8. g[0] = <<>>
  BY <1>6 DEF Unfolds
<1>9. found = [m \in 0 .. n |-> IF m = 0 THEN <<>>
                                ELSE IF panes[m].tracked /\ panes[m].agent \in kinds THEN Append(found[m - 1], panes[m])
                                ELSE found[m - 1]]
  <2>1. \A m \in 0 .. n : m # 0 => m \in 1 .. n
    BY <1>1
  <2>2. g = [m \in 0 .. n |-> IF m = 0 THEN <<>>
                              ELSE IF panes[m].tracked /\ panes[m].agent \in kinds THEN Append(g[m - 1], panes[m])
                              ELSE g[m - 1]]
    <3> HIDE DEF F, n
    <3> QED
      BY <1>6, <1>7, <1>8, <2>1
  <2> QED
    BY <2>2
<1> HIDE DEF found
<1>10. found[0] = <<>> /\ \A m \in 1 .. n : found[m] = Adding(found[m - 1], m)
  <2>1. (\A m \in 1 .. n : m \in 0 .. n /\ m # 0) /\ 0 \in 0 .. n
    BY <1>1
  <2> HIDE DEF n
  <2> QED
    BY <1>9, <2>1
<1> DEFINE Good == {m \in 0 .. n : /\ found[m] \in X /\ OnlyThese(found[m], kinds)
                                   /\ AllThese(found[m], panes, m, kinds)}
<1>11. 0 \in Good
  <2>1. 0 \in 0 .. n /\ Len(<<>>) = 0
    BY <1>1
  <2> QED
    <3>1. found[0] \in X
      BY <1>2, <1>10
    <3>2. OnlyThese(<<>>, kinds) /\ AllThese(<<>>, panes, 0, kinds)
      BY DEF OnlyThese, AllThese
    <3> HIDE DEF X, n
    <3> QED
      BY <1>10, <2>1, <3>1, <3>2
<1>12. ASSUME NEW m \in 0 .. n - 1, m \in Good PROVE m + 1 \in Good
  <2> DEFINE s == found[m]
             pane == panes[m + 1]
             t == found[m + 1]
  <2>1. m + 1 \in 1 .. n /\ m + 1 \in 0 .. n /\ (m + 1) - 1 = m /\ m \in Nat
    BY <1>1
  <2>2. s \in X /\ OnlyThese(s, kinds) /\ AllThese(s, panes, m, kinds)
    BY <1>12
  <2>3. t = IF OfThese(pane, kinds) THEN Append(s, pane) ELSE s
    BY <1>10, <2>1 DEF OfThese
  <2>4. pane \in ShownPanes
    BY <1>1, <2>1
  <2> HIDE DEF s, t, pane, Good
  <2>5. \A j \in 1 .. m + 1 : j \in 1 .. m \/ panes[j] = pane
    <3>1. \A j \in 1 .. m + 1 : j \in 1 .. m \/ j = m + 1
      BY <2>1
    <3> QED
      BY <3>1 DEF pane
  <2>6. CASE OfThese(pane, kinds)
    <3>1. /\ t \in X /\ Len(t) = Len(s) + 1 /\ t[Len(s) + 1] = pane /\ Len(s) \in Nat
          /\ \A i \in 1 .. Len(s) : t[i] = s[i]
      BY <2>2, <2>3, <2>4, <2>6, AppendProperties, LenProperties
    <3>2. \A i \in 1 .. Len(t) : i \in 1 .. Len(s) \/ i = Len(s) + 1
      BY <3>1
    <3>3. OnlyThese(t, kinds)
      BY <2>2, <2>6, <3>1, <3>2 DEF OnlyThese
    <3>4. \A i \in 1 .. Len(s) : i \in 1 .. Len(t)
      BY <3>1
    <3>5. Len(s) + 1 \in 1 .. Len(t)
      BY <3>1
    <3>6. AllThese(t, panes, m + 1, kinds)
      <4> SUFFICES ASSUME NEW j \in 1 .. m + 1, OfThese(panes[j], kinds)
                   PROVE  \E i \in 1 .. Len(t) : t[i] = panes[j]
        BY DEF AllThese
      <4>1. CASE panes[j] = pane
        BY <3>1, <3>5, <4>1
      <4>2. CASE j \in 1 .. m
        BY <2>2, <3>1, <3>4, <4>2 DEF AllThese
      <4> QED
        BY <2>5, <4>1, <4>2
    <3> QED
      BY <2>1, <3>1, <3>3, <3>6 DEF Good, t
  <2>7. CASE ~OfThese(pane, kinds)
    <3>1. t = s
      BY <2>3, <2>7
    <3>2. AllThese(s, panes, m + 1, kinds)
      BY <2>2, <2>5, <2>7 DEF AllThese
    <3> QED
      BY <2>1, <2>2, <3>1, <3>2 DEF Good, t
  <2> QED
    BY <2>6, <2>7
<1>13. n \in Good
  <2>1. \A m \in 0 .. n - 1 : m \in Good => m + 1 \in Good
    BY <1>12
  <2> HIDE DEF Good
  <2>2. 0 .. n \subseteq Good
    <3> HIDE DEF n
    <3> QED
      BY <1>1, <1>11, <2>1, Reach
  <2> QED
    BY <1>1, <2>2
<1> QED
  BY <1>5, <1>13

\* Agents and commands, agents first, as many as are published.
LEMMA Publishing ==
  ASSUME NEW panes \in Seq(ShownPanes)
  PROVE  LET sent == PresencePanes(panes)
         IN  /\ sent \in Seq(ShownPanes) /\ Len(sent) <= MaxPeerPanes
             /\ \A j \in 1 .. Len(panes) :
                  OfThese(panes[j], {TRUE}) =>
                    \/ \E i \in 1 .. Len(sent) : sent[i] = panes[j]
                    \/ \A i \in 1 .. Len(sent) : sent[i].agent
<1> DEFINE a == OfKind(panes, {TRUE})
           c == OfKind(panes, {FALSE})
           sent == PresencePanes(panes)
<1>1. /\ a \in Seq(ShownPanes) /\ OnlyThese(a, {TRUE}) /\ AllThese(a, panes, Len(panes), {TRUE})
      /\ c \in Seq(ShownPanes)
  BY Sorting
<1> HIDE DEF a, c
<1>2. /\ a \o c \in Seq(ShownPanes) /\ Len(a) \in Nat /\ Len(c) \in Nat /\ Len(a \o c) = Len(a) + Len(c)
      /\ \A i \in 1 .. Len(a) + Len(c) : (a \o c)[i] = IF i <= Len(a) THEN a[i] ELSE c[i - Len(a)]
  BY <1>1, ConcatProperties, LenProperties
<1>3. sent = FirstChars(a \o c, MaxPeerPanes) /\ MaxPeerPanes \in Nat
  BY PeerAssumption DEF PresencePanes, a, c
<1> HIDE DEF sent
<1>4. /\ sent \in Seq(ShownPanes) /\ Len(sent) <= MaxPeerPanes /\ Len(sent) <= Len(a) + Len(c)
      /\ Len(a) + Len(c) <= MaxPeerPanes => sent = a \o c
      /\ Len(a) + Len(c) > MaxPeerPanes => Len(sent) = MaxPeerPanes
      /\ \A i \in 1 .. Len(sent) : sent[i] = (a \o c)[i]
  <2> DEFINE all == a \o c
  <2>1. all \in Seq(ShownPanes) /\ Len(all) = Len(a) + Len(c) /\ sent = FirstChars(all, MaxPeerPanes)
    BY <1>2, <1>3
  <2> HIDE DEF all
  <2>2. /\ sent \in Seq(ShownPanes) /\ Len(sent) <= MaxPeerPanes /\ Len(sent) <= Len(all)
        /\ Len(all) <= MaxPeerPanes => sent = all
        /\ Len(all) > MaxPeerPanes => Len(sent) = MaxPeerPanes
        /\ \A i \in 1 .. Len(sent) : sent[i] = all[i]
    <3> DEFINE cut == FirstChars(all, MaxPeerPanes)
    <3>1. /\ cut \in Seq(ShownPanes) /\ Len(cut) <= MaxPeerPanes /\ Len(cut) <= Len(all)
          /\ Len(all) <= MaxPeerPanes => cut = all
          /\ Len(all) > MaxPeerPanes => Len(cut) = MaxPeerPanes
          /\ \A i \in 1 .. Len(cut) : cut[i] = all[i]
      BY <1>3, <2>1, Cutting
    <3>2. cut = sent
      BY <2>1
    <3> QED
      BY <3>1, <3>2
  <2> QED
    BY <2>1, <2>2 DEF all
<1>5. Len(sent) \in Nat
  BY <1>4, LenProperties
<1>6. \A i \in 1 .. Len(sent) : i <= Len(a) => i \in 1 .. Len(a) /\ sent[i] = a[i]
  BY <1>2, <1>4, <1>5
<1>7. ASSUME NEW j \in 1 .. Len(panes), OfThese(panes[j], {TRUE})
      PROVE  \/ \E i \in 1 .. Len(sent) : sent[i] = panes[j]
             \/ \A i \in 1 .. Len(sent) : sent[i].agent
  <2>1. PICK i \in 1 .. Len(a) : a[i] = panes[j]
    BY <1>1, <1>7 DEF AllThese
  <2>2. CASE i <= Len(sent)
    <3>1. i \in 1 .. Len(sent) /\ i <= Len(a)
      BY <1>2, <1>5, <2>2
    <3> QED
      BY <1>6, <2>1, <3>1
  <2>3. CASE i > Len(sent)
    <3>1. \A k \in 1 .. Len(sent) : k <= Len(a)
      BY <1>2, <1>5, <2>3
    <3> QED
      BY <1>1, <1>6, <3>1 DEF OnlyThese, OfThese
  <2> QED
    BY <1>2, <1>5, <2>2, <2>3
<1> QED
  BY <1>4, <1>7 DEF sent

LEMMA PublishedArrives == published \in Seq(ShownPanes) => PublishedIsRead
<1> SUFFICES ASSUME published \in Seq(ShownPanes) PROVE PublishedIsRead
  OBVIOUS
<1> DEFINE sent == PresencePanes(published)
           labels == [i \in DOMAIN sent |-> Sanitize(sent[i].label, MaxPeerLabel)]
           read == ReadPresence(<<"letter">>, labels)
           n == Len(sent)
<1>1. /\ sent \in Seq(ShownPanes) /\ n <= MaxPeerPanes
      /\ \A j \in 1 .. Len(published) :
           OfThese(published[j], {TRUE}) =>
             \/ \E i \in 1 .. n : sent[i] = published[j]
             \/ \A i \in 1 .. n : sent[i].agent
  BY Publishing
<1> HIDE DEF sent
<1>2. n \in Nat /\ DOMAIN sent = 1 .. n /\ \A i \in 1 .. n : sent[i] \in ShownPanes
  BY <1>1, LenProperties
<1>3. MaxPeerPanes \in Nat /\ MaxPeerLabel \in Nat /\ MaxPeerLabel >= 1
  BY PeerAssumption
<1> DEFINE L == {Sanitize(sent[i].label, MaxPeerLabel) : i \in 1 .. n}
<1>4. labels \in Seq(L) /\ Len(labels) = n /\ DOMAIN labels = 1 .. n
  <2>1. labels \in [1 .. n -> L] /\ labels = [i \in 1 .. n |-> Sanitize(sent[i].label, MaxPeerLabel)]
    BY <1>2
  <2> HIDE DEF labels, L
  <2>2. labels \in Seq(L)
    BY <1>2, <2>1, SeqDef
  <2>3. DOMAIN labels = 1 .. n
    BY <2>1
  <2> QED
    BY <1>2, <2>2, <2>3, LenProperties
<1>5. \A i \in 1 .. n : labels[i] = Sanitize(sent[i].label, MaxPeerLabel)
  BY <1>2
<1> HIDE DEF labels, L
<1>6. FirstChars(labels, MaxPeerPanes) = labels
  BY <1>1, <1>3, <1>4, Cutting
<1>7. \A i \in DOMAIN labels : labels[i] = Sanitize(labels[i], MaxPeerLabel)
  <2> SUFFICES ASSUME NEW i \in 1 .. n PROVE labels[i] = Sanitize(labels[i], MaxPeerLabel)
    BY <1>4
  <2>1. sent[i].label \in Seq(Characters)
    BY <1>2 DEF ShownPanes
  <2> QED
    BY <1>3, <1>5, <2>1, CleanIsClean
<1>8. <<"letter">> # <<>> /\ <<"letter">> = Sanitize(<<"letter">>, MaxPeerLabel)
  <2> DEFINE name == <<"letter">>
  <2>1. name \in Seq(Visible) /\ Len(name) = 1 /\ \A i \in DOMAIN name : Kept(name[i])
    BY DEF Kept, Visible
  <2> HIDE DEF name
  <2>2. FirstChars(name, MaxPeerLabel) = name
    BY <1>3, <2>1, Cutting
  <2>3. name = Sanitize(name, MaxPeerLabel)
    BY <2>1, <2>2 DEF Sanitize
  <2> QED
    BY <2>3 DEF name
<1>9. read = [name |-> <<"letter">>, labels |-> labels]
  BY <1>6, <1>7, <1>8 DEF ReadPresence
<1>10. read # Dropped /\ Len(read.labels) = n
  <2>1. "name" \in DOMAIN read /\ "name" \notin DOMAIN Dropped
    BY <1>9 DEF Dropped
  <2> QED
    BY <1>4, <1>9, <2>1
<1>11. ASSUME NEW pane \in ToSet(published), pane.agent /\ pane.tracked /\ pane \notin ToSet(sent)
       PROVE  \A i \in DOMAIN sent : sent[i].agent
  <2>1. PICK j \in 1 .. Len(published) : published[j] = pane
    BY <1>11, LenProperties DEF ToSet
  <2>2. published[j] \in ShownPanes
    BY LenProperties
  <2>3. OfThese(published[j], {TRUE})
    BY <1>11, <2>1, <2>2 DEF OfThese, ShownPanes
  <2>4. ~\E i \in 1 .. n : sent[i] = published[j]
    BY <1>2, <1>11, <2>1 DEF ToSet
  <2> QED
    BY <1>1, <1>2, <2>3, <2>4
<1> QED
  BY <1>10, <1>11 DEF PublishedIsRead, sent, labels

\* Every report arrives and keeps its word, and every tab's panes are read by the
\* peers, whatever their number, order and labels (to_wire and parse,
\* own_presence and Presence::parse).
THEOREM WhatIsSentIsRead == report \in Payloads /\ published \in Seq(ShownPanes) => SentIsRead
BY ReportArrives, PublishedArrives DEF SentIsRead

-----------------------------------------------------------------------------
(* What reaches a rail                                                     *)

IntakeInv ==
  /\ text \in Seq(Characters)
  /\ report = NoReport \/ report \in Payloads
  /\ published \in Seq(ShownPanes)

LEMMA IntakeStarts == MCInit => IntakeInv
BY EmptySeq DEF MCInit, IntakeInv

LEMMA IntakeGoesOn == IntakeInv /\ [MCNext]_<<namingVars, part, written, configVars>> => IntakeInv'
<1> SUFFICES ASSUME IntakeInv, [MCNext]_<<namingVars, part, written, configVars>> PROVE IntakeInv'
  OBVIOUS
<1>1. CASE UNCHANGED written
  BY <1>1 DEF IntakeInv, written
<1>2. CASE Types
  BY <1>2, AppendProperties DEF Types, IntakeInv
<1>3. CASE Sends
  BY <1>3 DEF Sends, IntakeInv, Reports
<1>4. ASSUME NEW pane \in PaneKinds, published' = Append(published, pane), UNCHANGED <<text, report>>
      PROVE  IntakeInv'
  <2>1. pane \in ShownPanes
    <3>1. Labels \subseteq Seq(Characters)
      <4>1. {"letter", "ESC", "beyond", "newline", "bidi"} \subseteq Characters
        BY DEF Characters, Visible, Breaks, Invisible
      <4> QED
        BY <4>1, EmptySeq DEF Labels
    <3> QED
      BY <3>1 DEF PaneKinds, ShownPanes
  <2> QED
    BY <1>4, <2>1, AppendProperties DEF IntakeInv
<1> QED
  BY <1>1, <1>2, <1>3, <1>4 DEF MCNext, Opens, written

\* The texts that are typed (scrub, sanitize).
THEOREM NewlineResyncsCorrect == MCSpec => []NewlineResyncs
<1>1. IntakeInv => NewlineResyncs
  BY TextsResync DEF IntakeInv
<1> QED
  BY <1>1, IntakeStarts, IntakeGoesOn, PTL DEF MCSpec

\* The reports that are sent and the tabs that are published.
THEOREM SentIsReadCorrect == MCSpec => []SentIsRead
<1>1. IntakeInv => SentIsRead
  <2> SUFFICES ASSUME IntakeInv PROVE SentIsRead
    OBVIOUS
  <2>1. CASE report \in Payloads
    BY <2>1, WhatIsSentIsRead DEF IntakeInv
  <2>2. CASE report = NoReport
    BY <2>2, PublishedArrives DEF IntakeInv, SentIsRead, WireKeepsItsWord
  <2> QED
    BY <2>1, <2>2 DEF IntakeInv
<1> QED
  BY <1>1, IntakeStarts, IntakeGoesOn, PTL DEF MCSpec

-----------------------------------------------------------------------------
(* The names of a tab                                                      *)

Tabs == {"own", "near"}
Given == {"radar", "x", "z", "overlon", "vim"}          \* what a rail may call a tab
Names == Given \cup {"notes", Default}
Titles == {"untitled", "vim"}
Dirs == {"root", "worktree", "x", "z", "overlong"}
Repos == {None, "radar"}

TabLists == Seq([id : Tabs, name : Names])
SeenPanes == [id : Panes, title : Titles, focused : BOOLEAN]
PaneFacts == [focused : BOOLEAN, title : Titles, repo : Repos, dir : Dirs]
KnownDirs == UNION {[D -> Dirs] : D \in SUBSET Panes}
RenameCalls == [tab : Tabs, name : Given]

\* A rail that asked for the directories of these panes.
Rails(asked) ==
  [own : Tabs \cup {None}, position : Nat, tabs : TabLists, panes : Seq(Seq(SeenPanes)),
   dir : KnownDirs, asked : {asked}, repo : [Panes -> Repos], applied : Given \cup {None},
   mode : Modes, calls : Seq(RenameCalls)]

LEMMA Filtered ==
  ASSUME NEW T, NEW s \in Seq(T), NEW S
  PROVE  Among(s, S) \in Seq(T \cap S)
<1> DEFINE n == Len(s)
           X == Seq(T \cap S)
           Adding(t, m) == IF s[m] \in S THEN Append(t, s[m]) ELSE t
           found[m \in 0 .. Len(s)] ==
             IF m = 0 THEN <<>>
             ELSE IF s[m] \in S THEN Append(found[m - 1], s[m])
             ELSE found[m - 1]
           F == [m \in 1 .. n |-> [t \in X |-> Adding(t, m)]]
           base == <<>>
<1>1. n \in Nat /\ \A m \in 1 .. n : s[m] \in T
  BY LenProperties
<1>2. base \in X
  OBVIOUS
<1>3. ASSUME NEW m \in 1 .. n, NEW t \in X PROVE Adding(t, m) \in X
  BY <1>1, AppendProperties
<1>4. F \in [1 .. n -> [X -> X]]
  <2> HIDE DEF Adding, X, n
  <2> QED
    BY <1>3
<1>5. Among(s, S) = found[n]
  BY DEF Among
<1>6. PICK g \in [0 .. n -> X] : Unfolds(g, n, base, F)
  <2> HIDE DEF F, n, X, base
  <2> QED
    BY <1>1, <1>2, <1>4, Iterates
<1>7. ASSUME NEW m \in 1 .. n
      PROVE  m - 1 \in 0 .. n /\ m \in 0 .. n /\ g[m - 1] \in X /\ g[m] = Adding(g[m - 1], m)
  <2>1. \A k \in 1 .. n, t \in X : F[k][t] = Adding(t, k)
    BY DEF F
  <2>2. m - 1 \in 0 .. n /\ m \in 0 .. n
    BY <1>1
  <2> HIDE DEF F, X, n, Adding
  <2> QED
    BY <1>6, <2>1, <2>2 DEF Unfolds
<1>8. g[0] = <<>>
  BY <1>6 DEF Unfolds
<1>9. found = [m \in 0 .. n |-> IF m = 0 THEN <<>>
                                ELSE IF s[m] \in S THEN Append(found[m - 1], s[m])
                                ELSE found[m - 1]]
  <2>1. \A m \in 0 .. n : m # 0 => m \in 1 .. n
    BY <1>1
  <2>2. g = [m \in 0 .. n |-> IF m = 0 THEN <<>>
                              ELSE IF s[m] \in S THEN Append(g[m - 1], s[m])
                              ELSE g[m - 1]]
    <3> HIDE DEF F, n
    <3> QED
      BY <1>6, <1>7, <1>8, <2>1
  <2> HIDE DEF F, X
  <2> QED
    BY <2>2
<1> HIDE DEF found
<1>10. ASSUME NEW m \in 1 .. n PROVE found[m] = Adding(found[m - 1], m)
  <2>1. m \in 0 .. n /\ m # 0
    BY <1>1
  <2> HIDE DEF n
  <2> QED
    BY <1>9, <2>1
<1>11. found[n] \in X
  <2> DEFINE Met == {m \in 0 .. n : found[m] \in X}
  <2>0. 0 \in 0 .. n /\ n \in 0 .. n
    BY <1>1
  <2>1. 0 \in Met
    <3>1. found[0] = <<>>
      <4> HIDE DEF n
      <4> QED
        BY <1>9, <2>0
    <3> QED
      BY <1>2, <2>0, <3>1
  <2>2. ASSUME NEW k \in 0 .. n - 1, k \in Met PROVE k + 1 \in Met
    <3>1. k + 1 \in 1 .. n /\ k + 1 \in 0 .. n /\ k + 1 # 0 /\ k + 1 - 1 = k
      BY <1>1
    <3>2. PICK m \in 1 .. n : m = k + 1 /\ m - 1 = k
      BY <3>1
    <3>3. found[m] = Adding(found[m - 1], m)
      BY <1>10
    <3>4. found[k] \in X
      BY <2>2
    <3> HIDE DEF Adding, X, n
    <3>5. found[m] \in X
      BY <1>3, <3>2, <3>3, <3>4
    <3> QED
      BY <3>1, <3>2, <3>5
  <2> HIDE DEF Met
  <2>3. 0 .. n \subseteq Met
    BY <1>1, <2>1, <2>2, Reach
  <2>4. n \in Met
    BY <2>0, <2>3
  <2> QED
    BY <2>4 DEF Met
<1> QED
  BY <1>5, <1>11

LEMMA FirstOf ==
  ASSUME NEW n \in Nat, NEW S \in SUBSET (1 .. n), S # {}
  PROVE  Min(S) \in S
<1>1. PICK x \in S : \A y \in S : x <= y
  BY LeastNumber
<1> QED
  BY <1>1 DEF Min

LEMMA FocusedFirstIs ==
  ASSUME NEW panes \in Seq(PaneFacts), NEW T, NEW names \in Seq(T), Len(names) = Len(panes)
  PROVE  FocusedFirst(panes, names) \in Seq(T \ {None})
<1> DEFINE focused == {i \in DOMAIN panes : panes[i].focused}
           first == IF focused = {} THEN <<>> ELSE <<names[Min(focused)]>>
           heard == first \o names
<1>1. DOMAIN panes = 1 .. Len(panes) /\ Len(panes) \in Nat /\ \A i \in 1 .. Len(panes) : names[i] \in T
  BY LenProperties
<1>2. focused # {} => Min(focused) \in 1 .. Len(panes)
  <2>1. focused \in SUBSET (1 .. Len(panes))
    BY <1>1
  <2> HIDE DEF focused
  <2> QED
    BY <1>1, <2>1, FirstOf
<1> HIDE DEF focused
<1>3. first \in Seq(T)
  BY <1>1, <1>2
<1>4. heard \in Seq(T)
  BY <1>3, ConcatProperties
<1>5. FocusedFirst(panes, names) = Among(heard, ToSet(heard) \ {None})
  BY DEF FocusedFirst, focused
<1> HIDE DEF heard
<1>6. Among(heard, ToSet(heard) \ {None}) \in Seq(T \cap (ToSet(heard) \ {None}))
  BY <1>4, Filtered
<1>7. T \cap (ToSet(heard) \ {None}) \subseteq T \ {None}
  OBVIOUS
<1> QED
  BY <1>5, <1>6, <1>7

\* A name is computed of what is known of the panes, and is never the host's own.
LEMMA ComputedIs ==
  ASSUME NEW panes \in Seq(PaneFacts)
  PROVE  ComputedName(panes) \in Given \cup {None}
<1> DEFINE T == {"radar", "x", "z", "overlong", "vim"}
           n == Len(panes)
           repos == [i \in DOMAIN panes |-> panes[i].repo]
           dirs == [i \in DOMAIN panes |-> DirName(panes[i].dir)]
           titles == [i \in DOMAIN panes |-> TitleName(panes[i].title)]
<1>1. n \in Nat /\ DOMAIN panes = 1 .. n /\ \A i \in 1 .. n : panes[i] \in PaneFacts
  BY LenProperties
<1>2. ASSUME NEW i \in 1 .. n
      PROVE  /\ panes[i].repo \in T \cup {None} /\ DirName(panes[i].dir) \in T \cup {None}
             /\ TitleName(panes[i].title) \in T \cup {None}
  <2>1. panes[i].repo \in Repos /\ panes[i].dir \in Dirs /\ panes[i].title \in Titles
    BY <1>1 DEF PaneFacts
  <2>2. panes[i].repo \in T \cup {None}
    BY <2>1 DEF Repos
  <2>3. \A d \in Dirs : DirName(d) \in T \cup {None}
    BY DEF Dirs, DirName
  <2>4. \A t \in Titles : TitleName(t) \in T \cup {None}
    BY DEF Titles, TitleName
  <2> QED
    BY <2>1, <2>2, <2>3, <2>4
<1>3. repos \in Seq(T \cup {None}) /\ dirs \in Seq(T \cup {None}) /\ titles \in Seq(T \cup {None})
  <2> DEFINE U == T \cup {None}
  <2>1. repos \in [1 .. n -> U] /\ dirs \in [1 .. n -> U] /\ titles \in [1 .. n -> U]
    BY <1>1, <1>2
  <2> HIDE DEF U, repos, dirs, titles, n
  <2> QED
    BY <1>1, <2>1, SeqDef DEF U
<1>4. Len(repos) = n /\ Len(dirs) = n /\ Len(titles) = n
  <2>1. DOMAIN repos = 1 .. n /\ DOMAIN dirs = 1 .. n /\ DOMAIN titles = 1 .. n
    BY <1>1
  <2> HIDE DEF repos, dirs, titles, T
  <2> QED
    BY <1>1, <1>3, <2>1, LenProperties
<1>5. NameCandidates(panes) = (FocusedFirst(panes, repos) \o FocusedFirst(panes, dirs)) \o FocusedFirst(panes, titles)
  BY DEF NameCandidates
<1>6. (T \cup {None}) \ {None} = T
  BY DEF None
<1> HIDE DEF repos, dirs, titles, T
<1>7. FocusedFirst(panes, repos) \in Seq(T) /\ FocusedFirst(panes, dirs) \in Seq(T) /\ FocusedFirst(panes, titles) \in Seq(T)
  BY <1>3, <1>4, <1>6, FocusedFirstIs
<1>8. NameCandidates(panes) \in Seq(T)
  BY <1>5, <1>7, ConcatProperties
<1>9. NameCandidates(panes) # <<>> => NameCandidates(panes)[1] \in T
  BY <1>8
<1>10. \A t \in T : Sanitized(t) \in Given
  BY DEF T, Sanitized, Given
<1> QED
  BY <1>9, <1>10 DEF ComputedName

LEMMA FactsAre ==
  ASSUME NEW asked, NEW r \in Rails(asked), NEW at
  PROVE  TabFacts(r, at) \in Seq(PaneFacts)
<1> DEFINE panes == IF at \in DOMAIN r.panes THEN r.panes[at] ELSE <<>>
<1>1. r.panes \in Seq(Seq(SeenPanes)) /\ r.repo \in [Panes -> Repos] /\ r.dir \in KnownDirs
  BY DEF Rails
<1>2. panes \in Seq(SeenPanes)
  <2>1. DOMAIN r.panes = 1 .. Len(r.panes)
    BY <1>1, LenProperties
  <2> QED
    BY <1>1, <2>1
<1>3. TabFacts(r, at) = [i \in DOMAIN panes |->
        [focused |-> panes[i].focused, title |-> panes[i].title, repo |-> r.repo[panes[i].id],
         dir |-> IF panes[i].id \in DOMAIN r.dir THEN r.dir[panes[i].id] ELSE "root"]]
  BY DEF TabFacts
<1>4. \A p \in DOMAIN r.dir : r.dir[p] \in Dirs
  <2>1. PICK D \in SUBSET Panes : r.dir \in [D -> Dirs]
    BY <1>1 DEF KnownDirs
  <2> QED
    BY <2>1
<1> HIDE DEF panes
<1>5. DOMAIN panes = 1 .. Len(panes) /\ Len(panes) \in Nat
  BY <1>2, LenProperties
<1>6. ASSUME NEW i \in 1 .. Len(panes)
      PROVE  [focused |-> panes[i].focused, title |-> panes[i].title, repo |-> r.repo[panes[i].id],
              dir |-> IF panes[i].id \in DOMAIN r.dir THEN r.dir[panes[i].id] ELSE "root"] \in PaneFacts
  <2>1. panes[i] \in SeenPanes
    BY <1>2
  <2>2. /\ panes[i].focused \in BOOLEAN /\ panes[i].title \in Titles /\ r.repo[panes[i].id] \in Repos
    BY <1>1, <2>1 DEF SeenPanes
  <2>3. (IF panes[i].id \in DOMAIN r.dir THEN r.dir[panes[i].id] ELSE "root") \in Dirs
    BY <1>4 DEF Dirs
  <2> DEFINE d == IF panes[i].id \in DOMAIN r.dir THEN r.dir[panes[i].id] ELSE "root"
             f == panes[i].focused
             t == panes[i].title
             p == r.repo[panes[i].id]
  <2> HIDE DEF d, f, t, p
  <2>4. f \in BOOLEAN /\ t \in Titles /\ p \in Repos /\ d \in Dirs
    BY <2>2, <2>3 DEF f, t, p, d
  <2>5. [focused |-> f, title |-> t, repo |-> p, dir |-> d] \in PaneFacts
    BY <2>4 DEF PaneFacts
  <2> QED
    BY <2>5 DEF f, t, p, d
<1>7. TabFacts(r, at) \in [1 .. Len(panes) -> PaneFacts]
  BY <1>3, <1>5, <1>6
<1> QED
  BY <1>5, <1>7, SeqDef

-----------------------------------------------------------------------------
(* What a rail knows and does                                              *)

LEMMA PlaceIs ==
  ASSUME NEW r, r.tabs \in TabLists, NEW tab
  PROVE  /\ PlaceOf(r, tab) \in 0 .. Len(r.tabs)
         /\ PlaceOf(r, tab) # 0 => r.tabs[PlaceOf(r, tab)].id = tab
         /\ PlaceOf(r, tab) = 0 => \A i \in 1 .. Len(r.tabs) : r.tabs[i].id # tab
<1> DEFINE places == {i \in DOMAIN r.tabs : r.tabs[i].id = tab}
<1>1. Len(r.tabs) \in Nat /\ DOMAIN r.tabs = 1 .. Len(r.tabs)
  BY LenProperties DEF TabLists
<1>2. places \in SUBSET (1 .. Len(r.tabs)) /\ \A i \in 1 .. Len(r.tabs) : i \in places <=> r.tabs[i].id = tab
  BY <1>1
<1>3. PlaceOf(r, tab) = IF places = {} THEN 0 ELSE Min(places)
  BY DEF PlaceOf
<1> HIDE DEF places
<1>4. CASE places = {}
  BY <1>1, <1>2, <1>3, <1>4
<1>5. CASE places # {}
  <2>1. Min(places) \in places
    BY <1>1, <1>2, <1>5, FirstOf
  <2>2. PlaceOf(r, tab) = Min(places) /\ Min(places) \in 1 .. Len(r.tabs) /\ r.tabs[Min(places)].id = tab
    BY <1>2, <1>3, <1>5, <2>1
  <2> QED
    BY <1>1, <2>2
<1> QED
  BY <1>4, <1>5

\* The fields of a rail.
LEMMA RailFields ==
  ASSUME NEW asked, NEW r \in Rails(asked)
  PROVE  /\ r.own \in Tabs \cup {None} /\ r.position \in Nat /\ r.tabs \in TabLists
         /\ r.panes \in Seq(Seq(SeenPanes)) /\ r.dir \in KnownDirs /\ r.asked = asked
         /\ r.repo \in [Panes -> Repos] /\ r.applied \in Given \cup {None} /\ r.mode \in Modes
         /\ r.calls \in Seq(RenameCalls)
         /\ r = [own |-> r.own, position |-> r.position, tabs |-> r.tabs, panes |-> r.panes, dir |-> r.dir,
                 asked |-> r.asked, repo |-> r.repo, applied |-> r.applied, mode |-> r.mode, calls |-> r.calls]
BY DEF Rails

\* A rail that gives its tab a name.
Renamed(r, name) == [r EXCEPT !.applied = name, !.calls = Append(@, [tab |-> r.own, name |-> name])]

LEMMA RenamedIs ==
  ASSUME NEW asked, NEW r \in Rails(asked), NEW name \in Given, r.own # None
  PROVE  /\ Renamed(r, name) \in Rails(asked)
         /\ Renamed(r, name).own = r.own /\ Renamed(r, name).position = r.position /\ Renamed(r, name).tabs = r.tabs
         /\ Renamed(r, name).mode = r.mode /\ Renamed(r, name).applied = name
         /\ Renamed(r, name).calls = Append(r.calls, [tab |-> r.own, name |-> name])
<1>1. [tab |-> r.own, name |-> name] \in RenameCalls
  BY RailFields DEF RenameCalls
<1>2. Append(r.calls, [tab |-> r.own, name |-> name]) \in Seq(RenameCalls)
  BY <1>1, RailFields, AppendProperties
<1> DEFINE called == Append(r.calls, [tab |-> r.own, name |-> name])
<1> HIDE DEF called
<1>3. Renamed(r, name) = [r EXCEPT !.applied = name, !.calls = called]
  BY DEF Renamed, called
<1> QED
  BY <1>2, <1>3 DEF Rails, called

\* Why a name is left as it is.
Leaves(r) ==
  LET at == PlaceOf(r, r.own)
      desired == ComputedName(TabFacts(r, at))
  IN  r.own = None \/ at = 0 \/ r.mode = "off" \/ r.tabs[at].name = r.applied \/ desired = None
      \/ desired = r.tabs[at].name \/ ~MayReplace(r, r.tabs[at].name)

LEMMA Renaming ==
  ASSUME NEW asked, NEW r \in Rails(asked)
  PROVE  \/ RenameTabs(r) = r /\ Leaves(r)
         \/ /\ r.own # None /\ PlaceOf(r, r.own) # 0 /\ MayReplace(r, r.tabs[PlaceOf(r, r.own)].name)
            /\ \E name \in Given : RenameTabs(r) = Renamed(r, name)
<1> DEFINE at      == IF r.own = None THEN 0 ELSE PlaceOf(r, r.own)
           name    == r.tabs[at].name
           panes   == TabFacts(r, at)
           desired == ComputedName(panes)
           Renames == /\ r.mode # "off" /\ at # 0
                      /\ ~(name = r.applied /\ NameSupported(panes, name))
                      /\ desired \notin {None, name}
                      /\ MayReplace(r, name)
<1>1. RenameTabs(r) = IF Renames THEN Renamed(r, desired) ELSE r
  BY DEF RenameTabs, Renamed
<1>2. desired \in Given \cup {None}
  BY FactsAre, ComputedIs
<1>3. CASE Renames
  <2>1. r.own # None /\ at = PlaceOf(r, r.own) /\ desired \in Given
    BY <1>2, <1>3
  <2> QED
    BY <1>1, <1>3, <2>1
<1>4. CASE ~Renames
  <2>1. r.own = None \/ at = PlaceOf(r, r.own)
    OBVIOUS
  <2>2. Leaves(r)
    BY <1>4, <2>1 DEF Leaves
  <2> QED
    BY <1>1, <1>4, <2>2
<1> QED
  BY <1>3, <1>4

-----------------------------------------------------------------------------
\* What is kept while a rail handles an update: that it leaves a name of the
\* user's alone, that it knows its own tab, and that its tabs are where they were.
Minds(r, user) ==
  /\ r.own = None => r.applied = None
  /\ user # None =>
       /\ r.own = "own" => r.applied # user
       /\ \A i \in 1 .. Len(r.calls) : r.calls[i].tab # "own"
Lists(r, user) == user # None /\ PlaceOf(r, "own") # 0 => r.tabs[PlaceOf(r, "own")].name = user
KeepsName(r, user) == Minds(r, user) /\ Lists(r, user) /\ (user # None => r.mode # "force")

\* `joins' is where the tabs were in what it joined: nothing else tells it its own.
AsOrdered(tabs, order) == \A i \in 1 .. Len(tabs) : i \in DOMAIN order /\ tabs[i].id = order[i]
Placed(at, order) == at \in DOMAIN order => order[at] = "own"

KnowsOwn(r, joins) ==
  /\ joins.tabs = joins.panes => /\ r.own \in {None, "own"}
                                /\ \A i \in 1 .. Len(r.calls) : r.calls[i].tab = "own"
  /\ r.own = None => AsOrdered(r.tabs, joins.tabs) /\ Placed(r.position, joins.panes)

Unnamed == host.names["own"] = Default
Still(tabs) ==
  /\ Len(tabs) = 2 /\ tabs[1].id = "own" /\ tabs[2].id = "near"
  /\ Unnamed => tabs[1].name = Default
Seated(r) ==
  ~moved => /\ r.tabs = <<>> \/ Still(r.tabs)
            /\ r.position \in {0, 1}
            /\ r.own # None => r.tabs # <<>>
            /\ r.own \in {None, "own"} /\ \A i \in 1 .. Len(r.calls) : r.calls[i].tab = "own"

Sound(r, user, joins) == r \in Rails(r.asked) /\ KeepsName(r, user) /\ KnowsOwn(r, joins) /\ Seated(r)

\* What it knows of its tab it has used, and named the tab if it could.
Resolved(r) == ~moved => r.own # None \/ r.tabs = <<>> \/ r.position = 0
Offered(r) ==
  ~moved /\ Unnamed /\ r.own # None /\ r.mode # "off" /\ r.calls = <<>> =>
    ComputedName(TabFacts(r, 1)) = None
Settled(r, user, joins) == Sound(r, user, joins) /\ Resolved(r) /\ Offered(r)

\* What none of this is about.
Alike(r, s) ==
  /\ s.own = r.own /\ s.position = r.position /\ s.tabs = r.tabs
  /\ s.applied = r.applied /\ s.mode = r.mode /\ s.calls = r.calls

LEMMA AlikeIsSound ==
  ASSUME NEW user, NEW joins, NEW r, NEW s, Sound(r, user, joins), Alike(r, s), NEW asked, s \in Rails(asked)
  PROVE  Sound(s, user, joins) /\ (Resolved(r) => Resolved(s))
<1>1. s \in Rails(s.asked)
  BY RailFields
<1>2. PlaceOf(s, "own") = PlaceOf(r, "own")
  BY DEF Alike, PlaceOf
<1>3. KeepsName(s, user)
  BY <1>2 DEF Sound, KeepsName, Minds, Lists, Alike
<1>4. KnowsOwn(s, joins)
  BY DEF Sound, KnowsOwn, Alike
<1>5. Seated(s)
  BY DEF Sound, Seated, Alike
<1>6. Resolved(r) => Resolved(s)
  BY DEF Resolved, Alike
<1> QED
  BY <1>1, <1>3, <1>4, <1>5, <1>6 DEF Sound

\* In a session where nothing moved the rail's tab is the first.
LEMMA StillPlace ==
  ASSUME NEW r, r.tabs \in TabLists, Still(r.tabs)
  PROVE  PlaceOf(r, "own") = 1
<1>1. PlaceOf(r, "own") \in 0 .. 2 /\ (PlaceOf(r, "own") # 0 => r.tabs[PlaceOf(r, "own")].id = "own")
      /\ (PlaceOf(r, "own") = 0 => \A i \in 1 .. 2 : r.tabs[i].id # "own")
  BY PlaceIs DEF Still
<1>2. r.tabs[1].id = "own" /\ r.tabs[2].id # "own"
  BY DEF Still
<1>3. PlaceOf(r, "own") # 0
  BY <1>1, <1>2
<1>4. PlaceOf(r, "own") # 2
  BY <1>1, <1>2, <1>3
<1> QED
  BY <1>1, <1>3, <1>4

NameInv(user) == user # None => user \in Names /\ user # Default

LEMMA RenameIsSound ==
  ASSUME NEW user, NEW joins, NameInv(user), NEW r, Sound(r, user, joins)
  PROVE  /\ Sound(RenameTabs(r), user, joins) /\ Offered(RenameTabs(r)) /\ RenameTabs(r).asked = r.asked
         /\ RenameTabs(r).own = r.own /\ RenameTabs(r).tabs = r.tabs /\ RenameTabs(r).position = r.position
         /\ RenameTabs(r).mode = r.mode
         /\ Resolved(r) => Resolved(RenameTabs(r))
<1> DEFINE at == PlaceOf(r, r.own)
<1>1. r \in Rails(r.asked)
  BY DEF Sound
<1>2. r.tabs \in TabLists /\ at \in 0 .. Len(r.tabs) /\ (at # 0 => r.tabs[at].id = r.own) /\ Len(r.tabs) \in Nat
  <2>1. r.tabs \in TabLists /\ Len(r.tabs) \in Nat
    BY <1>1, RailFields, LenProperties DEF TabLists
  <2> QED
    BY <2>1, PlaceIs
<1>3. CASE RenameTabs(r) = r /\ Leaves(r)
  <2>1. ASSUME ~moved, Unnamed, r.own # None, r.mode # "off", r.calls = <<>>
        PROVE  ComputedName(TabFacts(r, 1)) = None
    <3>1. r.own = "own" /\ Still(r.tabs)
      BY <2>1 DEF Sound, Seated
    <3>2. at = 1 /\ r.tabs[1].name = Default
      BY <1>2, <2>1, <3>1, StillPlace DEF Still
    <3>3. r.applied \in Given \cup {None} /\ Default \notin Given \cup {None}
      BY <1>1, RailFields DEF Given, Default, None
    <3>4. TabFacts(r, 1) \in Seq(PaneFacts)
      BY <1>1, FactsAre
    <3>5. ComputedName(TabFacts(r, 1)) \in Given \cup {None}
      BY <3>4, ComputedIs
    <3>6. MayReplace(r, Default)
      BY DEF MayReplace
    <3> QED
      BY <1>3, <2>1, <3>2, <3>3, <3>5, <3>6 DEF Leaves
  <2>2. Offered(r)
    BY <2>1 DEF Offered
  <2> QED
    BY <1>3, <2>2
<1>4. ASSUME r.own # None, at # 0, MayReplace(r, r.tabs[at].name), NEW name \in Given, RenameTabs(r) = Renamed(r, name)
      PROVE  /\ Sound(RenameTabs(r), user, joins) /\ Offered(RenameTabs(r)) /\ RenameTabs(r).asked = r.asked
             /\ RenameTabs(r).own = r.own /\ RenameTabs(r).tabs = r.tabs /\ RenameTabs(r).position = r.position
             /\ RenameTabs(r).mode = r.mode
             /\ Resolved(r) => Resolved(RenameTabs(r))
  <2> DEFINE s == Renamed(r, name)
             call == [tab |-> r.own, name |-> name]
  <2>1. /\ s \in Rails(r.asked) /\ s.own = r.own /\ s.position = r.position /\ s.tabs = r.tabs
        /\ s.mode = r.mode /\ s.applied = name /\ s.calls = Append(r.calls, call)
    BY <1>1, <1>4, RenamedIs
  <2>2. s.asked = r.asked
    BY <2>1, RailFields
  <2>3. /\ Len(s.calls) = Len(r.calls) + 1 /\ s.calls[Len(r.calls) + 1] = call /\ Len(r.calls) \in Nat
        /\ \A i \in 1 .. Len(r.calls) : s.calls[i] = r.calls[i]
    <3>1. r.calls \in Seq(RenameCalls) /\ call \in RenameCalls
      BY <1>1, <1>4, RailFields DEF RenameCalls
    <3> HIDE DEF call, s
    <3> QED
      BY <2>1, <3>1, AppendProperties, LenProperties
  <2>4. call.tab = r.own
    OBVIOUS
  <2> HIDE DEF s, call
  <2>5. s.calls # <<>>
    BY <2>3
  <2>6. PlaceOf(s, "own") = PlaceOf(r, "own")
    BY <2>1 DEF PlaceOf
  <2>7. KeepsName(s, user)
    <3>1. ASSUME user # None, r.own = "own" PROVE FALSE
      <4>1. r.tabs[at].name = user /\ user # r.applied /\ r.mode # "force"
        BY <1>4, <3>1 DEF Sound, KeepsName, Minds, Lists
      <4> QED
        BY <1>4, <3>1, <4>1 DEF MayReplace, NameInv
    <3>2. ASSUME user # None, NEW i \in 1 .. Len(s.calls) PROVE s.calls[i].tab # "own"
      <4>1. CASE i = Len(r.calls) + 1
        BY <2>3, <2>4, <3>1, <3>2, <4>1
      <4>2. CASE i # Len(r.calls) + 1
        <5>1. i \in 1 .. Len(r.calls)
          BY <2>3, <4>2
        <5> QED
          BY <2>3, <3>2, <5>1 DEF Sound, KeepsName, Minds, Lists
      <4> QED
        BY <4>1, <4>2
    <3> QED
      BY <1>4, <2>1, <2>6, <3>1, <3>2 DEF Sound, KeepsName, Minds, Lists
  <2>8. KnowsOwn(s, joins)
    <3>1. ASSUME joins.tabs = joins.panes, NEW i \in 1 .. Len(s.calls) PROVE s.calls[i].tab = "own"
      <4>1. r.own = "own"
        BY <1>4, <3>1 DEF Sound, KnowsOwn
      <4>2. CASE i = Len(r.calls) + 1
        BY <2>3, <2>4, <4>1, <4>2
      <4>3. CASE i # Len(r.calls) + 1
        <5>1. i \in 1 .. Len(r.calls)
          BY <2>3, <4>3
        <5> QED
          BY <2>3, <3>1, <5>1 DEF Sound, KnowsOwn
      <4> QED
        BY <4>2, <4>3
    <3> QED
      BY <1>4, <2>1, <3>1 DEF Sound, KnowsOwn
  <2>9. Seated(s)
    <3>1. ASSUME ~moved, NEW i \in 1 .. Len(s.calls) PROVE s.calls[i].tab = "own"
      <4>1. r.own = "own"
        BY <1>4, <3>1 DEF Sound, Seated
      <4>2. i = Len(r.calls) + 1 \/ i \in 1 .. Len(r.calls)
        BY <2>3, <3>1
      <4> QED
        BY <2>3, <2>4, <3>1, <4>1, <4>2 DEF Sound, Seated
    <3> QED
      BY <2>1, <3>1 DEF Sound, Seated
  <2>10. Offered(s)
    BY <2>5 DEF Offered
  <2>11. Resolved(r) => Resolved(s)
    BY <2>1 DEF Resolved
  <2> QED
    BY <1>4, <2>1, <2>2, <2>7, <2>8, <2>9, <2>10, <2>11 DEF Sound, s
<1> QED
  BY <1>1, <1>3, <1>4, Renaming

-----------------------------------------------------------------------------
(* What a rail hears                                                       *)

LEMMA ResolveIsSound ==
  ASSUME NEW user, NEW joins, NEW r, Sound(r, user, joins)
  PROVE  /\ Sound(ResolveNamingTab(r), user, joins) /\ Resolved(ResolveNamingTab(r))
         /\ ResolveNamingTab(r).asked = r.asked /\ ResolveNamingTab(r).tabs = r.tabs
         /\ ResolveNamingTab(r).position = r.position /\ ResolveNamingTab(r).mode = r.mode
         /\ r.own # None => ResolveNamingTab(r) = r
<1> DEFINE s == [r EXCEPT !.own = r.tabs[r.position].id]
<1>1. r \in Rails(r.asked) /\ r.tabs \in TabLists /\ Len(r.tabs) \in Nat /\ DOMAIN r.tabs = 1 .. Len(r.tabs)
  BY RailFields, LenProperties DEF Sound, TabLists
<1>2. CASE ~(r.own = None /\ r.position \in DOMAIN r.tabs)
  <2>1. ResolveNamingTab(r) = r
    BY <1>2 DEF ResolveNamingTab
  <2>2. Resolved(r)
    <3>1. ASSUME ~moved, r.own = None, r.tabs # <<>> PROVE r.position = 0
      <4>1. r.position \in {0, 1} /\ Len(r.tabs) = 2
        BY <3>1 DEF Sound, Seated, Still
      <4> QED
        BY <1>1, <1>2, <3>1, <4>1
    <3> QED
      BY <3>1 DEF Resolved
  <2> QED
    BY <2>1, <2>2
<1>3. CASE r.own = None /\ r.position \in DOMAIN r.tabs
  <2>1. ResolveNamingTab(r) = s
    BY <1>3 DEF ResolveNamingTab
  <2>2. r.position \in 1 .. Len(r.tabs) /\ r.tabs[r.position] \in [id : Tabs, name : Names]
    <3>1. r.position \in 1 .. Len(r.tabs)
      BY <1>1, <1>3
    <3> DEFINE T == [id : Tabs, name : Names]
    <3>2. r.tabs \in Seq(T)
      BY <1>1 DEF TabLists
    <3> HIDE DEF T
    <3>3. r.tabs[r.position] \in T
      BY <3>1, <3>2
    <3> QED
      BY <3>1, <3>3 DEF T
  <2>3. r.tabs[r.position].id \in Tabs
    BY <2>2
  <2>4. /\ s \in Rails(r.asked) /\ s.own = r.tabs[r.position].id /\ s.own # None /\ s.position = r.position /\ s.tabs = r.tabs
        /\ s.applied = r.applied /\ s.mode = r.mode /\ s.calls = r.calls /\ s.asked = r.asked
    BY <1>1, <2>3 DEF Rails, Tabs, None
  <2> HIDE DEF s
  <2>5. PlaceOf(s, "own") = PlaceOf(r, "own")
    BY <2>4 DEF PlaceOf
  <2>6. KeepsName(s, user)
    BY <1>3, <2>4, <2>5 DEF Sound, KeepsName, Minds, Lists
  <2>7. KnowsOwn(s, joins)
    <3>1. ASSUME joins.tabs = joins.panes PROVE s.own = "own"
      <4>1. AsOrdered(r.tabs, joins.tabs) /\ Placed(r.position, joins.panes)
        BY <1>3 DEF Sound, KnowsOwn
      <4>2. r.position \in DOMAIN joins.tabs /\ r.tabs[r.position].id = joins.tabs[r.position]
        BY <2>2, <4>1 DEF AsOrdered
      <4> QED
        BY <2>4, <3>1, <4>1, <4>2 DEF Placed
    <3> QED
      BY <2>4, <3>1 DEF Sound, KnowsOwn
  <2>8. Seated(s)
    <3>1. r.tabs # <<>>
      BY <1>1, <2>2
    <3>2. ASSUME ~moved PROVE s.own = "own"
      <4>1. Still(r.tabs) /\ r.position \in {0, 1}
        BY <3>1, <3>2 DEF Sound, Seated
      <4>2. r.position = 1
        BY <2>2, <4>1
      <4> QED
        BY <2>4, <4>1, <4>2 DEF Still
    <3> QED
      BY <2>4, <3>1, <3>2 DEF Sound, Seated
  <2>9. Resolved(s)
    BY <2>4 DEF Resolved
  <2> QED
    BY <1>3, <2>1, <2>4, <2>6, <2>7, <2>8, <2>9 DEF Sound
<1> QED
  BY <1>2, <1>3

LEMMA DirIsSound ==
  ASSUME NEW user, NEW joins, NameInv(user), NEW r, Sound(r, user, joins), Resolved(r), NEW pane \in Panes, NEW path \in Dirs
  PROVE  /\ Settled(CwdChanged(r, pane, path), user, joins) /\ CwdChanged(r, pane, path).asked = r.asked
         /\ CwdChanged(r, pane, path).own = r.own /\ CwdChanged(r, pane, path).tabs = r.tabs
         /\ CwdChanged(r, pane, path).position = r.position /\ CwdChanged(r, pane, path).mode = r.mode
<1> DEFINE dirs == [p \in {pane} \cup DOMAIN r.dir |-> IF p = pane THEN path ELSE r.dir[p]]
           s == [r EXCEPT !.dir = dirs]
<1>1. r \in Rails(r.asked) /\ r.dir \in KnownDirs
  BY RailFields DEF Sound
<1>2. dirs \in KnownDirs
  <2>1. PICK D \in SUBSET Panes : r.dir \in [D -> Dirs]
    BY <1>1 DEF KnownDirs
  <2>2. dirs \in [{pane} \cup D -> Dirs] /\ {pane} \cup D \in SUBSET Panes
    BY <2>1
  <2> HIDE DEF dirs
  <2> QED
    BY <2>2 DEF KnownDirs
<1>3. CwdChanged(r, pane, path) = RenameTabs(s)
  BY DEF CwdChanged
<1> HIDE DEF dirs
<1>4. s \in Rails(r.asked) /\ Alike(r, s) /\ s.asked = r.asked
  BY <1>1, <1>2 DEF Rails, Alike
<1> HIDE DEF s
<1>5. Sound(s, user, joins) /\ Resolved(s)
  BY <1>4, AlikeIsSound
<1> QED
  BY <1>3, <1>4, <1>5, RenameIsSound DEF Settled, Alike

LEMMA RepoIsSound ==
  ASSUME NEW user, NEW joins, NameInv(user), NEW r, Sound(r, user, joins), Resolved(r), NEW pane \in Panes, NEW repo \in Repos
  PROVE  LET h == StatusPipe(r, pane, repo)
         IN  /\ Sound(h, user, joins) /\ Resolved(h) /\ (Offered(r) => Offered(h))
             /\ h.own = r.own /\ h.tabs = r.tabs /\ h.position = r.position /\ h.mode = r.mode
<1> DEFINE repos == [r.repo EXCEPT ![pane] = repo]
           s == [r EXCEPT !.repo = repos]
<1>1. r \in Rails(r.asked) /\ r.repo \in [Panes -> Repos]
  BY RailFields DEF Sound
<1>2. repos \in [Panes -> Repos]
  BY <1>1
<1>3. StatusPipe(r, pane, repo) = IF r.repo[pane] = repo THEN r ELSE RenameTabs(s)
  BY DEF StatusPipe
<1> HIDE DEF repos
<1>4. s \in Rails(r.asked) /\ Alike(r, s) /\ s.asked = r.asked
  BY <1>1, <1>2 DEF Rails, Alike
<1> HIDE DEF s
<1>5. Sound(s, user, joins) /\ Resolved(s)
  BY <1>4, AlikeIsSound
<1>6. /\ Sound(RenameTabs(s), user, joins) /\ Resolved(RenameTabs(s)) /\ Offered(RenameTabs(s))
      /\ RenameTabs(s).own = r.own /\ RenameTabs(s).tabs = r.tabs /\ RenameTabs(s).position = r.position
      /\ RenameTabs(s).mode = r.mode
  BY <1>4, <1>5, RenameIsSound DEF Alike
<1> QED
  BY <1>3, <1>6

\* A mode that lets a name of the user's be replaced is another matter.
LEMMA ModeIsSound ==
  ASSUME NEW user, NEW joins, NameInv(user), NEW r, r \in Rails(r.asked), Minds(r, user), Lists(r, user), KnowsOwn(r, joins),
         Seated(r), Resolved(r), NEW mode \in Modes, user # None => mode # "force"
  PROVE  LET h == ConfigPipe(r, mode)
         IN  /\ Settled(h, user, joins) /\ h.own = r.own /\ h.tabs = r.tabs /\ h.position = r.position
             /\ h.mode = mode
<1> DEFINE s == [r EXCEPT !.mode = mode]
<1>1. r \in Rails(r.asked)
  OBVIOUS
<1>2. /\ s \in Rails(r.asked) /\ s.own = r.own /\ s.position = r.position /\ s.tabs = r.tabs
      /\ s.applied = r.applied /\ s.mode = mode /\ s.calls = r.calls /\ s.asked = r.asked
  BY <1>1 DEF Rails
<1>3. ConfigPipe(r, mode) = RenameTabs(s)
  BY DEF ConfigPipe
<1> HIDE DEF s
<1>4. PlaceOf(s, "own") = PlaceOf(r, "own")
  BY <1>2 DEF PlaceOf
<1>5. KeepsName(s, user)
  BY <1>2, <1>4 DEF Sound, KeepsName, Minds, Lists
<1>6. KnowsOwn(s, joins) /\ Seated(s) /\ Resolved(s)
  BY <1>2 DEF Sound, KnowsOwn, Seated, Resolved
<1>7. Sound(s, user, joins)
  BY <1>2, <1>5, <1>6 DEF Sound
<1> QED
  BY <1>2, <1>3, <1>6, <1>7, RenameIsSound DEF Settled

\* An update of the tabs is of this session.
TabsFit(r, tabs, user, joins) ==
  /\ tabs \in TabLists
  /\ user # None => \A j \in 1 .. Len(tabs) : tabs[j].id = "own" => tabs[j].name = user
  /\ r.own = None => AsOrdered(tabs, joins.tabs) /\ Placed(r.position, joins.panes)
  /\ joins.tabs = joins.panes => r.own \in {None, "own"} /\ \A i \in 1 .. Len(r.calls) : r.calls[i].tab = "own"
  /\ ~moved => Still(tabs)

LEMMA TabsAreSound ==
  ASSUME NEW user, NEW joins, NameInv(user), NEW r, r \in Rails(r.asked), Minds(r, user), user # None => r.mode # "force",
         Seated(r), Resolved(r), NEW tabs, TabsFit(r, tabs, user, joins)
  PROVE  LET h == TabsChanged(r, tabs)
         IN  /\ Sound(h, user, joins) /\ Resolved(h) /\ (Offered(r) => Offered(h))
             /\ h.tabs = tabs /\ h.position = r.position /\ h.mode = r.mode /\ (r.own # None => h.own = r.own)
<1> DEFINE seen == [i \in DOMAIN tabs |-> [tabs[i] EXCEPT !.name = Sanitized(@)]]
           next == ResolveNamingTab([r EXCEPT !.tabs = seen])
           live == {seen[i].id : i \in DOMAIN seen}
           word == IF next.own \in live \cup {None} THEN next.applied ELSE None
           retained == [next EXCEPT !.applied = word]
<1>1. /\ r \in Rails(r.asked) /\ tabs \in TabLists /\ Len(tabs) \in Nat /\ DOMAIN tabs = 1 .. Len(tabs)
      /\ \A i \in 1 .. Len(tabs) : tabs[i] \in [id : Tabs, name : Names]
  BY LenProperties DEF Sound, TabsFit, TabLists
\* No name the host has is too long to be shown.
<1>2. seen = tabs
  <2>1. \A name \in Names : Sanitized(name) = name
    BY DEF Names, Given, Default, Sanitized
  <2>2. \A tab \in [id : Tabs, name : Names] : [tab EXCEPT !.name = Sanitized(@)] = tab
    BY <2>1
  <2>3. \A i \in DOMAIN tabs : [tabs[i] EXCEPT !.name = Sanitized(@)] = tabs[i]
    BY <1>1, <2>2
  <2>4. tabs = [i \in DOMAIN tabs |-> tabs[i]]
    BY <1>1 DEF TabLists
  <2> QED
    BY <2>3, <2>4
<1>3. TabsChanged(r, tabs) = IF seen = r.tabs THEN r
                             ELSE IF r.own = None /\ next.own # None THEN RenameTabs(retained)
                             ELSE retained
  BY DEF TabsChanged
<1> HIDE DEF seen
<1> DEFINE s == [r EXCEPT !.tabs = tabs]
<1>4. /\ s \in Rails(r.asked) /\ s.own = r.own /\ s.position = r.position /\ s.tabs = tabs /\ s.panes = r.panes
      /\ s.applied = r.applied /\ s.mode = r.mode /\ s.calls = r.calls /\ s.asked = r.asked
      /\ s.repo = r.repo /\ s.dir = r.dir
  BY <1>1 DEF Rails
<1>5. next = ResolveNamingTab(s)
  BY <1>2
<1> HIDE DEF s, next, live
<1>6. Sound(s, user, joins)
  <2>1. KeepsName(s, user)
    <3>1. ASSUME user # None, PlaceOf(s, "own") # 0 PROVE s.tabs[PlaceOf(s, "own")].name = user
      <4>1. PlaceOf(s, "own") \in 0 .. Len(s.tabs) /\ s.tabs[PlaceOf(s, "own")].id = "own"
        BY <1>1, <1>4, <3>1, PlaceIs
      <4>2. PlaceOf(s, "own") \in 1 .. Len(tabs)
        BY <1>1, <1>4, <3>1, <4>1
      <4> QED
        BY <1>4, <3>1, <4>1, <4>2 DEF TabsFit
    <3> QED
      BY <1>4, <3>1 DEF Sound, KeepsName, Minds, Lists
  <2>2. KnowsOwn(s, joins)
    BY <1>4 DEF Sound, KnowsOwn, TabsFit
  <2>3. Seated(s)
    <3>1. ASSUME ~moved PROVE s.tabs # <<>>
      <4>1. Len(tabs) = 2
        BY <3>1 DEF TabsFit, Still
      <4>2. tabs # <<>>
        BY <4>1
      <4> QED
        BY <1>4, <4>2
    <3> QED
      BY <1>4, <3>1 DEF Sound, Seated, TabsFit
  <2> QED
    BY <1>4, <2>1, <2>2, <2>3 DEF Sound
<1>7. /\ Sound(next, user, joins) /\ Resolved(next) /\ next.asked = r.asked /\ next.tabs = tabs /\ next.position = r.position
      /\ next.mode = r.mode /\ (r.own # None => next = s)
  BY <1>4, <1>5, <1>6, ResolveIsSound
<1>8. next \in Rails(r.asked)
  BY <1>7 DEF Sound
<1>9. word \in {next.applied, None}
  OBVIOUS
<1> HIDE DEF word
<1>10. /\ retained \in Rails(r.asked) /\ retained.own = next.own /\ retained.position = r.position /\ retained.tabs = tabs
       /\ retained.applied \in {next.applied, None} /\ retained.mode = next.mode /\ retained.calls = next.calls
       /\ retained.panes = next.panes /\ retained.repo = next.repo /\ retained.dir = next.dir /\ retained.asked = r.asked
  <2>1. next.applied \in Given \cup {None}
    BY <1>8, RailFields
  <2> QED
    BY <1>7, <1>8, <1>9, <2>1 DEF Rails
<1> HIDE DEF retained
<1>11. Sound(retained, user, joins) /\ Resolved(retained)
  <2>1. PlaceOf(retained, "own") = PlaceOf(next, "own")
    BY <1>7, <1>10 DEF PlaceOf
  <2>2. KeepsName(retained, user)
    BY <1>7, <1>10, <2>1 DEF Sound, KeepsName, Minds, Lists
  <2>3. KnowsOwn(retained, joins) /\ Seated(retained) /\ Resolved(retained)
    BY <1>7, <1>10 DEF Sound, KnowsOwn, Seated, Resolved
  <2> QED
    BY <1>10, <2>2, <2>3 DEF Sound
<1>12. CASE seen = r.tabs
  <2>1. TabsChanged(r, tabs) = r /\ r.tabs = tabs
    BY <1>2, <1>3, <1>12
  <2>2. s = r
    BY <1>1, <2>1, RailFields DEF s
  <2> QED
    BY <1>6, <2>1, <2>2
<1>13. CASE seen # r.tabs /\ r.own = None /\ next.own # None
  BY <1>3, <1>7, <1>10, <1>11, <1>13, RenameIsSound
<1>14. CASE seen # r.tabs /\ ~(r.own = None /\ next.own # None)
  <2>1. TabsChanged(r, tabs) = retained
    BY <1>3, <1>14
  <2>2. r.own # None => retained.own = r.own
    BY <1>4, <1>7, <1>10
  <2>3. ASSUME Offered(r) PROVE Offered(retained)
    <3>1. CASE r.own = None
      BY <1>10, <1>14, <3>1 DEF Offered
    <3>2. CASE r.own # None
      <4>1. /\ retained.own = r.own /\ retained.mode = r.mode /\ retained.calls = r.calls
            /\ retained.panes = r.panes /\ retained.repo = r.repo /\ retained.dir = r.dir
        BY <1>4, <1>7, <1>10, <3>2
      <4>2. TabFacts(retained, 1) = TabFacts(r, 1)
        BY <4>1 DEF TabFacts
      <4> QED
        BY <2>3, <4>1, <4>2 DEF Offered
    <3> QED
      BY <3>1, <3>2
  <2> QED
    BY <1>7, <1>10, <1>11, <2>1, <2>2, <2>3
<1> QED
  BY <1>12, <1>13, <1>14

PanesFit(r, update, joins) ==
  /\ update.panes \in Seq(Seq(SeenPanes)) /\ update.position \in Nat
  /\ r.own = None => AsOrdered(r.tabs, joins.tabs) /\ Placed(update.position, joins.panes)
  /\ joins.tabs = joins.panes => r.own \in {None, "own"} /\ \A i \in 1 .. Len(r.calls) : r.calls[i].tab = "own"
  /\ ~moved => update.position = 1

\* Directories that are read one after the other name the tab as if each were told.
LEMMA ReadsAreSound ==
  ASSUME NEW user, NEW joins, NameInv(user), NamingAssumption, NEW r, Settled(r, user, joins), NEW targets, NEW readable \in SUBSET Panes, NEW dirs \in [Panes -> Dirs]
  PROVE  LET h == ReadDirs(r, targets, readable, dirs)
         IN  Settled(h, user, joins) /\ h.own = r.own /\ h.tabs = r.tabs /\ h.position = r.position /\ h.mode = r.mode
<1> DEFINE n == MaxAsk
           X == {x \in Rails(r.asked) : Settled(x, user, joins) /\ x.own = r.own /\ x.tabs = r.tabs /\ x.position = r.position
                                    /\ x.mode = r.mode}
           ReadOne(x, m) == IF m \in DOMAIN targets /\ targets[m] \in readable THEN CwdChanged(x, targets[m], dirs[targets[m]])
                             ELSE x
           known[m \in 0 .. MaxAsk] ==
             IF m = 0 THEN r
             ELSE IF m \in DOMAIN targets /\ targets[m] \in readable THEN CwdChanged(known[m - 1], targets[m], dirs[targets[m]])
             ELSE known[m - 1]
           F == [m \in 1 .. n |-> [x \in X |-> ReadOne(x, m)]]
           base == r
<1>1. n \in Nat
  BY DEF NamingAssumption
<1>2. base \in X
  BY DEF Settled, Sound
<1>3. ASSUME NEW m \in 1 .. n, NEW x \in X PROVE ReadOne(x, m) \in X
  <2>1. CASE m \in DOMAIN targets /\ targets[m] \in readable
    <3> DEFINE p == targets[m]
               d == dirs[p]
               h == CwdChanged(x, p, d)
    <3>1. p \in Panes /\ d \in Dirs
      BY <2>1
    <3>2. x \in Rails(r.asked) /\ Settled(x, user, joins) /\ x.asked = r.asked
      BY RailFields
    <3>3. Sound(x, user, joins) /\ Resolved(x)
      BY <3>2 DEF Settled
    <3> HIDE DEF p, d, X
    <3>4. Settled(h, user, joins) /\ h.asked = x.asked /\ h.own = x.own /\ h.tabs = x.tabs /\ h.position = x.position /\ h.mode = x.mode
      BY <3>1, <3>3, DirIsSound
    <3> HIDE DEF h
    <3>5. h \in Rails(r.asked)
      BY <3>2, <3>4 DEF Settled, Sound
    <3>6. h \in X
      BY <3>4, <3>5 DEF X
    <3> QED
      BY <2>1, <3>6 DEF h, p, d
  <2>2. CASE ~(m \in DOMAIN targets /\ targets[m] \in readable)
    BY <2>2
  <2> QED
    BY <2>1, <2>2
<1>4. F \in [1 .. n -> [X -> X]]
  <2> HIDE DEF ReadOne, X, n
  <2> QED
    BY <1>3
<1>6. PICK g \in [0 .. n -> X] : Unfolds(g, n, base, F)
  <2> HIDE DEF F, n, X, base
  <2> QED
    BY <1>1, <1>2, <1>4, Iterates
<1>7. ASSUME NEW m \in 1 .. n
      PROVE  m - 1 \in 0 .. n /\ m \in 0 .. n /\ g[m - 1] \in X /\ g[m] = ReadOne(g[m - 1], m)
  <2>1. \A k \in 1 .. n, x \in X : F[k][x] = ReadOne(x, k)
    BY DEF F
  <2>2. m - 1 \in 0 .. n /\ m \in 0 .. n
    BY <1>1
  <2> HIDE DEF F, X, n, ReadOne
  <2> QED
    BY <1>6, <2>1, <2>2 DEF Unfolds
<1>8. g[0] = r
  BY <1>6 DEF Unfolds
<1>9. known = [m \in 0 .. n |->
                 IF m = 0 THEN r
                 ELSE IF m \in DOMAIN targets /\ targets[m] \in readable THEN CwdChanged(known[m - 1], targets[m], dirs[targets[m]])
                 ELSE known[m - 1]]
  <2>1. \A m \in 0 .. n : m # 0 => m \in 1 .. n
    BY <1>1
  <2>2. g = [m \in 0 .. n |->
                 IF m = 0 THEN r
                 ELSE IF m \in DOMAIN targets /\ targets[m] \in readable THEN CwdChanged(g[m - 1], targets[m], dirs[targets[m]])
                 ELSE g[m - 1]]
    <3> HIDE DEF F, n, X
    <3> QED
      BY <1>6, <1>7, <1>8, <2>1
  <2> HIDE DEF F, X
  <2> QED
    BY <2>2
<1> HIDE DEF known
<1>10. ASSUME NEW m \in 1 .. n PROVE known[m] = ReadOne(known[m - 1], m)
  <2>1. m \in 0 .. n /\ m # 0
    BY <1>1
  <2> HIDE DEF n
  <2> QED
    BY <1>9, <2>1
<1>11. known[n] \in X
  <2> DEFINE Met == {m \in 0 .. n : known[m] \in X}
  <2>0. 0 \in 0 .. n /\ n \in 0 .. n
    BY <1>1
  <2>1. 0 \in Met
    <3>1. known[0] = r
      <4> HIDE DEF n
      <4> QED
        BY <1>9, <2>0
    <3> HIDE DEF X
    <3> QED
      BY <1>2, <2>0, <3>1
  <2>2. ASSUME NEW k \in 0 .. n - 1, k \in Met PROVE k + 1 \in Met
    <3>1. k + 1 \in 1 .. n /\ k + 1 \in 0 .. n
      BY <1>1
    <3>2. PICK m \in 1 .. n : m = k + 1 /\ m - 1 = k
      BY <3>1
    <3>3. known[m] = ReadOne(known[m - 1], m)
      BY <1>10
    <3> HIDE DEF ReadOne, X, n
    <3>4. known[k] \in X
      BY <2>2
    <3>5. known[m] \in X
      BY <1>3, <3>2, <3>3, <3>4
    <3> QED
      BY <3>1, <3>2, <3>5
  <2> HIDE DEF Met
  <2>3. 0 .. n \subseteq Met
    <3> HIDE DEF n
    <3> QED
      BY <1>1, <2>1, <2>2, Reach
  <2>4. n \in Met
    BY <2>0, <2>3
  <2> QED
    BY <2>4 DEF Met
<1>12. ReadDirs(r, targets, readable, dirs) = known[n]
  BY DEF ReadDirs, known
<1> HIDE DEF n
<1> QED
  BY <1>11, <1>12 DEF X

LEMMA PanesAreSound ==
  ASSUME NEW user, NEW joins, NameInv(user), NamingAssumption, NEW r, r \in Rails(r.asked), KeepsName(r, user), Seated(r), Resolved(r),
         NEW update, PanesFit(r, update, joins),
         NEW readable \in SUBSET Panes, NEW dirs \in [Panes -> Dirs]
  PROVE  LET h == PanesChanged(r, update, dirs, readable)
         IN  /\ Settled(h, user, joins) /\ h.tabs = r.tabs /\ h.mode = r.mode
             /\ r.own # None => h.own = r.own
             /\ ~moved => h.own # None \/ h.position = 1
<1> DEFINE live == {pane.id : pane \in ToSet(FlattenSeq(update.panes))}
           s == [r EXCEPT !.position = update.position]
           owned == IF r.own = None THEN ResolveNamingTab(s) ELSE r
           dirs1 == [p \in DOMAIN owned.dir \cap live |-> owned.dir[p]]
           asked1 == owned.asked \cap live
           listed == [owned EXCEPT !.panes = update.panes, !.dir = dirs1, !.asked = asked1]
           named == RenameTabs(listed)
           targets == Unasked(named)
           asked2 == named.asked \cup ToSet(targets)
           asked == [named EXCEPT !.asked = asked2]
<1>1. r \in Rails(r.asked) /\ update.position \in Nat /\ update.panes \in Seq(Seq(SeenPanes))
  BY DEF PanesFit
<1>2. /\ s \in Rails(r.asked) /\ s.own = r.own /\ s.position = update.position /\ s.tabs = r.tabs
      /\ s.applied = r.applied /\ s.mode = r.mode /\ s.calls = r.calls /\ s.asked = r.asked
  BY <1>1 DEF Rails
<1> HIDE DEF s
<1>3. ASSUME r.own = None PROVE Sound(s, user, joins)
  <2>1. PlaceOf(s, "own") = PlaceOf(r, "own")
    BY <1>2 DEF PlaceOf
  <2>2. KeepsName(s, user)
    BY <1>2, <2>1 DEF Sound, KeepsName, Minds, Lists
  <2>3. KnowsOwn(s, joins)
    BY <1>2, <1>3 DEF Sound, KnowsOwn, PanesFit
  <2>4. Seated(s)
    BY <1>2, <1>3 DEF Sound, Seated, PanesFit
  <2> QED
    BY <1>2, <2>2, <2>3, <2>4 DEF Sound
<1>4. /\ Sound(owned, user, joins) /\ Resolved(owned) /\ owned.tabs = r.tabs /\ owned.mode = r.mode
      /\ (r.own # None => owned.own = r.own)
      /\ ~moved => owned.own # None \/ owned.position = 1
  <2>1. CASE r.own = None
    <3>1. owned = ResolveNamingTab(s)
      BY <2>1
    <3> HIDE DEF owned
    <3>2. ~moved => s.position = 1
      BY <1>2 DEF PanesFit
    <3> QED
      BY <1>2, <1>3, <2>1, <3>1, <3>2, ResolveIsSound
  <2>2. CASE r.own # None
    BY <1>1, <2>2 DEF Sound, KnowsOwn, PanesFit
  <2> QED
    BY <2>1, <2>2
<1> HIDE DEF owned
<1>5. owned \in Rails(owned.asked) /\ owned.dir \in KnownDirs
  BY <1>4, RailFields DEF Sound
<1>6. dirs1 \in KnownDirs
  <2>1. PICK D \in SUBSET Panes : owned.dir \in [D -> Dirs]
    BY <1>5 DEF KnownDirs
  <2>2. dirs1 \in [D \cap live -> Dirs] /\ D \cap live \in SUBSET Panes
    BY <2>1
  <2> HIDE DEF dirs1
  <2> QED
    BY <2>2 DEF KnownDirs
<1> HIDE DEF dirs1, asked1
<1>7. listed \in Rails(asked1) /\ Alike(owned, listed)
  BY <1>1, <1>5, <1>6 DEF Rails, Alike
<1> HIDE DEF listed
<1>8. Sound(listed, user, joins) /\ Resolved(listed)
  BY <1>4, <1>7, AlikeIsSound
<1>9. /\ Sound(named, user, joins) /\ Resolved(named) /\ Offered(named)
      /\ named.own = owned.own /\ named.tabs = owned.tabs /\ named.position = owned.position
      /\ named.mode = owned.mode
  BY <1>7, <1>8, RenameIsSound DEF Alike
<1> HIDE DEF named, targets, asked2
<1>10. named \in Rails(named.asked)
  BY <1>9 DEF Sound
<1>11. /\ asked \in Rails(asked2) /\ Alike(named, asked)
       /\ asked.panes = named.panes /\ asked.repo = named.repo /\ asked.dir = named.dir
  BY <1>10 DEF Rails, Alike
<1>12. /\ asked.own = owned.own /\ asked.tabs = owned.tabs /\ asked.position = owned.position
       /\ asked.mode = owned.mode
  BY <1>9, <1>11 DEF Alike
<1>13. PanesChanged(r, update, dirs, readable) = ReadDirs(asked, targets, readable, dirs)
  BY DEF PanesChanged, asked, asked1, asked2, dirs1, listed, named, owned, s, targets
<1> HIDE DEF asked
<1>14. Settled(asked, user, joins)
  <2>1. TabFacts(asked, 1) = TabFacts(named, 1)
    BY <1>11 DEF TabFacts
  <2>2. Offered(asked)
    BY <1>9, <1>11, <2>1 DEF Offered, Alike
  <2> QED
    BY <1>9, <1>11, <2>2, AlikeIsSound DEF Settled
<1> DEFINE h == PanesChanged(r, update, dirs, readable)
<1>15. /\ Settled(h, user, joins) /\ h.own = asked.own /\ h.tabs = asked.tabs /\ h.position = asked.position
       /\ h.mode = asked.mode
  BY <1>13, <1>14, ReadsAreSound
<1> HIDE DEF h
<1>16. /\ Settled(h, user, joins) /\ h.tabs = r.tabs /\ h.mode = r.mode /\ (r.own # None => h.own = r.own)
       /\ ~moved => h.own # None \/ h.position = 1
  BY <1>4, <1>12, <1>15
<1> QED
  BY <1>16 DEF h

-----------------------------------------------------------------------------
(* The session and its rail                                                *)

Hosts == [order : Orders, edition : Nat, names : [Tabs -> Names], seat : [Panes -> Tabs], dir : [Panes -> Dirs],
          title : [Panes -> Titles], focused : Panes]

TabUpdates == [kind : {"tabs"}, order : Orders, edition : Nat, tabs : TabLists]
PaneUpdates == [kind : {"panes"}, order : Orders, position : Nat, panes : Seq(Seq(SeenPanes))]
DirUpdates == [kind : {"dir"}, pane : Panes, dir : Dirs]
Updates == TabUpdates \cup PaneUpdates \cup DirUpdates
SentCalls == [tab : Tabs, name : Given, agreed : BOOLEAN, seen : Nat, mine : Given \cup {None}]

Joins == [tabs : Orders \cup {<<>>}, panes : Orders \cup {<<>>}]
OwnOnly(call, hasMoved) == call.agreed \/ ~hasMoved => call.tab = "own"

SessionInv ==
  /\ joined \in Joins
  /\ host \in Hosts /\ owed \in SUBSET All /\ queue \in Seq(Updates)
  /\ renames \in Seq(SentCalls) /\ moved \in BOOLEAN
  /\ \A i \in 1 .. Len(renames) : OwnOnly(renames[i], moved)

\* An update is of the session as it was when it was sent.
Fits(update) ==
  /\ update.kind = "tabs" =>
       update.tabs \in TabLists /\ AsOrdered(update.tabs, update.order) /\ (~moved => Still(update.tabs))
  /\ update.kind = "panes" =>
       /\ update.panes \in Seq(Seq(SeenPanes)) /\ update.position \in Nat
       /\ Placed(update.position, update.order) /\ (~moved => update.position = 1)
HeardInv == \A i \in 1 .. Len(queue) : Fits(queue[i])

RailInv ==
  /\ rail \in Rails(rail.asked) /\ rail.calls = <<>> /\ (rail.own = None => rail.applied = None)
  /\ KnowsOwn(rail, joined) /\ Seated(rail) /\ Resolved(rail) /\ (renames = <<>> => Offered(rail))

\* What the rail does not know of a session where nothing moved it will be told.
Awaits(kind) == kind \in owed \/ \E i \in 1 .. Len(queue) : queue[i].kind = kind
ToldInv ==
  ~moved => /\ host.order = <<"own", "near">>
            /\ rail.tabs # <<>> \/ Awaits("tabs")
            /\ rail.own # None \/ rail.position = 1 \/ Awaits("panes")

\* Whoever was shown the name the user gave last has it as it is, and what was
\* called for in its sight does not take it.
Called(tabs, user) == \A j \in 1 .. Len(tabs) : tabs[j].id = "own" => tabs[j].name = user
InSight(edition) == edition # 0 /\ edition = host.edition
Shows(edition, tabs) == edition \in 0 .. changes /\ (InSight(edition) => Called(tabs, host.names["own"]))
SentRight(call) ==
  call.seen \in 0 .. changes /\ (call.tab = "own" /\ InSight(call.seen) => host.names["own"] = call.mine)
KeptInv ==
  /\ changes \in Nat /\ host.edition <= changes /\ (host.edition # 0 => host.names["own"] # Default)
  /\ Shows(shown, rail.tabs)
  /\ \A i \in 1 .. Len(queue) : queue[i].kind = "tabs" => Shows(queue[i].edition, queue[i].tabs)
  /\ \A i \in 1 .. Len(renames) : SentRight(renames[i])

WorldInv == SessionInv /\ HeardInv /\ RailInv /\ ToldInv
NamingInv == WorldInv /\ KeptInv

\* The name a rail minds that was shown an edition of it.
Minded(edition, mode) ==
  IF InSight(edition) /\ mode # "force" /\ host.names["own"] # rail.applied THEN host.names["own"] ELSE None

LEMMA RailIsSound ==
  ASSUME NamingInv, NEW edition, NEW mode
  PROVE  LET user == Minded(edition, mode)
         IN  /\ NameInv(user) /\ Minds(rail, user) /\ (user # None => mode # "force")
             /\ edition = shown => Lists(rail, user)
<1> DEFINE user == Minded(edition, mode)
<1>1. rail \in Rails(rail.asked) /\ rail.calls = <<>> /\ (rail.own = None => rail.applied = None) /\ host \in Hosts
  BY DEF NamingInv, WorldInv, RailInv, SessionInv
<1>2. Len(rail.calls) = 0 /\ rail.tabs \in TabLists
  BY <1>1, RailFields
<1>3. user # None => user = host.names["own"] /\ InSight(edition) /\ mode # "force" /\ host.names["own"] # rail.applied
  BY DEF Minded
<1> HIDE DEF user
<1>4. NameInv(user)
  <2>1. host.names["own"] \in Names
    BY <1>1 DEF Hosts, Tabs
  <2> QED
    BY <1>3, <2>1 DEF NameInv, InSight, NamingInv, KeptInv
<1>5. Minds(rail, user)
  BY <1>1, <1>2, <1>3 DEF Minds
<1>6. ASSUME edition = shown, user # None, PlaceOf(rail, "own") # 0 PROVE rail.tabs[PlaceOf(rail, "own")].name = user
  <2>1. Called(rail.tabs, user)
    BY <1>3, <1>6 DEF NamingInv, KeptInv, Shows
  <2>2. PlaceOf(rail, "own") \in 0 .. Len(rail.tabs) /\ rail.tabs[PlaceOf(rail, "own")].id = "own" /\ Len(rail.tabs) \in Nat
    BY <1>2, <1>6, PlaceIs, LenProperties DEF TabLists
  <2>3. PlaceOf(rail, "own") \in 1 .. Len(rail.tabs)
    BY <1>6, <2>2
  <2> QED
    BY <2>1, <2>2, <2>3 DEF Called
<1> QED
  BY <1>3, <1>4, <1>5, <1>6 DEF Lists, user

\* Of what was shown before a step nothing is in sight after it but what was and is
\* as it was; what is new is right of itself.
LEMMA KeptStays ==
  ASSUME KeptInv, changes' \in {changes, changes + 1}, host' \in Hosts,
         \/ host'.edition = host.edition /\ host'.names["own"] = host.names["own"]
         \/ host'.edition = 0
         \/ host'.edition = changes + 1 /\ changes' = changes + 1 /\ host'.names["own"] # Default,
         (shown' = shown /\ rail'.tabs = rail.tabs) \/ Shows(shown, rail.tabs)',
         \A i \in 1 .. Len(queue') : queue'[i].kind = "tabs" =>
           (\E j \in 1 .. Len(queue) : queue'[i] = queue[j]) \/ Shows(queue[i].edition, queue[i].tabs)',
         \A i \in 1 .. Len(renames') :
           (\E j \in 1 .. Len(renames) : renames'[i] = renames[j]) \/ SentRight(renames[i])'
  PROVE  KeptInv'
<1>1. changes \in Nat /\ changes' \in Nat /\ host'.edition \in Nat
  BY DEF KeptInv, Hosts
<1>2. ASSUME NEW e \in 0 .. changes, e # 0, e = host'.edition
      PROVE  InSight(e) /\ host'.names["own"] = host.names["own"]
  BY <1>1, <1>2 DEF InSight
<1>3. \A e \in 0 .. changes : e \in 0 .. changes'
  BY <1>1
<1>4. host'.edition <= changes' /\ (host'.edition # 0 => host'.names["own"] # Default)
  BY <1>1 DEF KeptInv
<1>5. Shows(shown, rail.tabs)'
  <2>1. CASE shown' = shown /\ rail'.tabs = rail.tabs
    BY <1>2, <1>3, <2>1 DEF KeptInv, Shows, InSight
  <2> QED
    BY <2>1
<1>6. ASSUME NEW i \in 1 .. Len(queue'), queue'[i].kind = "tabs" PROVE Shows(queue[i].edition, queue[i].tabs)'
  <2>1. CASE \E j \in 1 .. Len(queue) : queue'[i] = queue[j]
    <3>1. PICK j \in 1 .. Len(queue) : queue'[i] = queue[j]
      BY <2>1
    <3>2. Shows(queue[j].edition, queue[j].tabs)
      BY <1>6, <3>1 DEF KeptInv
    <3> QED
      BY <1>2, <1>3, <3>1, <3>2 DEF Shows, InSight
  <2> QED
    BY <1>6, <2>1
<1>7. ASSUME NEW i \in 1 .. Len(renames') PROVE SentRight(renames[i])'
  <2>1. CASE \E j \in 1 .. Len(renames) : renames'[i] = renames[j]
    <3>1. PICK j \in 1 .. Len(renames) : renames'[i] = renames[j]
      BY <2>1
    <3>2. SentRight(renames[j])
      BY DEF KeptInv
    <3> QED
      BY <1>2, <1>3, <3>1, <3>2 DEF SentRight, InSight
  <2> QED
    BY <1>7, <2>1
<1> QED
  BY <1>1, <1>4, <1>5, <1>6, <1>7 DEF KeptInv

-----------------------------------------------------------------------------
(* The steps                                                               *)

\* The rail is as it was, and something may have moved.
LEMMA RailStays ==
  ASSUME WorldInv, UNCHANGED <<rail, joined>>, moved => moved',
         ~moved' /\ Unnamed' => Unnamed /\ renames' = renames
  PROVE  RailInv'
<1>1. \A tabs : ~moved' /\ Still(tabs) => Still(tabs)'
  BY DEF Still
<1>2. KnowsOwn(rail, joined)' /\ Seated(rail)' /\ Resolved(rail)'
  <2>1. KnowsOwn(rail, joined) /\ Seated(rail) /\ Resolved(rail)
    BY DEF WorldInv, RailInv
  <2> QED
    BY <1>1, <2>1 DEF KnowsOwn, AsOrdered, Placed, Seated, Resolved
<1>3. renames' = <<>> => Offered(rail)'
  BY DEF WorldInv, RailInv, Offered
<1> QED
  BY <1>2, <1>3 DEF WorldInv, RailInv

\* What was on its way still is.
LEMMA HeardStays ==
  ASSUME HeardInv, moved => moved', ~moved' /\ Unnamed' => Unnamed,
         \A i \in 1 .. Len(queue') : (\E j \in 1 .. Len(queue) : queue'[i] = queue[j]) \/ Fits(queue[i])'
  PROVE  HeardInv'
<1>1. ASSUME NEW i \in 1 .. Len(queue'), NEW j \in 1 .. Len(queue), queue'[i] = queue[j] PROVE Fits(queue[i])'
  <2>1. Fits(queue[j])
    BY DEF HeardInv
  <2>2. ~moved' => (Still(queue[j].tabs) => Still(queue[i].tabs)')
    BY <1>1 DEF Still
  <2> QED
    BY <1>1, <2>1, <2>2 DEF Fits, AsOrdered, Placed
<1> QED
  BY <1>1 DEF HeardInv
\* What the host reports.
LEMMA TabUpdateIs ==
  ASSUME WorldInv
  PROVE  /\ TabUpdate \in TabUpdates /\ Fits(TabUpdate) /\ TabUpdate.kind = "tabs" /\ TabUpdate.edition = host.edition
         /\ Called(TabUpdate.tabs, host.names["own"])
<1> DEFINE tabs == [i \in DOMAIN host.order |-> [id |-> host.order[i], name |-> host.names[host.order[i]]]]
           n == Len(host.order)
<1>1. host.order \in Seq(Tabs) /\ host.names \in [Tabs -> Names] /\ DOMAIN host.order = 1 .. n /\ n \in Nat
  <2>1. host.order \in Orders /\ host.names \in [Tabs -> Names]
    BY DEF WorldInv, SessionInv, Hosts
  <2>2. \A order \in Orders : order \in Seq(Tabs)
    <3> DEFINE own == "own"
               near == "near"
    <3>1. own \in Tabs /\ near \in Tabs /\ Orders = {<<own, near>>, <<near, own>>, <<own>>}
      BY DEF Tabs, Orders
    <3> HIDE DEF own, near
    <3>2. <<own, near>> \in Seq(Tabs) /\ <<near, own>> \in Seq(Tabs) /\ <<own>> \in Seq(Tabs)
      BY <3>1
    <3> QED
      BY <3>1, <3>2
  <2> QED
    BY <2>1, <2>2, LenProperties
<1>2. TabUpdate = [kind |-> "tabs", order |-> host.order, edition |-> host.edition, tabs |-> tabs]
  BY DEF TabUpdate
<1>3. tabs \in [1 .. n -> [id : Tabs, name : Names]]
  BY <1>1
<1>4. tabs \in TabLists /\ Len(tabs) = n
  <2> DEFINE T == [id : Tabs, name : Names]
  <2>1. DOMAIN tabs = 1 .. n /\ tabs \in [1 .. n -> T]
    BY <1>1, <1>3
  <2> HIDE DEF tabs, T, n
  <2>2. tabs \in Seq(T)
    BY <1>1, <2>1, SeqDef
  <2> QED
    BY <1>1, <2>1, <2>2, LenProperties DEF TabLists, T
<1>5. \A i \in 1 .. n : tabs[i].id = host.order[i] /\ tabs[i].name = host.names[host.order[i]] /\ i \in DOMAIN host.order
  BY <1>1
<1> HIDE DEF tabs
<1>6. AsOrdered(tabs, host.order)
  BY <1>4, <1>5 DEF AsOrdered
<1>7. ASSUME ~moved PROVE Still(tabs)
  <2>1. host.order = <<"own", "near">>
    BY <1>7 DEF WorldInv, ToldInv
  <2>2. n = 2 /\ host.order[1] = "own" /\ host.order[2] = "near"
    BY <2>1
  <2>3. 1 \in 1 .. n /\ 2 \in 1 .. n
    BY <2>2
  <2> QED
    BY <1>4, <1>5, <2>2, <2>3 DEF Still, Unnamed
<1>8. Called(tabs, host.names["own"])
  BY <1>4, <1>5 DEF Called
<1>9. /\ TabUpdate.kind = "tabs" /\ TabUpdate.tabs = tabs /\ TabUpdate.order = host.order
      /\ TabUpdate.edition = host.edition /\ TabUpdate \in TabUpdates
  <2>1. host.order \in Orders /\ host.edition \in Nat
    BY DEF WorldInv, SessionInv, Hosts
  <2> QED
    BY <1>2, <1>4, <2>1 DEF TabUpdates
<1> QED
  BY <1>4, <1>6, <1>7, <1>8, <1>9 DEF Fits

LEMMA PaneListIs ==
  ASSUME WorldInv, NEW tab
  PROVE  PaneList(tab) \in Seq(SeenPanes)
<1> DEFINE ids == Among(<<1, 2, 3>>, {p \in Panes : host.seat[p] = tab})
           S == {p \in Panes : host.seat[p] = tab}
<1>1. host.title \in [Panes -> Titles]
  BY DEF WorldInv, SessionInv, Hosts
<1>2. <<1, 2, 3>> \in Seq(Panes)
  BY DEF Panes
<1>3. ids \in Seq(Panes \cap S)
  BY <1>2, Filtered
<1> HIDE DEF S
<1>4. PaneList(tab) = [i \in DOMAIN ids |-> [id |-> ids[i], title |-> host.title[ids[i]], focused |-> ids[i] \in {host.focused, 3}]]
  BY DEF PaneList
<1> HIDE DEF ids
<1>5. DOMAIN ids = 1 .. Len(ids) /\ Len(ids) \in Nat /\ \A i \in 1 .. Len(ids) : ids[i] \in Panes
  BY <1>3, LenProperties
<1>6. ASSUME NEW i \in 1 .. Len(ids)
      PROVE  [id |-> ids[i], title |-> host.title[ids[i]], focused |-> ids[i] \in {host.focused, 3}] \in SeenPanes
  <2> DEFINE f == ids[i] \in {host.focused, 3}
             t == host.title[ids[i]]
             p == ids[i]
  <2>1. f \in BOOLEAN /\ t \in Titles /\ p \in Panes
    BY <1>1, <1>5
  <2> HIDE DEF f, t, p
  <2>2. [id |-> p, title |-> t, focused |-> f] \in SeenPanes
    BY <2>1 DEF SeenPanes
  <2> QED
    BY <2>2 DEF f, t, p
<1>7. PaneList(tab) \in [1 .. Len(ids) -> SeenPanes]
  BY <1>4, <1>5, <1>6
<1> QED
  BY <1>5, <1>7, SeqDef

LEMMA PaneUpdateIs ==
  ASSUME WorldInv
  PROVE  PaneUpdate \in PaneUpdates /\ Fits(PaneUpdate) /\ PaneUpdate.kind = "panes"
<1> DEFINE place == CHOOSE i \in DOMAIN host.order : host.order[i] = "own"
           lists == [i \in DOMAIN host.order |-> PaneList(host.order[i])]
           n == Len(host.order)
<1>1. host.order \in Orders
  BY DEF WorldInv, SessionInv, Hosts
<1>2. /\ DOMAIN host.order = 1 .. n /\ n \in Nat
      /\ place \in DOMAIN host.order /\ host.order[place] = "own"
  <2>1. \A order \in Orders : /\ DOMAIN order = 1 .. Len(order) /\ Len(order) \in Nat
                              /\ \E i \in DOMAIN order : order[i] = "own"
    <3>1. ASSUME NEW order \in Orders PROVE \E i \in DOMAIN order : order[i] = "own"
      <4>1. CASE order = <<"own", "near">>
        BY <4>1
      <4>2. CASE order = <<"near", "own">>
        <5>1. order[2] = "own" /\ 2 \in DOMAIN order
          BY <4>2
        <5> QED
          BY <5>1
      <4>3. CASE order = <<"own">>
        BY <4>3
      <4> QED
        BY <4>1, <4>2, <4>3 DEF Orders
    <3> QED
      BY <3>1 DEF Orders
  <2> QED
    BY <1>1, <2>1
<1>3. PaneUpdate = [kind |-> "panes", order |-> host.order, position |-> place, panes |-> lists]
  BY DEF PaneUpdate
<1>4. lists \in Seq(Seq(SeenPanes))
  <2> DEFINE T == Seq(SeenPanes)
  <2>1. lists \in [1 .. n -> T]
    BY <1>2, PaneListIs
  <2> HIDE DEF lists, T, n
  <2>2. lists \in Seq(T)
    BY <1>2, <2>1, SeqDef
  <2> QED
    BY <2>2 DEF T
<1>5. ASSUME ~moved PROVE place = 1
  <2>1. host.order = <<"own", "near">>
    BY <1>5 DEF WorldInv, ToldInv
  <2> HIDE DEF place
  <2>2. n = 2 /\ host.order[2] # "own"
    BY <2>1
  <2> QED
    BY <1>2, <2>2
<1> HIDE DEF place, lists
<1>6. place \in Nat
  BY <1>2
<1>7. /\ PaneUpdate.kind = "panes" /\ PaneUpdate.position = place /\ PaneUpdate.panes = lists
      /\ PaneUpdate.order = host.order /\ PaneUpdate \in PaneUpdates
  BY <1>1, <1>3, <1>4, <1>6 DEF PaneUpdates
<1>8. Placed(place, host.order)
  BY <1>2 DEF Placed
<1> QED
  BY <1>4, <1>5, <1>6, <1>7, <1>8 DEF Fits

\* A rail that was told nothing has joined nothing.
LEMMA UnheardIs ==
  ASSUME NEW r, r.own = None, r.position = 0, r.tabs = <<>>, r.calls = <<>>
  PROVE  KnowsOwn(r, Unheard)
<1>1. Len(r.tabs) = 0 /\ Len(r.calls) = 0 /\ 0 \notin DOMAIN Unheard.panes
  BY DEF Unheard
<1> QED
  BY <1>1 DEF KnowsOwn, AsOrdered, Placed

LEMMA FreshIs ==
  ASSUME NEW repo \in [Panes -> Repos]
  PROVE  LET r == FreshRail(repo)
         IN  /\ r \in Rails({}) /\ r.asked = {} /\ r.own = None /\ r.position = 0 /\ r.tabs = <<>>
             /\ r.applied = None /\ r.calls = <<>> /\ r.mode = "managed"
<1>1. <<>> \in KnownDirs
  <2>1. <<>> \in [{} -> Dirs]
    OBVIOUS
  <2> QED
    BY <2>1 DEF KnownDirs
<1> QED
  BY <1>1 DEF FreshRail, Rails, TabLists, Modes

LEMMA NamingStarts == NamingInit => NamingInv
<1> SUFFICES ASSUME NamingInit PROVE NamingInv
  OBVIOUS
<1>1. /\ host = HostInit /\ owed = All /\ queue = <<>> /\ rail = FreshRail([p \in Panes |-> None])
      /\ renames = <<>> /\ changes = 0 /\ joined = Unheard /\ shown = 0 /\ moved = FALSE
  BY DEF NamingInit
<1>2. host \in Hosts /\ host.order = <<"own", "near">> /\ host.edition = 0
  <2>1. /\ <<"own", "own", "near">> \in [Panes -> Tabs] /\ <<"root", "x", "z">> \in [Panes -> Dirs]
        /\ <<"untitled", "untitled", "untitled">> \in [Panes -> Titles]
    BY DEF Panes, Tabs, Dirs, Titles
  <2>2. [tab \in {"own", "near"} |-> Default] \in [Tabs -> Names]
    BY DEF Tabs, Names
  <2>3. <<"own", "near">> \in Orders /\ 1 \in Panes
    BY DEF Orders, Panes
  <2> QED
    BY <1>1, <2>1, <2>2, <2>3 DEF HostInit, Hosts
<1>3. Len(renames) = 0 /\ Len(queue) = 0 /\ queue \in Seq(Updates) /\ renames \in Seq(SentCalls)
  BY <1>1
<1>4. SessionInv
  <2>1. joined \in Joins
    BY <1>1 DEF Joins, Unheard
  <2>2. owed \in SUBSET All /\ moved \in BOOLEAN
    BY <1>1
  <2>3. \A i \in 1 .. Len(renames) : OwnOnly(renames[i], moved)
    BY <1>3
  <2> QED
    BY <1>2, <1>3, <2>1, <2>2, <2>3 DEF SessionInv
<1>5. /\ rail \in Rails({}) /\ rail.asked = {} /\ rail.own = None /\ rail.position = 0 /\ rail.tabs = <<>>
      /\ rail.applied = None /\ rail.calls = <<>>
  <2>1. [p \in Panes |-> None] \in [Panes -> Repos]
    BY DEF Repos
  <2> QED
    BY <1>1, <2>1, FreshIs
<1>6. RailInv
  <2>1. Len(rail.calls) = 0 /\ KnowsOwn(rail, joined)
    BY <1>1, <1>5, UnheardIs
  <2> QED
    BY <1>5, <2>1 DEF RailInv, Seated, Resolved, Offered
<1>7. HeardInv
  BY <1>3 DEF HeardInv
<1>8. ToldInv
  BY <1>1, <1>2 DEF ToldInv, Awaits, All
<1>9. KeptInv
  BY <1>1, <1>2, <1>3 DEF KeptInv, Shows, InSight
<1> QED
  BY <1>4, <1>6, <1>7, <1>8, <1>9 DEF NamingInv, WorldInv

\* What is still awaited after a step that takes nothing from the queue.
LEMMA StillAwaits ==
  ASSUME WorldInv, UNCHANGED rail, moved => moved', moved' \/ host'.order = host.order,
         ~moved' => \A kind : Awaits(kind) => Awaits(kind)'
  PROVE  ToldInv'
BY DEF WorldInv, ToldInv

LEMMA ReportKeeps ==
  ASSUME NamingInv, Report PROVE NamingInv'
<1>1. PICK updates \in {<<PaneUpdate>>, <<PaneUpdate, TabUpdate>>, <<TabUpdate>>} :
        /\ queue' = queue \o updates /\ owed' = owed \ {updates[i].kind : i \in DOMAIN updates}
        /\ UNCHANGED <<host, rail, renames, changes, joined, shown, moved>>
  BY DEF Report
<1>2. /\ WorldInv /\ queue \in Seq(Updates) /\ Len(queue) \in Nat
  BY LenProperties DEF NamingInv, WorldInv, SessionInv
<1>3. /\ updates \in Seq(Updates) /\ Len(updates) \in Nat /\ DOMAIN updates = 1 .. Len(updates)
      /\ \A i \in 1 .. Len(updates) :
           /\ updates[i] \in Updates /\ Fits(updates[i])
           /\ updates[i].kind = "tabs" =>
                updates[i].edition = host.edition /\ Called(updates[i].tabs, host.names["own"])
  <2>1. /\ TabUpdate \in Updates /\ Fits(TabUpdate) /\ TabUpdate.edition = host.edition
        /\ Called(TabUpdate.tabs, host.names["own"])
    BY <1>2, TabUpdateIs DEF Updates
  <2>2. PaneUpdate \in Updates /\ Fits(PaneUpdate) /\ PaneUpdate.kind = "panes"
    BY <1>2, PaneUpdateIs DEF Updates
  <2> DEFINE T == TabUpdate
             P == PaneUpdate
  <2>3. T \in Updates /\ P \in Updates
    BY <2>1, <2>2
  <2>4. updates \in {<<P>>, <<P, T>>, <<T>>}
    OBVIOUS
  <2> HIDE DEF T, P
  <2>5. /\ updates \in Seq(Updates) /\ Len(updates) \in Nat /\ DOMAIN updates = 1 .. Len(updates)
        /\ \A i \in 1 .. Len(updates) : updates[i] \in {T, P}
    <3>1. CASE updates = <<P>>
      BY <2>3, <3>1
    <3>2. CASE updates = <<P, T>>
      BY <2>3, <3>2
    <3>3. CASE updates = <<T>>
      BY <2>3, <3>3
    <3> QED
      BY <2>4, <3>1, <3>2, <3>3
  <2> QED
    BY <2>1, <2>2, <2>5 DEF T, P
<1>4. /\ queue' \in Seq(Updates) /\ Len(queue') = Len(queue) + Len(updates)
      /\ \A i \in 1 .. Len(queue) : queue'[i] = queue[i]
      /\ \A i \in 1 .. Len(updates) : queue'[Len(queue) + i] = updates[i]
  BY <1>1, <1>2, <1>3, ConcatProperties
<1>5. ASSUME NEW i \in 1 .. Len(queue')
      PROVE  \/ i \in 1 .. Len(queue) /\ queue'[i] = queue[i]
             \/ \E j \in 1 .. Len(updates) : queue'[i] = updates[j]
  <2>1. CASE i \in 1 .. Len(queue)
    BY <1>4, <2>1
  <2>2. CASE i \notin 1 .. Len(queue)
    <3>1. PICK j \in 1 .. Len(updates) : i = Len(queue) + j
      <4>1. i - Len(queue) \in 1 .. Len(updates) /\ i = Len(queue) + (i - Len(queue))
        BY <1>2, <1>3, <1>4, <2>2
      <4> QED
        BY <4>1
    <3> QED
      BY <1>4, <3>1
  <2> QED
    BY <2>1, <2>2
<1>6. RailInv'
  BY <1>1, <1>2, RailStays DEF Unnamed
<1>7. HeardInv'
  <2>1. ASSUME NEW i \in 1 .. Len(queue'), NEW j \in 1 .. Len(updates), queue'[i] = updates[j] PROVE Fits(queue[i])'
    <3>1. Fits(updates[j]) /\ host' = host /\ moved' = moved
      BY <1>1, <1>3
    <3> QED
      BY <2>1, <3>1 DEF Fits, AsOrdered, Placed, Still, Unnamed
  <2> QED
    BY <1>1, <1>2, <1>5, <2>1, HeardStays DEF WorldInv, Unnamed
<1>8. ASSUME NEW kind, Awaits(kind) PROVE Awaits(kind)'
  <2>1. CASE \E i \in 1 .. Len(queue) : queue[i].kind = kind
    <3>1. PICK i \in 1 .. Len(queue) : queue[i].kind = kind
      BY <2>1
    <3>2. i \in 1 .. Len(queue') /\ queue'[i].kind = kind
      BY <1>2, <1>3, <1>4, <3>1
    <3> QED
      BY <3>2 DEF Awaits
  <2>2. CASE kind \in owed /\ kind \in owed'
    BY <2>2 DEF Awaits
  <2>3. CASE kind \in owed /\ kind \notin owed'
    <3>1. PICK j \in 1 .. Len(updates) : updates[j].kind = kind
      BY <1>1, <1>3, <2>3
    <3>2. Len(queue) + j \in 1 .. Len(queue') /\ queue'[Len(queue) + j].kind = kind
      BY <1>2, <1>3, <1>4, <3>1
    <3> QED
      BY <3>2 DEF Awaits
  <2> QED
    BY <1>8, <2>1, <2>2, <2>3 DEF Awaits
<1>9. ToldInv'
  BY <1>1, <1>2, <1>8, StillAwaits
<1>10. SessionInv'
  BY <1>1, <1>2, <1>4 DEF WorldInv, SessionInv
<1>11. KeptInv'
  <2>1. host \in Hosts /\ host.edition \in 0 .. changes /\ KeptInv
    BY <1>2 DEF WorldInv, SessionInv, Hosts, NamingInv, KeptInv
  <2>2. ASSUME NEW i \in 1 .. Len(queue'), queue'[i].kind = "tabs"
        PROVE  (\E j \in 1 .. Len(queue) : queue'[i] = queue[j]) \/ Shows(queue[i].edition, queue[i].tabs)'
    <3>1. CASE \E j \in 1 .. Len(updates) : queue'[i] = updates[j]
      <4>1. queue'[i].edition = host.edition /\ Called(queue'[i].tabs, host.names["own"])
        BY <1>3, <2>2, <3>1
      <4> QED
        BY <1>1, <2>1, <4>1 DEF Shows, InSight, Called
    <3> QED
      BY <1>5, <3>1
  <2> QED
    BY <1>1, <2>1, <2>2, KeptStays
<1> QED
  BY <1>6, <1>7, <1>9, <1>10, <1>11 DEF NamingInv, WorldInv

\* The rail has handled something, and its calls are on their way.
LEMMA HandledIs ==
  ASSUME NamingInv, NEW h, Sound(h, Minded(shown', h.mode), joined'), Resolved(h), Offered(rail) => Offered(h),
         Handled(h), UNCHANGED <<host, moved>>, shown' \in 0 .. changes', changes' \in {changes, changes + 1}
  PROVE  /\ RailInv' /\ rail'.own = h.own /\ rail'.tabs = h.tabs /\ rail'.position = h.position
         /\ renames' \in Seq(SentCalls)
         /\ \A i \in 1 .. Len(renames') : OwnOnly(renames'[i], moved')
         /\ \A i \in 1 .. Len(renames') :
              (\E j \in 1 .. Len(renames) : renames'[i] = renames[j]) \/ SentRight(renames[i])'
<1> DEFINE user == Minded(shown', h.mode)
           calls == [i \in DOMAIN h.calls |-> Sent(h, h.calls[i])]
<1>1. /\ h \in Rails(h.asked) /\ h.calls \in Seq(RenameCalls) /\ Len(h.calls) \in Nat
      /\ DOMAIN h.calls = 1 .. Len(h.calls) /\ \A i \in 1 .. Len(h.calls) : h.calls[i] \in RenameCalls
  BY RailFields, LenProperties DEF Sound
<1>2. /\ renames \in Seq(SentCalls) /\ Len(renames) \in Nat /\ changes \in Nat /\ shown' \in Nat
      /\ rail.applied \in Given \cup {None}
      /\ \A i \in 1 .. Len(renames) : OwnOnly(renames[i], moved)
  BY RailFields, LenProperties DEF NamingInv, WorldInv, SessionInv, KeptInv, RailInv
<1>3. rail' = [h EXCEPT !.calls = <<>>] /\ renames' = renames \o calls
  BY DEF Handled
<1>4. /\ rail' \in Rails(h.asked) /\ rail'.own = h.own /\ rail'.tabs = h.tabs /\ rail'.position = h.position
      /\ rail'.applied = h.applied /\ rail'.mode = h.mode /\ rail'.calls = <<>> /\ rail'.asked = h.asked
      /\ rail'.panes = h.panes /\ rail'.repo = h.repo /\ rail'.dir = h.dir
  <2>1. <<>> \in Seq(RenameCalls)
    OBVIOUS
  <2> QED
    BY <1>1, <1>3, <2>1 DEF Rails
\* What history keeps of a call.
<1>5. ASSUME NEW i \in 1 .. Len(h.calls)
      PROVE  /\ Sent(h, h.calls[i]) \in SentCalls /\ Sent(h, h.calls[i]).tab = h.calls[i].tab
             /\ Sent(h, h.calls[i]).agreed = (joined'.tabs = joined'.panes)
             /\ Sent(h, h.calls[i]).seen = (IF h.mode = "force" THEN 0 ELSE shown')
             /\ Sent(h, h.calls[i]).mine = rail.applied
  <2> DEFINE call == h.calls[i]
             same == joined'.tabs = joined'.panes
             seen == IF h.mode = "force" THEN 0 ELSE shown'
             given == rail.applied
  <2>1. call.tab \in Tabs /\ call.name \in Given
    BY <1>1 DEF RenameCalls
  <2>2. same \in BOOLEAN /\ seen \in Nat /\ given \in Given \cup {None}
    BY <1>2
  <2>3. Sent(h, call) = [tab |-> call.tab, name |-> call.name, agreed |-> same, seen |-> seen, mine |-> given]
    BY DEF Sent
  <2> HIDE DEF call, same, seen, given
  <2>4. Sent(h, call) \in SentCalls
    BY <2>1, <2>2, <2>3 DEF SentCalls
  <2>5. Sent(h, call).tab = call.tab /\ Sent(h, call).agreed = same /\ Sent(h, call).seen = seen /\ Sent(h, call).mine = given
    BY <2>3
  <2> QED
    BY <2>4, <2>5 DEF call, same, seen, given
<1>6. /\ calls \in Seq(SentCalls) /\ Len(calls) = Len(h.calls)
      /\ \A i \in 1 .. Len(h.calls) : calls[i] = Sent(h, h.calls[i])
  <2>1. calls \in [1 .. Len(h.calls) -> SentCalls] /\ DOMAIN calls = 1 .. Len(h.calls)
    BY <1>1, <1>5
  <2>2. \A i \in 1 .. Len(h.calls) : calls[i] = Sent(h, h.calls[i])
    BY <1>1
  <2> HIDE DEF calls
  <2>3. calls \in Seq(SentCalls)
    BY <1>1, <2>1, SeqDef
  <2> QED
    BY <1>1, <2>1, <2>2, <2>3, LenProperties
<1> HIDE DEF calls
<1>7. /\ renames' \in Seq(SentCalls) /\ Len(renames') = Len(renames) + Len(h.calls)
      /\ \A i \in 1 .. Len(renames) : renames'[i] = renames[i]
      /\ \A i \in 1 .. Len(h.calls) : renames'[Len(renames) + i] = calls[i]
  <2>1. renames' \in Seq(SentCalls) /\ Len(renames') = Len(renames) + Len(calls)
    BY <1>2, <1>3, <1>6, ConcatProperties
  <2>2. \A i \in 1 .. Len(renames) + Len(calls) :
          renames'[i] = IF i <= Len(renames) THEN renames[i] ELSE calls[i - Len(renames)]
    BY <1>2, <1>3, <1>6, ConcatProperties
  <2> HIDE DEF SentCalls
  <2>3. \A n, m \in Nat : /\ \A i \in 1 .. n : i \in 1 .. n + m /\ i <= n
                         /\ \A i \in 1 .. m : n + i \in 1 .. n + m /\ ~(n + i <= n) /\ (n + i) - n = i
    OBVIOUS
  <2>4. \A i \in 1 .. Len(renames) : renames'[i] = renames[i]
    BY <1>1, <1>2, <1>6, <2>2, <2>3
  <2>5. \A i \in 1 .. Len(h.calls) : renames'[Len(renames) + i] = calls[i]
    BY <1>1, <1>2, <1>6, <2>2, <2>3
  <2> QED
    BY <1>6, <2>1, <2>4, <2>5
<1>8. ASSUME NEW i \in 1 .. Len(renames')
      PROVE  \/ i \in 1 .. Len(renames) /\ renames'[i] = renames[i]
             \/ \E j \in 1 .. Len(h.calls) : renames'[i] = Sent(h, h.calls[j])
  <2>1. CASE i \in 1 .. Len(renames)
    BY <1>7, <2>1
  <2>2. CASE i \notin 1 .. Len(renames)
    <3>1. i - Len(renames) \in 1 .. Len(h.calls) /\ i = Len(renames) + (i - Len(renames))
      BY <1>1, <1>2, <1>7, <2>2
    <3>2. PICK j \in 1 .. Len(h.calls) : i = Len(renames) + j
      BY <3>1
    <3> QED
      BY <1>6, <1>7, <3>2
  <2> QED
    BY <2>1, <2>2
<1>9. KnowsOwn(rail, joined)'
  <2>1. Len(rail'.calls) = 0 /\ KnowsOwn(h, joined')
    BY <1>4 DEF Sound
  <2> QED
    BY <1>4, <2>1 DEF KnowsOwn, AsOrdered, Placed
<1>10. Seated(rail)'
  <2>1. Len(rail'.calls) = 0 /\ Seated(h)
    BY <1>4 DEF Sound
  <2> QED
    BY <1>4, <2>1 DEF Seated, Still, Unnamed
<1>11. Resolved(rail)'
  BY <1>4 DEF Resolved
<1>12. renames' = <<>> => Offered(rail)'
  <2>1. SUFFICES ASSUME renames' = <<>> PROVE Offered(rail)'
    OBVIOUS
  <2>2. Len(renames') = 0
    BY <2>1
  <2>3. Len(renames) = 0 /\ Len(h.calls) = 0
    <3>1. \A n, m \in Nat : n + m = 0 => n = 0 /\ m = 0
      OBVIOUS
    <3>2. Len(renames) + Len(h.calls) = 0
      BY <1>7, <2>2
    <3> QED
      BY <1>1, <1>2, <3>1, <3>2
  <2>4. renames = <<>> /\ h.calls = <<>>
    BY <1>1, <1>2, <2>3, EmptySeq
  <2>5. Offered(h)
    BY <2>4 DEF NamingInv, WorldInv, RailInv
  <2>6. TabFacts(rail', 1) = TabFacts(h, 1)
    BY <1>4 DEF TabFacts
  <2>7. ~moved /\ Unnamed /\ h.own # None /\ h.mode # "off" => ComputedName(TabFacts(h, 1)) = None
    BY <2>4, <2>5 DEF Offered
  <2>8. Unnamed' = Unnamed
    BY DEF Unnamed
  <2>9. ~moved' /\ Unnamed' /\ rail'.own # None /\ rail'.mode # "off" => ComputedName(TabFacts(rail', 1)) = None
    BY <1>4, <2>6, <2>7, <2>8
  <2> QED
    BY <2>9 DEF Offered
<1>13. RailInv'
  <2>1. h.own = None => h.applied = None
    BY DEF Sound, KeepsName, Minds
  <2> QED
    BY <1>4, <1>9, <1>10, <1>11, <1>12, <2>1 DEF RailInv
<1>14. ASSUME NEW i \in 1 .. Len(renames') PROVE OwnOnly(renames'[i], moved')
  <2>1. ASSUME NEW j \in 1 .. Len(h.calls), renames'[i] = Sent(h, h.calls[j]) PROVE OwnOnly(renames'[i], moved')
    <3>1. renames'[i].tab = h.calls[j].tab /\ renames'[i].agreed = (joined'.tabs = joined'.panes)
      BY <1>5, <2>1
    <3>2. joined'.tabs = joined'.panes \/ ~moved => h.calls[j].tab = "own"
      BY DEF Sound, KnowsOwn, Seated
    <3> QED
      BY <3>1, <3>2 DEF OwnOnly
  <2>2. \A j \in 1 .. Len(renames) : OwnOnly(renames[j], moved')
    BY <1>2
  <2> QED
    BY <1>8, <2>1, <2>2
<1>15. ASSUME NEW i \in 1 .. Len(renames')
       PROVE  (\E j \in 1 .. Len(renames) : renames'[i] = renames[j]) \/ SentRight(renames[i])'
  <2>1. ASSUME NEW j \in 1 .. Len(h.calls), renames'[i] = Sent(h, h.calls[j]) PROVE SentRight(renames[i])'
    <3>1. renames'[i].tab = h.calls[j].tab /\ renames'[i].mine = rail.applied
          /\ renames'[i].seen = (IF h.mode = "force" THEN 0 ELSE shown')
      BY <1>5, <2>1
    <3>2. renames'[i].seen \in 0 .. changes'
      BY <1>2, <3>1
    <3>3. ASSUME renames'[i].tab = "own", InSight(renames[i].seen)' PROVE host'.names["own"] = rail.applied
      <4>1. h.mode # "force" /\ shown' # 0 /\ shown' = host.edition /\ host' = host
        BY <3>1, <3>3 DEF InSight
      <4>2. user # None => \A k \in 1 .. Len(h.calls) : h.calls[k].tab # "own"
        BY DEF Sound, KeepsName, Minds
      <4>3. user = None
        BY <3>1, <3>3, <4>2
      <4>4. host.names["own"] # None
        BY DEF NamingInv, WorldInv, SessionInv, Hosts, Tabs, Names, Given, Default, None
      <4> QED
        BY <4>1, <4>3, <4>4 DEF Minded, InSight
    <3> QED
      BY <3>1, <3>2, <3>3 DEF SentRight
  <2> QED
    BY <1>8, <2>1
<1> QED
  BY <1>4, <1>7, <1>13, <1>14, <1>15

LEMMA AfterHead ==
  ASSUME NEW T, NEW q \in Seq(T), q # <<>>
  PROVE  /\ Len(q) \in Nat /\ Len(q) # 0 /\ Head(q) \in T /\ Head(q) = q[1]
         /\ Tail(q) \in Seq(T) /\ Len(Tail(q)) = Len(q) - 1
         /\ \A i \in 1 .. Len(Tail(q)) : i + 1 \in 1 .. Len(q) /\ Tail(q)[i] = q[i + 1]
         /\ \A i \in 2 .. Len(q) : i - 1 \in 1 .. Len(Tail(q)) /\ Tail(q)[i - 1] = q[i]
BY HeadTailProperties, EmptySeq, LenProperties

\* The rail took the first update of the queue.
LEMMA TakenKeeps ==
  ASSUME NamingInv, queue # <<>>, queue' = Tail(queue), NEW h, Sound(h, Minded(shown', h.mode), joined'), Resolved(h),
         Offered(rail) => Offered(h), Handled(h), UNCHANGED <<host, owed, changes, moved>>,
         Shows(shown', h.tabs), joined' \in Joins,
         ~moved => /\ Head(queue).kind = "tabs" \/ rail.tabs # <<>> => h.tabs # <<>>
                   /\ Head(queue).kind = "panes" \/ rail.own # None \/ rail.position = 1 =>
                        h.own # None \/ h.position = 1
  PROVE  NamingInv'
<1>1. WorldInv /\ KeptInv /\ queue \in Seq(Updates) /\ host \in Hosts
  BY DEF NamingInv, WorldInv, SessionInv
<1>2. /\ Head(queue) = queue[1] /\ Tail(queue) \in Seq(Updates) /\ Len(queue) \in Nat
      /\ \A i \in 1 .. Len(Tail(queue)) : i + 1 \in 1 .. Len(queue) /\ Tail(queue)[i] = queue[i + 1]
      /\ \A i \in 2 .. Len(queue) : i - 1 \in 1 .. Len(Tail(queue)) /\ Tail(queue)[i - 1] = queue[i]
  BY <1>1, AfterHead
<1>3. /\ RailInv' /\ rail'.own = h.own /\ rail'.tabs = h.tabs /\ rail'.position = h.position
      /\ renames' \in Seq(SentCalls)
      /\ \A i \in 1 .. Len(renames') : OwnOnly(renames'[i], moved')
      /\ \A i \in 1 .. Len(renames') :
           (\E j \in 1 .. Len(renames) : renames'[i] = renames[j]) \/ SentRight(renames[i])'
  <2>1. shown' \in 0 .. changes' /\ changes' \in {changes, changes + 1}
    BY DEF Shows
  <2> QED
    BY <2>1, HandledIs
<1>4. \A i \in 1 .. Len(queue') : \E j \in 1 .. Len(queue) : queue'[i] = queue[j]
  BY <1>2
<1>5. HeardInv'
  BY <1>1, <1>4, HeardStays DEF WorldInv, Unnamed
<1>6. ASSUME NEW kind, Awaits(kind) PROVE Head(queue).kind = kind \/ Awaits(kind)'
  <2>1. CASE kind \in owed
    BY <2>1 DEF Awaits
  <2>2. CASE kind \notin owed
    <3>1. PICK i \in 1 .. Len(queue) : queue[i].kind = kind
      BY <1>6, <2>2 DEF Awaits
    <3>2. CASE i = 1
      BY <1>2, <3>1, <3>2
    <3>3. CASE i # 1
      <4>1. i \in 2 .. Len(queue)
        BY <1>2, <3>3
      <4>2. i - 1 \in 1 .. Len(queue') /\ queue'[i - 1].kind = kind
        BY <1>2, <3>1, <4>1
      <4> QED
        BY <4>2 DEF Awaits
    <3> QED
      BY <3>2, <3>3
  <2> QED
    BY <2>1, <2>2
<1>7. ToldInv'
  <2>1. ASSUME ~moved
        PROVE  /\ rail'.tabs # <<>> \/ Awaits("tabs")'
               /\ rail'.own # None \/ rail'.position = 1 \/ Awaits("panes")'
    <3>1. /\ rail.tabs # <<>> \/ Awaits("tabs")
          /\ rail.own # None \/ rail.position = 1 \/ Awaits("panes")
      BY <1>1, <2>1 DEF WorldInv, ToldInv
    <3>2. rail'.tabs # <<>> \/ Awaits("tabs")'
      BY <1>3, <1>6, <2>1, <3>1
    <3>3. rail'.own # None \/ rail'.position = 1 \/ Awaits("panes")'
      BY <1>3, <1>6, <2>1, <3>1
    <3> QED
      BY <3>2, <3>3
  <2> QED
    BY <1>1, <2>1 DEF WorldInv, ToldInv
<1>8. SessionInv'
  BY <1>1, <1>2, <1>3 DEF WorldInv, SessionInv
<1>9. KeptInv'
  <2>1. Shows(shown, rail.tabs)'
    BY <1>3 DEF Shows, InSight, Called
  <2> QED
    BY <1>1, <1>3, <1>4, <2>1, KeptStays
<1> QED
  BY <1>3, <1>5, <1>7, <1>8, <1>9 DEF NamingInv, WorldInv

LEMMA DeliverKeeps ==
  ASSUME NamingInv, NamingAssumption, Deliver PROVE NamingInv'
<1> DEFINE update == Head(queue)
<1>1. /\ queue # <<>> /\ queue' = Tail(queue) /\ UNCHANGED <<host, owed, changes, moved>>
      /\ joined' = IF rail.own = None /\ update.kind \in All THEN [joined EXCEPT ![update.kind] = update.order] ELSE joined
      /\ shown' = IF update.kind = "tabs" THEN update.edition ELSE shown
      /\ \/ update.kind = "tabs" /\ Handled(TabsChanged(rail, update.tabs))
         \/ update.kind = "panes" /\ \E readable \in {Panes, {}} :
              Handled(PanesChanged(rail, update, host.dir, readable))
         \/ update.kind = "dir" /\ Handled(CwdChanged(rail, update.pane, update.dir))
  BY DEF Deliver, Hear
<1> DEFINE user == Minded(shown', rail.mode)
<1>2. /\ rail \in Rails(rail.asked) /\ Seated(rail) /\ Resolved(rail) /\ KnowsOwn(rail, joined)
      /\ queue \in Seq(Updates) /\ host.dir \in [Panes -> Dirs] /\ Len(rail.calls) = 0
      /\ Shows(shown, rail.tabs) /\ joined \in Joins
  BY DEF NamingInv, WorldInv, RailInv, SessionInv, Hosts, KeptInv
<1>3. /\ NameInv(user) /\ Minds(rail, user) /\ (user # None => rail.mode # "force")
      /\ shown' = shown => Lists(rail, user)
  BY RailIsSound
<1>4. /\ update \in Updates /\ Fits(update)
      /\ update.kind = "tabs" => Shows(update.edition, update.tabs)
  <2>1. update = queue[1] /\ update \in Updates /\ 1 \in 1 .. Len(queue)
    BY <1>1, <1>2, AfterHead
  <2>2. Fits(queue[1])
    BY <2>1 DEF NamingInv, WorldInv, HeardInv
  <2> QED
    BY <2>1, <2>2 DEF NamingInv, KeptInv
<1> HIDE DEF update
<1>5. CASE update.kind = "tabs" /\ Handled(TabsChanged(rail, update.tabs))
  <2> DEFINE h == TabsChanged(rail, update.tabs)
  <2>1. /\ joined' \in Joins /\ joined'.panes = joined.panes
        /\ rail.own = None => joined'.tabs = update.order
        /\ rail.own # None => joined' = joined
    <3>1. update.order \in Orders
      BY <1>4, <1>5 DEF Updates, TabUpdates, PaneUpdates, DirUpdates
    <3> QED
      BY <1>1, <1>2, <1>5, <3>1 DEF All, Joins
  <2>2. /\ update.tabs \in TabLists /\ AsOrdered(update.tabs, update.order) /\ (~moved => Still(update.tabs))
        /\ shown' = update.edition /\ Shows(update.edition, update.tabs)
    BY <1>1, <1>4, <1>5 DEF Fits
  <2>3. ASSUME user # None, NEW j \in 1 .. Len(update.tabs), update.tabs[j].id = "own" PROVE update.tabs[j].name = user
    <3>1. InSight(update.edition) /\ user = host.names["own"]
      BY <2>2, <2>3 DEF Minded
    <3> QED
      BY <2>2, <2>3, <3>1 DEF Shows, Called
  <2>4. TabsFit(rail, update.tabs, user, joined')
    <3>1. rail.own = None => AsOrdered(update.tabs, joined'.tabs) /\ Placed(rail.position, joined'.panes)
      BY <1>2, <2>1, <2>2 DEF KnowsOwn
    <3>2. joined'.tabs = joined'.panes => rail.own \in {None, "own"}
      BY <1>2, <2>1 DEF KnowsOwn
    <3> QED
      BY <1>2, <2>2, <2>3, <3>1, <3>2 DEF TabsFit
  <2>5. /\ Sound(h, user, joined') /\ Resolved(h) /\ (Offered(rail) => Offered(h))
        /\ h.tabs = update.tabs /\ h.position = rail.position /\ h.mode = rail.mode /\ (rail.own # None => h.own = rail.own)
    BY <1>2, <1>3, <2>4, TabsAreSound
  <2>6. ~moved => h.tabs # <<>>
    <3>1. ~moved => Len(h.tabs) = 2
      BY <2>2, <2>5 DEF Still
    <3> HIDE DEF h
    <3> QED
      BY <3>1
  <2>7. Handled(h)
    BY <1>5
  <2> HIDE DEF h
  <2>8. update.kind # "panes"
    BY <1>5
  <2> QED
    BY <1>1, <2>1, <2>2, <2>5, <2>6, <2>7, <2>8, TakenKeeps DEF update
<1>6. CASE update.kind = "panes" /\ \E readable \in {Panes, {}} : Handled(PanesChanged(rail, update, host.dir, readable))
  <2>1. PICK readable \in {Panes, {}} : Handled(PanesChanged(rail, update, host.dir, readable))
    BY <1>6
  <2> DEFINE h == PanesChanged(rail, update, host.dir, readable)
  <2>2. /\ joined' \in Joins /\ joined'.tabs = joined.tabs
        /\ rail.own = None => joined'.panes = update.order
        /\ rail.own # None => joined' = joined
    <3>1. update.order \in Orders
      BY <1>4, <1>6 DEF Updates, TabUpdates, PaneUpdates, DirUpdates
    <3> QED
      BY <1>1, <1>2, <1>6, <3>1 DEF All, Joins
  <2>0. readable \in SUBSET Panes
    OBVIOUS
  <2>3. PanesFit(rail, update, joined')
    <3>1. rail.own = None => AsOrdered(rail.tabs, joined'.tabs) /\ Placed(update.position, joined'.panes)
      BY <1>2, <1>4, <1>6, <2>2 DEF KnowsOwn, Fits
    <3>2. joined'.tabs = joined'.panes => rail.own \in {None, "own"}
      BY <1>2, <2>2 DEF KnowsOwn
    <3> QED
      BY <1>2, <1>4, <1>6, <3>1, <3>2 DEF PanesFit, Fits
  <2>4. shown' = shown /\ KeepsName(rail, user)
    BY <1>1, <1>3, <1>6 DEF KeepsName
  <2> HIDE DEF user
  <2>5. /\ Settled(h, user, joined') /\ h.tabs = rail.tabs /\ h.mode = rail.mode
        /\ (~moved => h.own # None \/ h.position = 1)
    <3>1. rail \in Rails(rail.asked) /\ Seated(rail) /\ Resolved(rail) /\ host.dir \in [Panes -> Dirs]
      BY <1>2
    <3>2. NameInv(user) /\ KeepsName(rail, user)
      BY <1>3, <2>4
    <3> HIDE DEF h
    <3> QED
      BY <2>0, <2>3, <3>1, <3>2, PanesAreSound DEF h
  <2>6. Handled(h)
    BY <2>1
  <2> HIDE DEF h
  <2>7. Sound(h, user, joined') /\ Resolved(h) /\ Offered(h) /\ Shows(shown', h.tabs)
    BY <1>2, <2>4, <2>5 DEF Settled
  <2>8. update.kind # "tabs"
    BY <1>6
  <2> QED
    BY <1>1, <2>2, <2>5, <2>6, <2>7, <2>8, TakenKeeps DEF update, user
<1>7. CASE update.kind = "dir" /\ Handled(CwdChanged(rail, update.pane, update.dir))
  <2> DEFINE h == CwdChanged(rail, update.pane, update.dir)
  <2>1. update.pane \in Panes /\ update.dir \in Dirs
    BY <1>4, <1>7 DEF Updates, TabUpdates, PaneUpdates, DirUpdates
  <2>2. shown' = shown /\ joined' = joined
    BY <1>1, <1>7 DEF All
  <2>3. Sound(rail, user, joined')
    BY <1>2, <1>3, <2>2 DEF Sound, KeepsName
  <2> HIDE DEF user
  <2>4. Settled(h, user, joined') /\ h.own = rail.own /\ h.tabs = rail.tabs /\ h.position = rail.position /\ h.mode = rail.mode
    BY <1>2, <1>3, <2>1, <2>3, DirIsSound
  <2>5. Handled(h)
    BY <1>7
  <2> HIDE DEF h
  <2>6. Sound(h, user, joined') /\ Resolved(h) /\ Offered(h) /\ Shows(shown', h.tabs)
    BY <1>2, <2>2, <2>4 DEF Settled
  <2>7. update.kind # "tabs" /\ update.kind # "panes"
    BY <1>7
  <2> QED
    BY <1>1, <1>2, <2>2, <2>4, <2>5, <2>6, <2>7, TakenKeeps DEF update, user
<1> QED
  BY <1>1, <1>5, <1>6, <1>7 DEF update

\* Something happened in the session that the rail has yet to hear of.
LEMMA SessionChanges ==
  ASSUME NamingInv, host' \in Hosts, owed' = All, UNCHANGED <<queue, rail, joined, shown>>, renames' \in Seq(SentCalls),
         \A i \in 1 .. Len(renames') : \E j \in 1 .. Len(renames) : renames'[i] = renames[j],
         \/ moved' = moved /\ host'.order = host.order /\ (~moved /\ Unnamed' => Unnamed /\ renames' = renames)
         \/ moved' = TRUE,
         changes' \in {changes, changes + 1},
         \/ host'.edition = host.edition /\ host'.names["own"] = host.names["own"]
         \/ host'.edition = 0
         \/ host'.edition = changes + 1 /\ changes' = changes + 1 /\ host'.names["own"] # Default
  PROVE  NamingInv'
<1>1. WorldInv /\ KeptInv /\ moved' \in BOOLEAN
  BY DEF NamingInv, WorldInv, SessionInv
<1>2. RailInv'
  BY <1>1, RailStays
<1>3. HeardInv'
  <2>1. \A i \in 1 .. Len(queue') : \E j \in 1 .. Len(queue) : queue'[i] = queue[j]
    OBVIOUS
  <2> QED
    BY <1>1, <2>1, HeardStays DEF WorldInv
<1>4. SessionInv'
  <2>1. /\ joined \in Joins /\ queue \in Seq(Updates) /\ \A i \in 1 .. Len(renames) : OwnOnly(renames[i], moved)
        /\ moved \in BOOLEAN
    BY <1>1 DEF WorldInv, SessionInv
  <2>2. \A call : OwnOnly(call, moved) => OwnOnly(call, moved')
    BY <2>1 DEF OwnOnly
  <2>3. \A i \in 1 .. Len(renames') : OwnOnly(renames'[i], moved')
    BY <2>1, <2>2
  <2>4. owed' \in SUBSET All
    OBVIOUS
  <2> QED
    BY <1>1, <2>1, <2>3, <2>4 DEF SessionInv
<1>5. ToldInv'
  <2>1. \A kind : Awaits(kind) => Awaits(kind)'
    BY <1>1 DEF Awaits, WorldInv, SessionInv
  <2> QED
    BY <1>1, <2>1, StillAwaits
<1>6. KeptInv'
  BY <1>1, KeptStays
<1> QED
  BY <1>2, <1>3, <1>4, <1>5, <1>6 DEF NamingInv, WorldInv

LEMMA RenameTabKeeps ==
  ASSUME NamingInv, RenameTab PROVE NamingInv'
<1>1. /\ renames # <<>> /\ renames' = Tail(renames)
      /\ host' = [host EXCEPT !.names[Head(renames).tab] = Head(renames).name,
                              !.edition = IF Head(renames).tab = "own" THEN 0 ELSE @]
      /\ owed' = All /\ UNCHANGED <<queue, rail, changes, joined, shown, moved>>
  BY DEF RenameTab
<1>2. /\ host \in Hosts /\ renames \in Seq(SentCalls) /\ moved \in BOOLEAN
      /\ \A i \in 1 .. Len(renames) : OwnOnly(renames[i], moved)
  BY DEF NamingInv, WorldInv, SessionInv
<1>3. /\ Head(renames) = renames[1] /\ 1 \in 1 .. Len(renames) /\ renames' \in Seq(SentCalls)
      /\ \A i \in 1 .. Len(renames') : i + 1 \in 1 .. Len(renames) /\ renames'[i] = renames[i + 1]
      /\ Head(renames) \in SentCalls
  BY <1>1, <1>2, AfterHead
<1> DEFINE tab == Head(renames).tab
           name == Head(renames).name
           edition == IF tab = "own" THEN 0 ELSE host.edition
<1>4. tab \in Tabs /\ name \in Given /\ (~moved => tab = "own")
  <2>1. OwnOnly(Head(renames), moved)
    BY <1>2, <1>3
  <2> QED
    BY <1>3, <2>1 DEF SentCalls, OwnOnly
<1>5. host' = [host EXCEPT !.names[tab] = name, !.edition = edition]
  BY <1>1
<1>6. edition \in Nat /\ (tab = "own" => edition = 0) /\ (tab # "own" => edition = host.edition)
  BY <1>2 DEF Hosts
<1> HIDE DEF tab, name, edition
<1>7. host' \in Hosts /\ host'.order = host.order /\ host'.edition = edition
  <2>1. name \in Names
    BY <1>4 DEF Names
  <2> QED
    BY <1>2, <1>4, <1>5, <1>6, <2>1 DEF Hosts
<1>8. host'.names["own"] = IF tab = "own" THEN name ELSE host.names["own"]
  BY <1>2, <1>4, <1>5 DEF Hosts, Tabs
<1>9. ~moved => ~Unnamed'
  <2>1. name # Default
    BY <1>4 DEF Given, Default
  <2> QED
    BY <1>4, <1>8, <2>1 DEF Unnamed
<1> QED
  BY <1>1, <1>3, <1>6, <1>7, <1>8, <1>9, SessionChanges

LEMMA UserRenamesKeeps ==
  ASSUME NamingInv, UserRenames PROVE NamingInv'
<1>1. PICK name \in {"notes", "x"} : host' = [host EXCEPT !.names["own"] = name, !.edition = changes']
  BY DEF UserRenames
<1>2. changes' = changes + 1 /\ owed' = All /\ UNCHANGED <<queue, rail, renames, joined, shown, moved>>
  BY DEF UserRenames, Happens
<1>3. host \in Hosts /\ renames \in Seq(SentCalls) /\ changes \in Nat
  BY DEF NamingInv, WorldInv, SessionInv, KeptInv
<1>4. host' \in Hosts /\ host'.order = host.order /\ host'.names["own"] = name /\ host'.edition = changes + 1
  <2>1. name \in Names /\ "own" \in Tabs /\ changes + 1 \in Nat
    BY <1>3 DEF Names, Given, Tabs
  <2> QED
    BY <1>1, <1>2, <1>3, <2>1 DEF Hosts
<1>5. ~Unnamed' /\ name # Default
  BY <1>4 DEF Unnamed, Default
<1> QED
  BY <1>2, <1>3, <1>4, <1>5, SessionChanges

\* A tab, a pane, the focus or a title: the names of the tabs are as they were.
LEMMA HostMovesKeeps ==
  ASSUME NamingInv, TabsMove \/ PaneMoves \/ FocusMoves \/ TitleChanges PROVE NamingInv'
<1>1. host \in Hosts /\ renames \in Seq(SentCalls)
  BY DEF NamingInv, WorldInv, SessionInv
<1>2. owed' = All /\ changes' = changes + 1 /\ UNCHANGED <<queue, rail, renames, joined, shown>>
  <2> QED
    BY DEF TabsMove, PaneMoves, FocusMoves, TitleChanges, Happens
<1>3. /\ host' \in Hosts /\ host'.names = host.names /\ host'.edition = host.edition
      /\ (moved' = moved /\ host'.order = host.order) \/ moved' = TRUE
  <2>1. CASE TabsMove
    <3>1. PICK order \in Orders : host' = [host EXCEPT !.order = order]
      BY <2>1 DEF TabsMove
    <3>2. host' \in Hosts /\ host'.names = host.names /\ host'.edition = host.edition
      BY <1>1, <3>1 DEF Hosts
    <3> QED
      BY <2>1, <3>2 DEF TabsMove
  <2>2. CASE PaneMoves
    <3>1. PICK tab \in Tabs : host' = [host EXCEPT !.seat[2] = tab, !.focused = 1]
      BY <2>2 DEF PaneMoves, Tabs
    <3> DEFINE seats == [host.seat EXCEPT ![2] = tab]
    <3>2. host' = [host EXCEPT !.seat = seats, !.focused = 1]
      BY <3>1
    <3>3. seats \in [Panes -> Tabs] /\ 1 \in Panes
      BY <1>1 DEF Hosts, Panes
    <3> HIDE DEF seats
    <3>4. host' \in Hosts /\ host'.names = host.names /\ host'.edition = host.edition /\ host'.order = host.order
      BY <1>1, <3>2, <3>3 DEF Hosts
    <3> QED
      BY <2>2, <3>4 DEF PaneMoves
  <2>3. CASE FocusMoves
    <3>1. PICK p \in Panes : host' = [host EXCEPT !.focused = p]
      BY <2>3 DEF FocusMoves, Panes
    <3>2. host' \in Hosts /\ host'.names = host.names /\ host'.edition = host.edition /\ host'.order = host.order
      BY <1>1, <3>1 DEF Hosts
    <3> QED
      BY <2>3, <3>2 DEF FocusMoves
  <2>4. CASE TitleChanges
    <3>1. host' = [host EXCEPT !.title[1] = "vim"] /\ "vim" \in Titles /\ moved' = moved
      BY <2>4 DEF TitleChanges, Titles
    <3>2. host' \in Hosts /\ host'.names = host.names /\ host'.edition = host.edition /\ host'.order = host.order
      BY <1>1, <3>1 DEF Hosts
    <3> QED
      BY <3>1, <3>2
  <2> QED
    BY <2>1, <2>2, <2>3, <2>4
<1>4. Unnamed' = Unnamed
  BY <1>3 DEF Unnamed
<1> QED
  BY <1>1, <1>2, <1>3, <1>4, SessionChanges

LEMMA ChangesDirKeeps ==
  ASSUME NamingInv, ChangesDir PROVE NamingInv'
<1>1. PICK p \in {1, 2} : /\ host' = [host EXCEPT !.dir[p] = NextDir[p]]
                          /\ queue' = Append(queue, [kind |-> "dir", pane |-> p, dir |-> NextDir[p]])
  BY DEF ChangesDir
<1>2. changes' = changes + 1 /\ UNCHANGED <<owed, rail, renames, joined, shown, moved>>
  BY DEF ChangesDir, Happens
<1>3. /\ WorldInv /\ host \in Hosts /\ queue \in Seq(Updates) /\ Len(queue) \in Nat
  BY LenProperties DEF NamingInv, WorldInv, SessionInv
<1> DEFINE path == NextDir[p]
           dirs == [host.dir EXCEPT ![p] = path]
           update == [kind |-> "dir", pane |-> p, dir |-> path]
<1>4. path \in Dirs /\ p \in Panes
  BY DEF NextDir, Dirs, Panes
<1>5. host' = [host EXCEPT !.dir = dirs]
  BY <1>1
<1>6. queue' = Append(queue, update)
  BY <1>1
<1> HIDE DEF path
<1>7. dirs \in [Panes -> Dirs]
  BY <1>3, <1>4 DEF Hosts
<1> HIDE DEF dirs
<1>8. host' \in Hosts /\ host'.names = host.names /\ host'.order = host.order /\ host'.edition = host.edition
  BY <1>3, <1>5, <1>7 DEF Hosts
<1>9. update \in Updates /\ update.kind = "dir"
  BY <1>4 DEF Updates, DirUpdates
<1> HIDE DEF update
<1>10. /\ queue' \in Seq(Updates) /\ Len(queue') = Len(queue) + 1
       /\ \A i \in 1 .. Len(queue) : queue'[i] = queue[i]
       /\ queue'[Len(queue) + 1] = update
  BY <1>3, <1>6, <1>9, AppendProperties
<1>11. ASSUME NEW i \in 1 .. Len(queue')
       PROVE  queue'[i] = update \/ (i \in 1 .. Len(queue) /\ queue'[i] = queue[i])
  BY <1>3, <1>10
<1>12. RailInv'
  BY <1>2, <1>3, <1>8, RailStays DEF Unnamed
<1>13. HeardInv'
  <2>1. \A i \in 1 .. Len(queue') : (\E j \in 1 .. Len(queue) : queue'[i] = queue[j]) \/ Fits(queue[i])'
    BY <1>9, <1>11 DEF Fits
  <2> QED
    BY <1>2, <1>3, <1>8, <2>1, HeardStays DEF WorldInv, Unnamed
<1>14. ToldInv'
  <2>1. ASSUME NEW kind, Awaits(kind) PROVE Awaits(kind)'
    <3>1. \A i \in 1 .. Len(queue) : i \in 1 .. Len(queue') /\ queue'[i] = queue[i]
      BY <1>3, <1>10
    <3> QED
      BY <1>2, <2>1, <3>1 DEF Awaits
  <2> QED
    BY <1>2, <1>3, <1>8, <2>1, StillAwaits
<1>15. SessionInv'
  BY <1>2, <1>3, <1>8, <1>10 DEF WorldInv, SessionInv
<1>16. KeptInv'
  <2>1. \A i \in 1 .. Len(queue') : queue'[i].kind = "tabs" => \E j \in 1 .. Len(queue) : queue'[i] = queue[j]
    BY <1>9, <1>11
  <2> QED
    BY <1>2, <1>8, <2>1, KeptStays DEF NamingInv
<1> QED
  BY <1>12, <1>13, <1>14, <1>15, <1>16 DEF NamingInv, WorldInv

\* The rail handled what is not an update of the session: a report, or its configuration.
LEMMA HeardKeeps ==
  ASSUME NamingInv, NEW h, Sound(h, Minded(shown', h.mode), joined'), Resolved(h), Offered(rail) => Offered(h),
         h.own = rail.own, h.tabs = rail.tabs, h.position = rail.position,
         Handled(h), UNCHANGED <<host, owed, queue, joined, shown, moved>>, changes' = changes + 1
  PROVE  NamingInv'
<1>1. WorldInv /\ KeptInv /\ host \in Hosts
  BY DEF NamingInv, WorldInv, SessionInv
<1>2. /\ RailInv' /\ rail'.own = h.own /\ rail'.tabs = h.tabs /\ rail'.position = h.position
      /\ renames' \in Seq(SentCalls)
      /\ \A i \in 1 .. Len(renames') : OwnOnly(renames'[i], moved')
      /\ \A i \in 1 .. Len(renames') :
           (\E j \in 1 .. Len(renames) : renames'[i] = renames[j]) \/ SentRight(renames[i])'
  <2>1. shown' \in 0 .. changes'
    BY <1>1 DEF KeptInv, Shows
  <2> QED
    BY <2>1, HandledIs
<1>3. \A i \in 1 .. Len(queue') : \E j \in 1 .. Len(queue) : queue'[i] = queue[j]
  OBVIOUS
<1>4. HeardInv'
  BY <1>1, <1>3, HeardStays DEF WorldInv, Unnamed
<1>5. ToldInv'
  <2>1. \A kind : Awaits(kind) => Awaits(kind)'
    BY DEF Awaits
  <2> QED
    BY <1>1, <1>2, <2>1 DEF WorldInv, ToldInv
<1>6. SessionInv'
  BY <1>1, <1>2 DEF WorldInv, SessionInv
<1>7. KeptInv'
  BY <1>1, <1>2, <1>3, KeptStays
<1> QED
  BY <1>2, <1>4, <1>5, <1>6, <1>7 DEF NamingInv, WorldInv

LEMMA AgentReportsKeeps ==
  ASSUME NamingInv, AgentReports PROVE NamingInv'
<1> DEFINE h == StatusPipe(rail, 2, "radar")
           user == Minded(shown', rail.mode)
<1>1. Handled(h) /\ changes' = changes + 1 /\ UNCHANGED <<host, owed, queue, joined, shown, moved>>
  BY DEF AgentReports, Happens
<1>2. Sound(rail, user, joined') /\ NameInv(user) /\ Resolved(rail)
  BY <1>1, RailIsSound DEF NamingInv, WorldInv, RailInv, Sound, KeepsName
<1>3. 2 \in Panes /\ "radar" \in Repos
  BY DEF Panes, Repos
<1>4. /\ Sound(h, user, joined') /\ Resolved(h) /\ (Offered(rail) => Offered(h))
      /\ h.own = rail.own /\ h.tabs = rail.tabs /\ h.position = rail.position /\ h.mode = rail.mode
  BY <1>2, <1>3, RepoIsSound
<1> HIDE DEF h
<1> QED
  BY <1>1, <1>4, HeardKeeps

\* `force' may take a name of the user's, which is not minded then.
LEMMA ConfiguresKeeps ==
  ASSUME NamingInv, Configures PROVE NamingInv'
<1>1. PICK mode \in Modes : Handled(ConfigPipe(rail, mode))
  BY DEF Configures
<1>2. changes' = changes + 1 /\ UNCHANGED <<host, owed, queue, joined, shown, moved>>
  BY DEF Configures, Happens
<1> DEFINE h == ConfigPipe(rail, mode)
           user == Minded(shown', mode)
<1>3. /\ NameInv(user) /\ Minds(rail, user) /\ Lists(rail, user) /\ (user # None => mode # "force")
      /\ rail \in Rails(rail.asked) /\ KnowsOwn(rail, joined') /\ Seated(rail) /\ Resolved(rail)
  BY <1>2, RailIsSound DEF NamingInv, WorldInv, RailInv
<1>4. /\ Settled(h, user, joined') /\ h.own = rail.own /\ h.tabs = rail.tabs /\ h.position = rail.position
      /\ h.mode = mode
  BY <1>3, ModeIsSound
<1>5. Handled(h)
  BY <1>1
<1> HIDE DEF h
<1>6. Sound(h, user, joined') /\ Resolved(h) /\ Offered(h)
  BY <1>4 DEF Settled
<1> QED
  BY <1>2, <1>4, <1>5, <1>6, HeardKeeps

LEMMA ReloadsKeeps ==
  ASSUME NamingInv, Reloads PROVE NamingInv'
<1>1. /\ rail' = FreshRail(rail.repo) /\ queue' = <<>> /\ owed' = All /\ changes' = changes + 1
      /\ joined' = Unheard /\ shown' = 0 /\ UNCHANGED <<host, renames, moved>>
  BY DEF Reloads, Happens
<1>2. WorldInv /\ host \in Hosts
  BY DEF NamingInv, WorldInv, SessionInv
<1>3. /\ rail' \in Rails({}) /\ rail'.asked = {} /\ rail'.own = None /\ rail'.position = 0 /\ rail'.tabs = <<>>
      /\ rail'.applied = None /\ rail'.calls = <<>> /\ rail'.mode = "managed"
  <2>1. rail.repo \in [Panes -> Repos]
    BY <1>2, RailFields DEF WorldInv, RailInv
  <2> QED
    BY <1>1, <2>1, FreshIs
<1>4. Len(queue') = 0 /\ queue' \in Seq(Updates)
  BY <1>1
<1>5. RailInv'
  <2>1. KnowsOwn(rail, joined)'
    BY <1>1, <1>3, UnheardIs DEF KnowsOwn, AsOrdered, Placed
  <2>2. Len(rail'.calls) = 0
    BY <1>3
  <2> QED
    BY <1>3, <2>1, <2>2 DEF RailInv, Seated, Resolved, Offered
<1>6. SessionInv'
  BY <1>1, <1>2, <1>4 DEF WorldInv, SessionInv, Joins, Unheard
<1>7. ToldInv'
  BY <1>1, <1>2 DEF WorldInv, ToldInv, Awaits, All
<1>8. HeardInv'
  BY <1>4 DEF HeardInv
<1>9. KeptInv'
  <2>1. Shows(shown, rail.tabs)'
    BY <1>1 DEF NamingInv, KeptInv, Shows, InSight
  <2> QED
    BY <1>1, <1>2, <1>4, <2>1, KeptStays DEF NamingInv
<1> QED
  BY <1>5, <1>6, <1>7, <1>8, <1>9 DEF NamingInv, WorldInv

LEMMA NamingNextKeeps ==
  ASSUME NamingInv, NamingAssumption, [NamingNext]_namingVars PROVE NamingInv'
<1>1. CASE UNCHANGED namingVars
  <2>1. UNCHANGED <<host, owed, queue, rail, renames, changes, joined, shown, moved>> /\ WorldInv /\ KeptInv
    BY <1>1 DEF namingVars, NamingInv
  <2>2. RailInv'
    BY <2>1, RailStays DEF Unnamed
  <2>3. SessionInv'
    BY <2>1 DEF WorldInv, SessionInv
  <2>4. HeardInv'
    BY <2>1, HeardStays DEF WorldInv, Unnamed
  <2>5. ToldInv'
    BY <2>1 DEF WorldInv, ToldInv, Awaits
  <2>6. KeptInv'
    BY <2>1, KeptStays DEF WorldInv, SessionInv
  <2> QED
    BY <2>2, <2>3, <2>4, <2>5, <2>6 DEF NamingInv, WorldInv
<1>2. CASE NamingNext
  BY <1>2, ReportKeeps, DeliverKeeps, RenameTabKeeps, UserRenamesKeeps, HostMovesKeeps, ChangesDirKeeps,
     AgentReportsKeeps, ConfiguresKeeps, ReloadsKeeps DEF NamingNext
<1> QED
  BY <1>1, <1>2

LEMMA NamingIsKept == NamingSpec => []NamingInv
<1>1. NamingInv /\ [NamingNext]_namingVars => NamingInv'
  BY NamingAssumption, NamingNextKeeps
<1> QED
  BY NamingStarts, <1>1, PTL DEF NamingSpec

\* "No instance ever needs write authority over a peer's name": no call is for
\* another tab than the rail's own, whenever tabs move, unless the place and the
\* tabs it was found by were of two arrangements (RadarState::resolve_naming_tab).
THEOREM OnlyOwnTabCorrect == NamingSpec => []OnlyOwnTab
<1>1. NamingInv => OnlyOwnTab
  <2>1. SUFFICES ASSUME NamingInv PROVE OnlyOwnTab
    OBVIOUS
  <2>2. renames \in Seq(SentCalls) /\ \A i \in 1 .. Len(renames) : OwnOnly(renames[i], moved)
    BY <2>1 DEF NamingInv, WorldInv, SessionInv
  <2>3. DOMAIN renames = 1 .. Len(renames)
    BY <2>2, LenProperties
  <2> QED
    BY <2>2, <2>3 DEF OnlyOwnTab, OwnOnly
<1> QED
  BY <1>1, NamingIsKept, PTL

\* A name of the user's is taken by no call that was made once the rail was shown
\* it, outside `force' and but for a name the rail had given, whatever overtakes
\* whatever and wherever tabs and panes are taken (TabNamer::rename).
THEOREM SeenNameIsKeptCorrect == NamingSpec => []SeenNameIsKept
<1>1. NamingInv => SeenNameIsKept
  <2>1. SUFFICES ASSUME NamingInv PROVE SeenNameIsKept
    OBVIOUS
  <2>2. DOMAIN renames = 1 .. Len(renames) /\ \A i \in 1 .. Len(renames) : SentRight(renames[i])
    BY <2>1, LenProperties DEF NamingInv, WorldInv, SessionInv, KeptInv
  <2> QED
    BY <2>2 DEF SeenNameIsKept, SentRight, InSight
<1> QED
  BY <1>1, NamingIsKept, PTL

\* Once everything is told and done, a tab that stayed where it was does not keep
\* the host's default name while a pane of it offers a better one (tabs_changed,
\* panes_changed, cwd_changed, resolve_cwd, status_pipe, config_pipe).
THEOREM NamedOnceQuietCorrect == NamingSpec => []NamedOnceQuiet
<1>1. NamingInv => NamedOnceQuiet
  <2>1. SUFFICES ASSUME NamingInv, Quiet, ~moved, rail.mode # "off", host.names["own"] = Default
                 PROVE  ComputedName(TabFacts(rail, PlaceOf(rail, "own"))) = None
    BY DEF NamedOnceQuiet
  <2>2. owed = {} /\ Len(queue) = 0 /\ renames = <<>>
    BY <2>1 DEF Quiet
  <2>3. \A kind : ~Awaits(kind)
    BY <2>2 DEF Awaits
  <2>4. rail.tabs # <<>> /\ (rail.own # None \/ rail.position = 1)
    BY <2>1, <2>3 DEF NamingInv, WorldInv, ToldInv
  <2>5. /\ Seated(rail) /\ Resolved(rail) /\ Offered(rail) /\ rail.calls = <<>> /\ rail.tabs \in TabLists
    BY <2>1, <2>2, RailFields DEF NamingInv, WorldInv, RailInv
  <2>6. rail.own # None
    BY <2>1, <2>4, <2>5 DEF Resolved
  <2>7. Still(rail.tabs)
    BY <2>1, <2>4, <2>5 DEF Seated
  <2>8. PlaceOf(rail, "own") = 1
    BY <2>5, <2>7, StillPlace
  <2> QED
    BY <2>1, <2>5, <2>6, <2>8 DEF Offered, Unnamed
<1> QED
  BY <1>1, NamingIsKept, PTL
=============================================================================
