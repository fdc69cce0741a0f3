------------------------------- MODULE Installer -------------------------------
(* `zj-radar setup` and `zj-radar update`: the files the command line shares    *)
(* with the user (crates/cli/src/setup, crates/cli/src/update.rs).              *)
(*                                                                              *)
(* Every file operation is a step of its own, so that the process can be killed *)
(* or fail between any two of them: a backup is a copy (truncate, then write),  *)
(* everything else an atomic rename or an unlink. A call of `setup` reads what  *)
(* it edits before its first step; `update` is a sequence of such calls made    *)
(* through the binary it has just replaced. One process runs at a time, and the *)
(* user edits files between runs. A declined prompt and a dry run write nothing *)
(* and are left out, a symlinked (Nix) file other than config.kdl too.          *)
EXTENDS Naturals, SequencesExt, FiniteSets

CONSTANTS Bridges,     \* the vendored bridge files of one agent (opencode has a pair)
          Slot,        \* the notify slot of Codex's config.toml
          Texts,       \* what a user may write at one of those paths
          MaxVersion   \* bound: releases 1 .. MaxVersion
\* "rail" stands for the sidebar among the things that can be uninstalled
ASSUME InstallerAssumption ==
    IsFiniteSet(Bridges) /\ Slot \notin Bridges /\ "rail" \notin Bridges \cup {Slot} /\ MaxVersion \in Nat

VARIABLES cli,         \* the version of the installed binary
          latest,      \* the newest release published
          wasm,        \* the version at the stable wasm path, 0 when there is none
          file,        \* what is at each path
          bak,         \* what is in the .zj-radar.bak beside it
          mine,        \* history: what the user last wanted at each path
          alias,       \* config.kdl: "nix" (a symlink), "nofile", "none" (no radar alias),
                       \* "removed" (an uninstall took it), "ours" (the managed block),
                       \* the user's own that "loads" the stable wasm path, or "elsewhere"
          layout,      \* the layout: "absent", "plain" (the user's), "odd" (inject refuses
                       \* its shape), "injected" (the rail spliced in), "whole" (written by
                       \* setup), "byhand" (the user's, naming the alias)
          job          \* the running process

vars == <<cli, latest, wasm, file, bak, mine, alias, layout, job>>
shared == <<cli, latest, wasm, file, bak, mine, alias, layout>>

Targets == Bridges \cup {Slot}

Absent == [by |-> "none", v |-> 0]
Empty == [by |-> "nobody", v |-> 0]
Text(u) == [by |-> "user", v |-> u]
Ours(v) == [by |-> "ours", v |-> v]
\* the notify line is the same in every release
Embedded(t) == Ours(IF t = Slot THEN 0 ELSE cli)

\* what is run, the calls and file operations left, whether none failed, whether
\* the binary was replaced, the release asked for and the targets of an uninstall
Idle == [does |-> "nothing", calls |-> <<>>, steps |-> <<>>, clean |-> TRUE, moved |-> FALSE,
         target |-> 0, of |-> {}]

------------------------------------------------------------------------------
(* The decisions about one bridge file or the notify slot.                      *)

\* only a file that carries the marker is ours; an empty one is nobody's
Foreign(t, c) == c.by = "user" \/ (t # Slot /\ c.by = "nobody")

PlanInstall(t, force) ==
    CASE file[t] = Embedded(t) -> "current"
      [] file[t].by = "user" /\ ~force -> "refuse"
      [] OTHER -> "write"

NeverKept(t) == FALSE
\* the backup holds the only copy of what --force replaced: it is not made again
KeepsBackup(t) == file[t].by = "ours" /\ Foreign(t, bak[t])

Install(t) == [op |-> "replace", at |-> t, new |-> Embedded(t)]
\* an install is refused as a unit
Wiring(ts, force) ==
    LET towrite == {t \in ts : PlanInstall(t, force) = "write"}
    IN IF \E t \in ts : PlanInstall(t, force) = "refuse" THEN <<[op |-> "refuse"]>>
       ELSE [i \in 1 .. Cardinality(towrite) |-> Install(SetToSeq(towrite)[i])]

\* the slot gets the notifier back that --force replaced
Unwire(t) ==
    CASE t = Slot /\ Foreign(t, bak[t]) -> [op |-> "put", at |-> t, new |-> bak[t]]
      [] t = Slot /\ ~Foreign(t, bak[t]) -> [op |-> "replace", at |-> t, new |-> Absent]
      [] OTHER -> [op |-> "remove", at |-> t]

Unwiring(ts) ==
    LET gone == {t \in ts : file[t].by = "ours"}
    IN [i \in 1 .. Cardinality(gone) |-> Unwire(SetToSeq(gone)[i])]

------------------------------------------------------------------------------
(* The decisions about config.kdl, the wasm and the layout.                     *)

AliasThenWasm == <<[op |-> "alias"], [op |-> "stage"]>>
\* the wasm is in place before the alias that names it
Adopt == <<[op |-> "stage"], [op |-> "alias"]>>

\* the user's own alias, on the stable path ("loads") or on another
HandOwned == alias \in {"loads", "elsewhere"}

\* setup_path and the outcome of edit_zellij; `inject` is the consent to the layout step
SetupZellij(source, force, inject) ==
    LET rail == IF inject THEN <<[op |-> "layout"]>> ELSE <<>>
        fetch == <<[op |-> "download"]>>
    IN CASE alias = "nix" -> IF source THEN fetch \o <<[op |-> "refresh"]>> ELSE <<>>
         [] alias # "nix" /\ ~source -> IF inject THEN rail ELSE <<[op |-> "refuse"]>>
         [] alias = "ours" /\ source -> fetch \o <<[op |-> "refresh"]>> \o rail
         [] HandOwned /\ source /\ ~force ->
                fetch \o IF alias = "loads" THEN <<[op |-> "refresh"]>> \o rail ELSE <<[op |-> "refuse"]>>
         [] OTHER -> fetch \o Adopt \o rail

UnsetupWithAlias == IF alias = "ours" THEN <<[op |-> "unalias"], [op |-> "unlayout"]>> ELSE <<>>
\* the alias goes first, and the layout is looked at whether or not there was one
UnsetupZellij ==
    (IF alias = "ours" THEN <<[op |-> "unalias"]>> ELSE <<>>) \o <<[op |-> "unlayout"]>>


\* the wasm of the release the call is pinned to, else the binary's own
DownloadVersion == IF job.target # 0 THEN job.target ELSE cli

LayoutAfter == CASE layout = "absent" -> "whole" [] layout = "plain" -> "injected" [] OTHER -> layout
LayoutBefore == CASE layout = "whole" -> "absent" [] layout = "injected" -> "plain" [] OTHER -> layout

------------------------------------------------------------------------------
(* Calls, and the steps of the current one.                                     *)

\* an agent is wired when one of its files is ours
Wired(ts) == \E t \in ts : file[t].by = "ours"
Call(what, ts, force) == [what |-> what, ts |-> ts, force |-> force, inject |-> FALSE]
When(needed, call) == IF needed THEN <<call>> ELSE <<>>
Rewire == When(Wired(Bridges), Call("wire", Bridges, FALSE)) \o When(Wired({Slot}), Call("wire", {Slot}, FALSE))

Planned(c) ==
    CASE c.what = "wire" -> Wiring(c.ts, c.force)
      [] c.what = "unwire" -> Unwiring(c.ts)
      [] c.what = "zellij" -> SetupZellij(TRUE, c.force, c.inject)
      [] c.what = "rail" -> SetupZellij(FALSE, c.force, c.inject)
      [] c.what = "unzellij" -> UnsetupZellij
      [] c.what = "self" -> <<[op |-> "self"]>>
      [] OTHER -> <<>>

Plan ==
    /\ job.steps = <<>> /\ job.calls # <<>>
    /\ LET c == Head(job.calls) IN
       job' = [job EXCEPT !.steps = Planned(c),
                          !.calls = (IF c.what = "rewire" THEN Rewire ELSE <<>>) \o Tail(job.calls)]
    /\ UNCHANGED shared

Then(steps) == job' = [job EXCEPT !.steps = steps \o Tail(job.steps)]
Now(op) == job.steps # <<>> /\ Head(job.steps).op = op
At == Head(job.steps).at

\* write_bridge, backup_then_write: the copy begins by truncating the backup
Replace ==
    /\ Now("replace")
    /\ LET put == [op |-> "put", at |-> At, new |-> Head(job.steps).new] IN
       IF KeepsBackup(At) \/ (At # Slot /\ file[At] = Absent)
       THEN Then(<<put>>) /\ UNCHANGED bak
       ELSE Then(<<[op |-> "copy", at |-> At], put>>) /\ bak' = [bak EXCEPT ![At] = Empty]
    /\ UNCHANGED <<cli, latest, wasm, file, mine, alias, layout>>

Copy ==
    /\ Now("copy") /\ Then(<<>>)
    /\ bak' = [bak EXCEPT ![At] = file[At]]
    /\ UNCHANGED <<cli, latest, wasm, file, mine, alias, layout>>

Put ==
    /\ Now("put") /\ Then(<<>>)
    /\ file' = [file EXCEPT ![At] = Head(job.steps).new]
    /\ UNCHANGED <<cli, latest, wasm, bak, mine, alias, layout>>

Unlink ==
    /\ Now("remove") /\ Then(<<[op |-> "unback", at |-> At]>>)
    /\ file' = [file EXCEPT ![At] = Absent]
    /\ UNCHANGED <<cli, latest, wasm, bak, mine, alias, layout>>

\* the restore point goes too when it is ours
BackupAfter(t) == IF bak[t].by = "ours" THEN Absent ELSE bak[t]
RemoveBackup ==
    /\ Now("unback") /\ Then(<<>>)
    /\ bak' = [bak EXCEPT ![At] = BackupAfter(At)]
    /\ UNCHANGED <<cli, latest, wasm, file, mine, alias, layout>>

Download == Now("download") /\ Then(<<>>) /\ UNCHANGED shared

\* the copy before a config write, and the refresh when there is nothing to write
InstallWasm ==
    /\ Now("stage") \/ Now("refresh")
    /\ Then(<<>>) /\ wasm' = DownloadVersion
    /\ UNCHANGED <<cli, latest, file, bak, mine, alias, layout>>

WriteAlias ==
    /\ Now("alias") \/ Now("unalias")
    /\ Then(<<>>) /\ alias' = IF Now("alias") THEN "ours" ELSE "removed"
    /\ UNCHANGED <<cli, latest, wasm, file, bak, mine, layout>>

WriteLayout ==
    /\ Now("layout") /\ layout # "odd"
    /\ Then(<<>>) /\ layout' = LayoutAfter
    /\ UNCHANGED <<cli, latest, wasm, file, bak, mine, alias>>

RestoreLayout ==
    /\ Now("unlayout") /\ Then(<<>>) /\ layout' = LayoutBefore
    /\ UNCHANGED <<cli, latest, wasm, file, bak, mine, alias>>

\* the verified download is renamed over the running binary
SelfReplace ==
    /\ Now("self") /\ cli' = job.target
    /\ job' = [job EXCEPT !.steps = Tail(job.steps), !.moved = TRUE]
    /\ UNCHANGED <<latest, wasm, file, bak, mine, alias, layout>>

\* What the rest of a call does when one of its steps fails: a removal goes on
\* with the next file, a refresh with the layout, everything else returns.
Remaining(op, rest) ==
    IF op \in {"remove", "unback", "refresh", "layout"} THEN rest ELSE <<>>

\* a failed step is reported; `update` ends with the binary it could not replace
Fail ==
    /\ job.steps # <<>>
    /\ LET op == Head(job.steps).op IN
       job' = [job EXCEPT !.steps = Remaining(op, Tail(job.steps)), !.clean = FALSE,
                          !.calls = IF op = "self" THEN <<>> ELSE job.calls]
    /\ UNCHANGED shared

Finish == job.does # "nothing" /\ job.calls = <<>> /\ job.steps = <<>> /\ job' = Idle /\ UNCHANGED shared
Crash == job.does # "nothing" /\ job' = Idle /\ UNCHANGED shared

------------------------------------------------------------------------------
(* What the user runs.                                                          *)

Run(does, calls, target, of) ==
    /\ job = Idle
    /\ job' = [Idle EXCEPT !.does = does, !.calls = calls, !.target = target, !.of = of]
    /\ UNCHANGED shared

\* opencode's pair and codex --legacy-notify
Producers == {Bridges, {Slot}}
SetupAgents(ts) == \E force \in BOOLEAN : Run("install", <<Call("wire", ts, force)>>, 0, {})
UninstallAgents(ts) == Run("uninstall", <<Call("unwire", ts, FALSE)>>, 0, ts)
SetupRail ==
    \E what \in {"zellij", "rail"}, force, inject \in BOOLEAN :
        Run("install", <<[Call(what, {}, force) EXCEPT !.inject = inject]>>, 0, {})
UninstallRail == Run("uninstall", <<Call("unzellij", {}, FALSE)>>, 0, {"rail"})

\* a missing wasm is a `setup` job; one that cannot be compared counts as stale
WasmStale(target, unknown) == wasm # target \/ unknown
NeedsRefresh(target, unknown) == wasm # 0 /\ WasmStale(target, unknown)
RewireFirst(target, unknown) ==
    When(target > cli, Call("rewire", {}, FALSE)) \o When(target > cli, Call("self", {}, FALSE))
        \o When(NeedsRefresh(target, unknown), Call("zellij", {}, FALSE))
UpdateCalls(target, unknown) ==
    When(target > cli, Call("self", {}, FALSE)) \o When(NeedsRefresh(target, unknown), Call("zellij", {}, FALSE))
        \o When(target > cli, Call("rewire", {}, FALSE))

\* forward only: to the latest release, or to a pin that is not older than the binary
Update ==
    \E target \in cli .. latest, unknown \in BOOLEAN :
        Run("update", UpdateCalls(target, unknown), target, {})

------------------------------------------------------------------------------
(* The user's own hands, and the project's releases.                            *)

UserWrites(t) ==
    /\ job = Idle
    /\ \E c \in {Text(u) : u \in Texts} \cup (IF t = Slot THEN {} ELSE {Empty}) :
          /\ file' = [file EXCEPT ![t] = c]
          /\ mine' = [mine EXCEPT ![t] = c]
    /\ UNCHANGED <<cli, latest, wasm, bak, alias, layout, job>>

\* removing our bridge says nothing of the file it replaced; removing the notify line does
UserRemoves(t) ==
    /\ job = Idle /\ file[t] # Absent
    /\ file' = [file EXCEPT ![t] = Absent]
    /\ mine' = [mine EXCEPT ![t] = IF file[t].by = "ours" /\ t # Slot THEN @ ELSE Absent]
    /\ UNCHANGED <<cli, latest, wasm, bak, alias, layout, job>>

\* the `mv` the uninstall names
UserRestores(t) ==
    /\ job = Idle /\ t # Slot /\ bak[t].by = "user"
    /\ file' = [file EXCEPT ![t] = bak[t]] /\ bak' = [bak EXCEPT ![t] = Absent]
    /\ mine' = [mine EXCEPT ![t] = bak[t]]
    /\ UNCHANGED <<cli, latest, wasm, alias, layout, job>>

UserEditsConfig ==
    /\ job = Idle
    /\ \/ alias \in {"nofile", "none", "removed"} /\ alias' \in {"none", "loads", "elsewhere"} /\ UNCHANGED layout
       \/ alias = "ours" /\ alias' = "none" /\ UNCHANGED layout
       \/ layout = "whole" /\ layout' = "byhand" /\ UNCHANGED alias
    /\ UNCHANGED <<cli, latest, wasm, file, bak, mine, job>>

Release == latest < MaxVersion /\ latest' = latest + 1 /\ UNCHANGED <<cli, wasm, file, bak, mine, alias, layout, job>>

Init ==
    /\ cli = 1 /\ latest = 1 /\ wasm = 0
    /\ file = [t \in Targets |-> Absent] /\ bak = file /\ mine = file
    /\ alias \in {"nix", "nofile", "none", "loads"} /\ layout \in {"absent", "plain", "odd", "byhand"}
    /\ job = Idle

Work == Plan \/ Replace \/ Copy \/ Put \/ Unlink \/ RemoveBackup \/ Download \/ InstallWasm \/ WriteAlias
        \/ WriteLayout \/ RestoreLayout \/ SelfReplace \/ Fail \/ Finish \/ Crash
User == (\E ts \in Producers : SetupAgents(ts) \/ UninstallAgents(ts)) \/ SetupRail \/ UninstallRail \/ Update \/ UserEditsConfig
        \/ \E t \in Targets : UserWrites(t) \/ UserRemoves(t) \/ UserRestores(t)
Next == Work \/ User \/ Release
Spec == Init /\ [][Next]_vars

------------------------------------------------------------------------------
(* What the user wrote at one of those paths is at the path or in its backup,   *)
(* whatever was installed, forced, updated, removed or killed in between.       *)
UsersTextIsKept ==
    \A t \in Targets : mine[t].by = "user" => mine[t] \in {file[t], bak[t]}

(* The managed alias names a wasm that is on disk, at every point of an install *)
(* that may be killed there: Zellij would open every tab on an error otherwise. *)
AliasHasWasm == alias = "ours" => wasm # 0

(* An uninstall that reports no failure leaves nothing of ours that is loaded,  *)
(* the slot with the notifier the user had before `--force` took it, and no     *)
(* layout of setup's on a dead alias, even after an attempt killed half way.    *)
UninstallClears ==
    [][job.does = "uninstall" /\ Finish /\ job.clean =>
          /\ \A t \in job.of \cap Targets : file[t].by # "ours" /\ (t = Slot => file[t] = mine[t])
          /\ "rail" \in job.of => alias # "ours" /\ layout \notin {"injected", "whole"}]_vars

(* An update that moved the binary and reports no failure leaves the sidebar    *)
(* and every wired bridge at the version of the binary.                         *)
UpdateEndsWhole ==
    [][job.does = "update" /\ Finish /\ job.clean /\ job.moved =>
          /\ wasm \in {0, cli}
          /\ \A t \in Bridges : file[t].by = "ours" => file[t] = Ours(cli)]_vars

(* "`update` moves what is *installed*: a missing sidebar is a `setup` job"     *)
(* (update.rs:14): no update puts back an alias an uninstall has removed. Does  *)
(* not hold, and no run checks it (README, Where code and text disagree).       *)
UpdateMovesWhatIsInstalled == [][job.does = "update" /\ alias = "removed" => alias' = "removed"]_vars
================================================================================
