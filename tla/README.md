# zj-radar: TLA+ models, model checking and proofs

zj-radar is a Zellij plugin (one WebAssembly instance per tab, the *rail*) and a
command-line tool. The rail shows per tab what agents and commands are doing;
the command line sends what agents report, and installs, updates and runs the
plugin. What is hard about it is deciding, from reports that come late, twice,
out of order or not at all, what a pane is doing now, with one copy of the answer
in every tab and files between them that nobody locks.

Paths are relative to `src/crates/`. Each property quotes or names the code it is
about; `PROJECT.json` maps every definition to its lines.

## 1. Inventory

| Component | State | Operations | What makes it correct |
|---|---|---|---|
| command activity store, `core/src/command.rs` | per pane: row, debounced candidate, armed Done confirm, last exit | `on_command_changed`, `on_timer`, `on_exit`, `prune`, `set_interactive_extras`, `set_remote_extras`, `needs_ticks` | the four maps agree with the pane's foreground; a row neither flashes nor spins for ever; a repeated exit is silent; no completion vanishes unseen |
| background tasks, `core/src/task.rs` | the agent's task list, its cap, the wait flag | `apply` (upsert, snapshot, cap) | outcomes are final, a task the agent waits on is not forgotten |
| pushed status store, `plugin/src/status_store.rs` | per pane: row, grace clock | `apply`, `clear_on_prompt_return`, `cancel_running_suspect`, `clear_on_exit`, `expire_stale_running`, `prune`, `evict_over_cap` | a killed agent's row clears, a live agent's does not, a question's wait is its own |
| radar state, `plugin/src/radar_state.rs` | both stores, tabs and panes by position, prune grace, flashes, ledger, rows memo | `tabs_changed`, `panes_changed`, `timer`, `command_changed`, `status_pipe`, `load_snapshot`, `rows` | what leaves a card is filed once, under the right tab; a pane in transit loses nothing; the memo is fresh; drops are persisted |
| completion ledger, `plugin/src/ledger.rs`, and snapshot, `plugin/src/radar_state/snapshot.rs` | a ring of completions per instance; a file all instances share | `push`, `replace`, `merge`, `to_json`, `persist_snapshot` | one line per event, none lost in a write; rows converge |
| plugin runtime, `plugin/src/runtime.rs` | timer chain, tick, permission, settle baseline, what is drawn, presence | one handler per Zellij event, `project`, `desired_cadence`, `render` | one timer chain that never stops while something is due; what is drawn is what is |
| permission flow, `plugin/src/permission.rs` | one of four states; lock and marker files | `on_load`, `on_timer`, `on_result`, probe, reclaim, heartbeat | somebody prompts, nobody takes a live prompt, an answer reaches all |
| notification rules, `plugin/src/notify_rules.rs` | what each instance has settled; claim files | `diff`, focus suppression, `claim_notification` | each event told, once |
| cross-session badges, `plugin/src/sessions.rs`, `core/src/presence.rs` | a presence file per session and its writer's token; peers seen, the selection | heartbeat, claim, rescue; scan, grade, cycle, dismiss, reap | a live session is never reaped, the freshest view writes, a switch goes where the user settled |
| roll-up, `plugin/src/rollup.rs`; rendering, `plugin/src/render.rs`, `render/layout.rs` | functions of the rows, the size and the options | `roll_up`, `plan_overflow`, `plan_layout`, `render_rail`, emitters, clicks | the picture fits, gives way in the documented order, and a click acts on what the line says |
| tab namer, `plugin/src/tab_namer.rs` | names applied, own tab | `rename` from cwd, repo or title | the user's name and the neighbour's tab are left alone |
| wire payloads, `core/src/payload.rs`, `wire.rs`, `pipe.rs` | none | `to_wire`, `parse`, `sanitize` | whatever is sent is read, and says no more than was said |
| configuration, `plugin/src/config.rs` | the options | layout block, `config.v1` messages | the last word understood wins |
| hook producers, `cli/src/agents*`, `notify.rs`, `dedup.rs` | last-sent record, subagent markers | intake, derive, send, record | a turn end is shown, a heartbeat does not starve, nobody else's hook is |
| setup, update and run, `cli/src/setup`, `update.rs`, `run.rs` | bridges, notify slot, alias, layout, wasm, owned dir, session marker | install, force, uninstall, update, materialize, attach or create | nothing of the user's is lost, nothing is left half done |

How the parts interact:

* Zellij calls one handler at a time in each instance; handlers run to their end.
  Instances run concurrently. `CommandChanged` and pipe messages reach every
  instance, manifests (`TabUpdate`, `PaneUpdate`) the active tab's only, timers
  each its own.
* The stores are written by `RadarState`'s entry points. Each returns a
  `RadarChange`; the runtime turns it into effects and re-arms its timer in
  `project`.
* Instances share files: the snapshot (read, merged, renamed, no lock), the
  permission lock and marker, notification claims, presence and its token.
* An agent runs one short process per hook; several overlap and share two files.
  A rail at its permission prompt does not read its pipe, so a send may time out.

What is hard: reports of one pane in any order over four maps; timeouts racing
what makes them pointless; repeated input; a timer that cannot be cancelled and
runs only while somebody asks for it; unlocked files between instances and hook
processes; lock and claim reclaim in three calls; processes killed between two
file operations. `PROJECT.json` lists each hazard at its line with the properties
that watch it.

## 2. Modules

| Module | Models |
|---|---|
| `CommandPane`, `CommandStore` | `command.rs`: one pane's record and each method on it; the store with the programs, ticks, exits and configuration around it |
| `PaneLife`, `CommandLife` | the abstract life of a card; the store, with reloads from the snapshot, as an implementation of it (`INSTANCE PaneLife WITH`) |
| `StatusPane`, `StatusStore` | `status_store.rs`: one pane; the store, its cap and the agents that push to it |
| `BgTasks`, `TaskList` | `task.rs`: the fold of a payload; sequences of payloads |
| `RadarState` | `radar_state.rs`: both stores, topology, prune grace, flashes, ledger hand-off, write requests, memo |
| `Ledger`, `SharedSnapshot` | the ring and its merge; the command rows of one pane in every instance; `MCSnapshotFile` puts both behind the file they share |
| `PermissionFlow` | `permission.rs`, and the lock and marker of `session_files.rs`, reclaim cut between its calls |
| `NotifyFlow` | `notify_rules.rs`, settling in `runtime.rs`, claims and their sweep in `session_files.rs` |
| `PresenceWriter`, `PeerSessions` | a session's rails over its presence file and token; a rail over the files of others; `MCCrossSession` plays both ends |
| `TimerChain`, `RailRuntime` | the one-shot timer chain; the rail's handlers, their repaints and the cadence each pass arms, on that chain |
| `RailRows`, `RailLayout`, `RailPicture`, `RailWidths` | roll-up and attention order; the planner that fits cards to a height; the lines of the rail and what a click on them does to the rail as it is by then; the columns every line takes |
| `TabNaming` | `tab_namer.rs` and how `radar_state.rs` feeds it, against a session that moves and renames |
| `PushWire`, `RailConfig` | both codecs with their caps and the sanitizer; the configuration |
| `AgentIntake`, `AgentHooks` | what each agent's hook means; parallel hook processes over record and markers, and the row they feed; `MCCommandLine` plays these or `TaskList` |
| `Installer`, `RunSession` | setup, update and uninstall as single file operations; `zj-radar run` on one session name |
| `PaneProofs`, `CommandStoreProofs`, `RadarStateProofs`, `StatusAndPromptProofs`, `RailRuntimeProofs`, `HookAndPresenceProofs`, `NotifyFlowProofs`, `SetupAndIntakeProofs` | theorems |
| `MC*` | model values and sets for the checker; where components share nothing, a variable (`scene`, `played`, `part`) says which one a behaviour plays |

Conventions. A code method is an operator on a record (`OnExit`, `OnTimer`,
`ApplyPayload`, `Merge`, `DeriveClaude`); a handler is an action that applies it,
with every call the handler makes inside. A process or effect that the host or the
scheduler can cut is a program counter (`procs`, `op`, `job.steps`, `stage`).
Absolute ticks and stamps are kept as *ages*, saturated at the threshold they are
compared with, since the code only reads differences. Texts are model values, or
numbers of characters or columns where caps and widths are the subject; `classify`
is reduced to the program it names. Variables that the code does not have (`shown`,
`lastExit`, `late`, `silent`, `mine`, `said`, `agreed`, ...) are history or
environment: no code operator reads them. A comment `Mutant:` marks an operator
that is a plausible bug; no specification uses one. With it in place of the code's
operator the property named with it in `PROJECT.json` is violated.

## 3. Runs

| Run | Bounds | What it shows |
|---|---|---|
| `command_store` | 1 pane; a job, a server, a TUI; 2 failing codes; debounce 2, Done TTL 3; an interactive entry that comes and goes, a remote one, or reloads | `ImplementsPaneLife`; `BooksMatchUntilReload`, the four maps agree with the foreground; `RunningSurvivedDebounce`; `CompletionsAreTrue`: an exit that Zellij repeats is silent, a confirm never ends a command in the foreground; under fairness `RowsSettle` |
| `status_store` | 2 panes, room for 1 row, grace 2; an agent in every status | `SilenceClears`: a Running row is cleared after a full silent window only, and always when its agent is dead and nothing of it arrives late; `WaitIsTheQuestionsOwn` |
| `radar_state` | 1 pane, 2 tabs (one closes), a job, an ssh, agents; thresholds 1 | `CompletionsReachLedger`; `ClosesAreCounted`: filed under the tab that last seated the pane, and one absence loses nothing; `ChangesAreSeen`: drops persisted, a deferred write has its tick, the memo is fresh |
| `snapshot_file` | 2 instances; 2 events, ring of 2, window 1, clock to 2; one pane at a prompt or held | `RingsAgree`: one line per event, whoever writes first; `WritesKeepCompletions`; `InstancesAgree`: laggards' stale writes are repaired by the time all rest, a held failure is shown by all that saw the start |
| `permission_flow` | 3 instances in 3 role mixes, TTL 2, patience 2 | `LivePromptIsKept`; under fairness `NobodyWaitsForEver` |
| `notify_flow` | 2 instances, 1 pane, 3 events, claims live 1 and are swept at 2 | `OneToastPerEvent`, with the claim's race named; under fairness `EdgesAreTold` |
| `cross_session` | writer: 2 rails, heartbeat 2, rescue 3, stale 4, dead 6. Reader: 3 files over 2 names | `NeverReaped`; `FreshestViewWrites`: the last claimer writes, its view is back within four heartbeats of a rescue, a manifest takes no young token; `PeersAreLive`: a switch goes where the user settled, a corpse neither hides nor kills its namesake |
| `command_line` | hooks: 2 processes, 2 ids, TTL 2, quiet window 5. List: 3 tasks, room for 2 | `TurnEndIsShown`; `StrangersAreSilent`; `WorkIsKept`: a working agent's row outlives its skipped heartbeats, outcomes are final, running work is forgotten last, no wait without its task |
| `setup` | 2 bridges, 1 slot, 2 texts, 3 versions | `UsersTextIsKept`; `AliasHasWasm`; `UninstallClears`; `EndsWhole`: `run` launches on a whole dir, a clean update leaves one version |
| `rail` | up to 3 tabs of 4 shapes in every height to 13, 4 faces, each with and without a ledger; 2 changes between a full-height picture and a click on it; 2 frames a second, Slow of 3 s; texts to 7 columns | `StatusesAreDrawn`, `StaleIsFollowedUp`, `NeedIsTimed`, `TicksAreSecondsApart`; `RailGivesWay`: the picture fits, is squeezed in the documented order, keeps a failure on a line, and peers' trees cost nothing; `ActionsLand`: a click on the last picture acts on what it was drawn for unless that itself has changed, and attention keys reach every tab; `LinesFitNow` |
| `intake` | a session with three changes of any kind (moves, renames, refocus, reloads, ...) at any time, two updates under way; texts of 4 characters; reports around the real caps; 2 messages over a layout | `OnlyOwnTab`: a call under way is for the rail's own tab if its place and its tabs were of one arrangement; `SeenNameIsKept`: it takes no name that it was made in sight of; `NamedOnceQuiet`; `NewlineResyncs`; `SentIsRead`; `LastRecognisedWins` |
| `screen_stale` | as `rail` | `FlashEndsOnScreen` fails, section 6 |

A property named in two parts (`ClosesAreCounted == TwoAbsencesDrop /\
FiledUnderLastTab`, ...) is a conjunction of action or state properties that need
one run of the checker; its mutant breaks one of the parts.

Deadlock is checked but in `rail`, `screen_stale` and `intake`: a drawn picture, a
typed text of full length or a heard configuration has no further step.

Why the bounds are enough. All stores treat panes alike and touch one pane per
call (or each by itself), so one pane has every interleaving of a pane; two are
used where the cap couples them. A threshold of 2 separates "just armed", "one
tick from due" and "due"; thresholds that could be mistaken for one another
differ. Two instances suffice for a stale writer and a newer row, three for the
permission lock (a prompter, a reclaimer and one that acts between its calls), two
hook processes for a send that overtakes another. The ring of 2 is full with two
events and overflows with a third entry; the task list evicts with its third. The
wire's caps are the code's own: the reports lie at, below and above each. Three
tabs are enough to have an idle, a calm and an urgent card that compete for lines.
Symmetry is used where a set is only compared (processes, ids, instances, texts)
and no property of that run is a liveness property. Bounds that cap a counter are
named constants (`MaxNow`, `MaxEvents`, `MaxChanges`, `MaxQueue`, `MaxVersion`,
`MaxLate`, `MaxMessages`) or the saturation of ages.

Fairness.
* The stores: weak fairness of `Timer` only *while the store asks for ticks*
  (`needs_ticks`, or a Done row that waits to recede): `desired_cadence` and
  `project` arm the timer exactly then. No fairness for any report: programs,
  users and hooks owe nothing.
* `PermissionFlow`: time passes, and a rail that waits or prompts ticks (the Fast
  cadence holds then). No fairness for answers.
* `NotifyFlow`: a delivered payload is handled, effects run, and an instance with
  an unsettled edge ticks (`arm_timer_if_needed`).
* `PeerSessions` and `PresenceWriter` need none: what must happen within a bounded
  time is stated with the age it must not reach, on clocks that cannot pass a due
  timer.

Environment assumptions, each in its module's comment.
* Hooks: an agent awaits its own hooks, a subagent's hooks come one at a time, ids
  are fresh, clocks do not step back, the row's own rail reads at once and another
  one may keep a send until it times out; `DedupTtl + Beat + RunningTimeout < QuietMax` and `EdgeTimeout + 1 < QuietMax`,
  which the real constants satisfy.
* Setup: one process at a time; the user edits files only between runs and does
  not delete `config.toml`; no update lands while `run` prepares its dir. The paths
  are pairwise different and none is called "rail", the name of the sidebar's part.
* Presence: a timer fires on its second and an instance ends what it began within
  it; `Rescue = Heartbeat + Skip` and `Skip <= Heartbeat`, as in the code, and
  `Rescue + 2 * (Heartbeat - 1) <= DeadAfter`, more than the code asserts and less
  than its constants leave (75 + 118 s against 300 s).
* Presence of other sessions: a session's name is taken while it runs, so the sessions
  of one name follow each other.
* Naming: when it reports both, the host reports panes before tabs; the user's names
  are not of the default form. Tabs move at any time, also before the rail knows its
  own: which arrangement of the tabs each of the two updates it joined was of is
  history of the model (`joined`), as is the user's name it was last shown (`shown`).
  A call carries both, so that what is said of a call still holds while others are
  under way and the user renames the tab at the same moment.
* Clicks: between a picture and a click on it panes ask and are answered, are taken
  to other tabs, tabs close and peers come and go (`now` in `MCRail`); panes of a
  closed tab stay with the stores for the manifests' grace.

## 4. Theorems

For every value of the constants that meets the modules' named assumptions:

* `CommandStoreProofs`: `TypeCorrect`, `BooksCorrect`, `PendingCorrect`,
  `LeftRunningCorrect`, `ArmedRowsCorrect` (invariants), `DebounceCorrect`,
  `HandOffCorrect` (action properties). None of "a pending names the foreground",
  "a left Running row has its confirm armed", "only Running rows are armed" is
  inductive alone: promotion turns a pending into a row and an exit consumes both.
  `PaneInv` adds what links them: a pending is no older than the foreground
  command, a Running row with nothing else booked *is* the foreground command and
  a debounce old, and a latched exit means neither a pending nor a Running row.
  Lemmas state for each method that it keeps `PaneInv` for the foreground its
  report implies; the step theorem has a case per action.
  Then, with reloads (`CommandLife`): `LifeTypeCorrect`, `LifeBooksCorrect` (the
  books hold until the first reload) and `LifeCorrect`, the refinement: every
  behaviour of the store is a behaviour of `PaneLife`. Lemmas say per method which
  move of a card it is, or that it leaves the card alone.
  `CompletionsAreTrueCorrect` rests on `LifeInv` (`LifeInvCorrect`): until a new
  command opens in a pane, its row is settled both by the exit it was last sent and
  by the one its store remembers, which differ once an exit over an idle row was let
  pass; and a confirm is armed over a prompt or an interactive program only.
  What holds of one pane's records alone, in either store, is in `PaneProofs`, which
  the next two modules use too.
* `CommandStoreProofs`, the shared rows: `InstancesAgreeCorrect`, for any number of
  instances, of which any may be opened late. `RowsInv` (`RowsCorrect`): when no pane
  is held, the snapshot file shows what *some* loaded instance shows, which is why a
  laggard's stale write does no harm once all show the same (`FileIsSomebodys`); and an
  instance that heard a command start has it under way, with no confirm or expiry that
  could end it, until its own manifest settles the row (`HeardToTheEnd`).
* `CommandStoreProofs`, the ledger: `RingsAgreeCorrect`, `WritesKeepCompletionsCorrect`,
  for any instances, events, merge window and cap. The sort and the pass that drops
  duplicates are functions over prefixes; that each is what its equation says
  (`Iterates`) and what holds of every prefix (`Reach`) follow from the least prefix
  where it would not (`Least`), so no induction rule is needed. The pass over a
  descending ring keeps one line per event and, of each entry, the line or a later stamp
  (`OneEachFacts`). Only one set of lines is so (`OneSuchSet`: an entry only one of two
  such sets has gave way to a later one only the other has, and there is a last one), so
  the order of the writers can matter at the cut alone (`SameCut`: otherwise more
  entries than places). `RingInv` (`RingsCorrect`): every ring has one line per event,
  the file's too, and what a writer read is one ring that was the file.
* `RadarStateProofs`: `RadarCorrect`, `ClosesAreCountedCorrect`,
  `CompletionsReachLedgerCorrect`, `ChangesAreSeenCorrect`, of both stores and the
  topology over any panes, tabs, programs and payloads. `RadarInv` says that a pane
  held by the grace of one manifest has no seat, was missed once at least, and is
  held under the tab that last seated it (`Captures`: filing and forgetting rest on
  it), that the status store is within its cap (`WithinCap`: over it, a payload that
  changes nothing could evict another row unseen), and `DeferredHasATick`. A lemma
  per entry point says what it does to every pane's records and asks of its caller.
  The attempt found `RowsMemoIsFresh` false where a program is interactive, which
  none is in the run: a report that leaves every card may change a muted label
  without `touch`. The property now excepts just that step (`Relabels`, section 6).
* `StatusAndPromptProofs`, the statuses: `ExpiryNeedsSilenceCorrect` (the safety half
  of `SilenceClears`) and `WaitIsTheQuestionsOwnCorrect`, for any panes, payloads,
  grace period and cap. `StatusInv`: a grace clock has run no longer than its pane
  was silent, and only a question or an outcome carries a stamp. A lemma per method
  of the store says that it keeps both, of every pane.
* `StatusAndPromptProofs`, the prompt: `LivePromptIsKeptCorrect`, for any number of
  rails, roles and lock age. `PromptInv` says why a prompt that was beaten cannot be
  taken: a reclaim is part of a probe, which nobody who prompts makes; a lock just
  beaten is fresh, unless one who found it stale before the beat has removed it
  (`BeatenLockIsFresh`); and after a whole second nobody who found it stale is left
  (`ShownLockIsHeld`), because a probe ends within its second.
* `RailRuntimeProofs`, the chain: `ChainTypeCorrect`, `CountCorrect`,
  `OneChainCorrect`, `WantedCorrect`, `PaceCorrect`. The inductive invariant `ChainInv` has the books
  (one flight per count; an armed Fast or Frame has the one flight that ticks and
  any other is an older Slow), the pace (the time ticked away plus what the ticking
  flight has left covers a second), and that what is wanted is armed or about to
  be. Whether a Slow fire is stale is decided by the count, so swallowing right
  needs to know which flights exist: the count alone is not inductive.
* `RailRuntimeProofs`, the rail: `StatusesAreDrawnCorrect`, `NeedIsTimedCorrect`,
  `StaleIsFollowedUpCorrect` and `RailIsAChain`, by which `OneChain` and
  `TicksAreSecondsApart` (`RailTicksAreSecondsApart`) come from the abstract chain.
  `RailInv` is `ChainInv`; `PictureInv`, that what is on screen has the row's status, the
  flash, the selection and, unless the row spins (each tick then repaints it), its
  label, whatever a handler's gate left out; and `NeedInv`, that whatever waits
  for a tick is part of what the last pass wanted. `NeedIsTimed` alone is not
  inductive: a swallowed fire re-arms nothing, and only the chain's books say that
  the flight it leaves is soon enough.
* `HookAndPresenceProofs`, the presence file: `NeverReapedCorrect`, `ForeignViewIsReplacedCorrect`,
  `FreshestViewWritesCorrect` (both parts of `FreshestViewWrites`). A file's
  age is bounded by no single step: each instance tries a write when its stamp is a
  heartbeat old, a fire just before lets the chance pass, and a try may be skipped
  for a young file. `PresenceInv` says of each instance that the age of the file and
  the time to its next try cover the bound together (`Young`), that a write decided
  before the token was lost meets a new foreign view or replaces an old file
  (`Raced`), and how long a foreign view can still last in each phase of the holder's
  timer (`Waiting`, `Trying`). The attempt corrected the model: three heartbeats,
  which held on the small instance, do not bound a foreign view where the skip window
  is small against the heartbeat, and four do; what keeps a file from being reaped is
  `Rescue + 2 * (Heartbeat - 1) <= DeadAfter`, which is tight, not the inequality the
  code asserts.
* `HookAndPresenceProofs`, the hooks: `StrangersAreSilentCorrect`, for any number of
  hook processes, subagents and agents: what is launched is marked when its launch was
  taken in (`MarkersInv`), and what a hook in flight may say of its caller is fixed by
  the agent (`CallersInv`). `LiveRowIsKeptCorrect`, the part of `WorkIsKept` about the
  grace clock: `ClockInv` says that whatever the clock has run is covered by the age
  of the record, by a hook held up at a wedged rail, or by one still on its way that
  will be sent (`Telling`, and `Closing` when the agent no longer works). The attempt
  found an assumption the run's constants met unsaid: a wedged edge hook may also hold
  the clock up, for its whole deadline, so that `EdgeTimeout + 1 < QuietMax` is needed
  (5 s and 15 s in the code); with 5 and 5 the checker finds the row cleared. It also
  found two arms of `DeriveCodex` overlapping for a stray hook, where the code returns
  first, and that no id may be the absent one.
* `HookAndPresenceProofs`, the turn end: `TurnEndIsShownCorrect`, for any number of hook
  processes, ids, stored tasks and windows. That a pane at rest shows its last stop says
  nothing of how it got there; `TurnInv` follows the stop and the work it lists. Of the
  stop (`StopInv`): its payload is on its way, with no other edge of the agent behind it
  (`LoneInv`: a prompt, a stop or a reset is called when the hooks before it have
  returned), or is shown; whatever else is called while the pane rests sends nothing
  (`Quieted`: an idle notification, a marked subagent's hook). Of the work (`RowInv`): the
  row has nothing as over that is alive or that it will yet be told runs, for what is
  over is never revived, and a stop's snapshot could then not list it as running. That
  is so because a prompt reports as over only what is (`NewInv`, `BatchInv`) and a
  snapshot omits nothing alive. A subagent is marked before its first hook
  (`MarkedInv`) and is over with its last (`OnceInv`), so none of its hooks passes for
  the agent's. Of the task list the lemmas say what the upserts of a batch, the ending of
  the omitted, the clearing of the finished and the cap do to the running ids, for
  lists of any length (`UpsertedKeeps`, `EndOmittedKeeps`, `UnfinishedKeeps`, `CapKeeps`): functions
  over prefixes, with `Iterates` and `Reach` as for the scans below; a list over the cap
  loses an ended task as long as it has one (`VictimIs`), so the running stay if they fit.
  `WorkIsKeptCorrect` is of any payloads, of which a hook of `AgentHooks` sends few: each
  upsert leaves every stored task in its place and what was over as it ended
  (`UpsertedGrows`), and the cap takes a running task from among running ones only, so
  that once it has, all that is left runs (`EvictTakes`, `CapTakes`).
* `HookAndPresenceProofs`, the badge: `PeersAreLiveCorrect`, for any sessions, names
  and lives. `PeersInv` (`PeersCorrect`): of the sessions of a name each died before
  the next was born, so that the one that lives has the last file and whatever is read
  of its name is its own; nobody is listed who never lived; and a session that is
  picked was tapped, one fire ago at most. That a name's files have a last one
  (`LastElement`) needs no induction: if none were last, the counts of files after
  each would not fit.
* `SetupAndIntakeProofs`, the set-up: `UsersTextIsKeptCorrect`, `AliasHasWasmCorrect`,
  `UninstallClearsCorrect`, `UpdateEndsWholeCorrect`, for any set of files, texts and
  releases. A run is a queue of steps and may be killed after each, so each invariant
  speaks of the steps that are left. `InstallInv`: the head may be in the middle of a
  replacement (`Ahead`: a copy before its rename, a rename of a file that is backed
  up), every other step is `Plain`, harmless wherever it waits: it replaces only by our
  text or by the notifier the user wants back, and removes only what is ours; an alias is queued behind the step
  that stages the wasm (`Staged`). `ClearInv`: what is ours and not yet cleared is
  owed by a step or a call of an uninstall that has failed nowhere. `WholeInv`: the
  same of an update and what is behind the binary's release.
  Of `run`: `OwnedDirIsWholeCorrect` and, with the update, `EndsWholeCorrect`.
  `RunInv`: no file of the owned dir is older than its marker says or newer than the
  binary (`MarkerIsOldest`), the marker is the last of what is left to write
  (`WritesInOrder`), and from the probe on every file is the binary's own. Both
  assume that no binary goes back to an older release (`~MayDowngrade`), without
  which they are false (section 6). `SetupImplementsInstaller` carries what is
  proved of the installer over to the composition the run checks.
* `NotifyFlowProofs`: `OneToastPerEventCorrect`. A claim is a file that others may
  remove once it is old, so that it was made says little; what is needed is that it
  outlives everybody who could tell its event again. `NotifyInv` says that whatever
  an instance holds (a payload to come, its view, a queued note) was reported of that
  pane (`Told`, `Knows`), and of an event that was told (`ToldOnce`) that its claim is
  of this second, or of the last one while nobody has yet to hear of it and who has
  yet to settle it has not ticked (`NextSecond`), or that nobody can tell it again
  (`Over`). The proof asks that a claim live a second at least (`ClaimTtl` is 30 s):
  with none, a late ticker would reclaim and tell again.
* `SetupAndIntakeProofs`, what reaches a rail: `LastRecognisedWinsCorrect`, for any layout
  and any messages. `ConfigInv` names for each option the message that made it: it has a
  word the parser knows, and no later one has. `TextsResync`, for texts of any length:
  what a character adds and where it leaves the walk depend on where the walk is and
  not on what is out (`Reading`, `WalkGoesOn`), two walks that stand at the same place go
  on alike (`WalksAgree`, `WalksOn`), and a line break that ends an escape leaves the
  walk where it began (`BreakEnds`). `WhatIsSentIsRead`, for any report and any number of
  panes with any labels: what the sanitizer lets through it lets through again
  (`CleanIsClean`), so that a reader that refuses unsanitized text refuses nothing a rail
  wrote, and what is cut of the sorted panes comes after what is kept (`Sorting`).
  The scans are recursive functions over the prefixes of a text or list: `Iterates` says
  that such a function is what it is defined to be, `Reach` is induction over its
  domain, both without an operator as parameter. The attempt found the model of
  `to_wire` wrong where more tasks had no id than are sent at all.
* `SetupAndIntakeProofs`, the names: `OnlyOwnTabCorrect`, `SeenNameIsKeptCorrect`,
  `NamedOnceQuietCorrect`, for any `MaxAsk` and without the bounds. None of the three is
  inductive; `NamingInv` says of the rail (`Sound`) that until it knows its tab the
  tabs and the place it was told are those of the arrangements it has joined
  (`KnowsOwn`), so that its tab is its own if the two agree and stays so; that it leaves
  alone a name it was shown and the tab still has (`KeepsName`), and, where nothing
  moved, that its tab is the first (`Seated`); of every update on its way (`HeardInv`)
  that it is of the arrangement it was sent in, and of the names in it that they are
  those of its edition (`Shows`); of every call on its way that it was right when it was
  made (`OwnOnly`, `SentRight`); that what the rail lacks it will be told (`ToldInv`);
  and that a tab of no name has been offered one whenever no call is on its way
  (`Offered`). Each handler is shown to keep `Sound` for the name minded and for none: a
  mode of `force` minds no name and keeps the rest (`ModeIsSound`, `HeardKeeps`).
  `HandledIs` turns what the rail keeps into what its calls carry, and `SessionChanges`
  shows that nothing that happens in the session, a rename of the user's or a call
  that lands among it, makes a call under way wrong afterwards.
* `RailRuntimeProofs`, the columns: `EveryLineFits`, `LinesFitCorrect`: in a rail of three columns
  or more no line is wider than the rail, for texts of any length; a lemma per
  emitter of `render.rs`, on two facts about a cut text and a prefixed line.

Checked by a run and proved: `BooksMatchUntilReload`, `RunningSurvivedDebounce`,
`ImplementsPaneLife`, `CompletionsAreTrue`, `WaitIsTheQuestionsOwn`,
`ClosesAreCounted`, `CompletionsReachLedger`, `ChangesAreSeen`, `LivePromptIsKept`,
`TicksAreSecondsApart`, `StatusesAreDrawn`, `NeedIsTimed`, `StaleIsFollowedUp`,
`LinesFitNow`, `NeverReaped`, `FreshestViewWrites`, `PeersAreLive`, `InstancesAgree`,
`RingsAgree`, `WritesKeepCompletions`,
`OnlyOwnTab`, `SeenNameIsKept`, `NamedOnceQuiet`, `OneToastPerEvent`, `LastRecognisedWins`, `NewlineResyncs`, `SentIsRead`,
`StrangersAreSilent`, `TurnEndIsShown`, `WorkIsKept`, `UsersTextIsKept`,
`AliasHasWasm`, `UninstallClears`, `EndsWhole`;
and a part of `SilenceClears` (`ExpiryNeedsSilence`). A theorem holds for every value of the constants, a run for one.

Model-checked only:
* What must eventually happen (`RowsSettle`, `NobodyWaitsForEver`, `EdgesAreTold`, and
  `SilencedAgentClears`, the other half of `SilenceClears`): the prover has no
  enabledness to reason about fairness with.
* What rests on folds that are not written as functions over prefixes: the picture of
  the rail (`RailGivesWay`, `ActionsLand`).

## 5. Abstractions and what is left out

* `CommandPane`: display strings are the command; `classify` stands as the choice of
  `Argv`. `StatusPane`: all row texts but the message are left out.
* `RadarState`: the options of extra interactive and remote commands are constants
  (they are in `CommandStore`); naming is in `TabNaming`, attention cycling and
  roll-up in `RailRows`. `LoadSnapshot` loads the instance's own last state; what
  happens through the file is in `MCSnapshotFile`.
* `SharedSnapshot`: one pane; exits of held panes come by manifest to any instance.
* `TimerChain`: what a pass wants is arbitrary, more than the code does;
  `RailRuntime` restricts it to `desired_cadence`, for one row that stands for all.
* `PermissionFlow`, `NotifyFlow`: a tick ends within its second. File errors are left
  out but for a lost marker write.
* `PresenceWriter`, `PeerSessions`: the two share nothing but a directory; the reader
  assumes of a live session the silence that `NeverReaped` bounds. The sweep of
  other sessions' debris at open is left out.
* `RailPicture`: colour, glyphs and wording are left out; `RailWidths` reduces a text
  to its columns. `PushWire` reduces a text to the classes of characters that the
  sanitizer tells apart, and a field to its size.
* `AgentIntake`: a hook's JSON is the fields the adapters branch on.
* `Installer`: a bridge, slot, alias or layout is whose text it is and of which
  version; downloads succeed or fail. `update` is modelled for a binary it may
  replace; one that Nix or cargo owns, symlinked files, declined prompts, dry runs,
  the permission preseed and an explicit `--wasm` are left out. `RunSession` leaves
  out the grant float and `ZJ_RADAR_WASM`.

Not modelled: `theme.rs` and colours (tables); `git.rs` (runs git); the JSON, KDL and
TOML codecs and the migration of old snapshot versions; the translation of Zellij's
types in `plugin/src/lib.rs`; the `check` report and every message to the user;
network and checksums; the shell text of `pipe.rs`; `tools/wasm-fuel`, scripts and
demos, which are no part of the running program.

## 6. Where code and text disagree

By a run: `screen_stale`. `timer` paints when a row changed, when the timer goes on,
or on a slow fire. On the tick a flash runs out none of these holds for a row that
only waits, so the highlight stays for up to a minute; `radar_state.rs:222-227` says
"two seconds".

Stated as properties that do not hold, and that no run checks:

* `StatusStore!KilledAgentClears`: `StatusStore::apply` cancels the grace clock for
  any payload. A detached sender that delivers after the killed agent's prompt
  returned leaves the row Running for good; `core/src/pipe.rs:51` says it would not.
  `SilencedAgentClears` is the claim without late payloads, and holds.
* `PresenceWriter!LiveHolderIsNotRescued`: a content edge just after a Slow fire's
  skipped write leaves the holder's file older than `PRESENCE_RESCUE_AFTER`
  (`runtime.rs:124`, `:141`), so a peer instance rescues from a live holder.
  `runtime.rs:141` takes the oldest a file gets for `Rescue + Heartbeat`, 135 s; the
  bound `NeverReapedCorrect` rests on is `Rescue + 2 * (Heartbeat - 1)`, 193 s, reached
  when a fire comes just before the stamp is a heartbeat old. `ForeignViewIsReplaced`
  bounds how long a rescuer's view stays, once the holder has nothing but its timer
  to handle.
* `AgentHooks!RecoveryIsSent`: when a running hook reads the record before a parallel
  question's send writes it, the recovery looks like a repeat and is dropped; the row
  asks on until the next hook (`cli/src/dedup.rs:16-21` says it "differs and is sent").
* `Installer!UpdateMovesWhatIsInstalled`: `update` takes a stale wasm for an installed
  sidebar (`cli/src/update.rs:192`) and puts back the alias an uninstall removed;
  `update.rs:14` says a missing sidebar is a `setup` job.
* `RunSession!NoSilentAttach`: the marker of a session outlives it. A session of the
  same name that the user makes later is attached without asking (`run.rs:611`),
  which `run.rs:228` says never happens.
* `RunSession!OwnedDirIsWhole` with `MayDowngrade = TRUE`: a run of another version,
  killed half way, leaves files of that version under the older one's marker, and the
  older binary, back again, serves them (`run.rs:299`).

Observed, and excluded from a property by its premise:

* Command store. Withdrawing an `interactive_commands` entry while its program is in
  the foreground leaves an armed confirm of the previous row: the next ticks promote
  the program and confirm it Done at once. An instance opened between a command's end
  and its confirm loads no armed confirm and shows it Running for good.
  `command_changed` can change the muted label of an interactive foreground without
  `touch`.
* Ledger. `push` inserts at the front whatever its stamp; a write that overlaps
  another undoes what that one added to the ring. A completion that a *first* pushed
  status takes over, or that recedes between the two absences of a closing pane, is
  not filed. An instance that loaded an Idle row takes a held pane's failure for a
  replay.
* Permission. A deferring rail's probe creates or reclaims the lock before its policy
  says it is not for it; two escalated rails that interleave stat, remove and create
  can both prompt, where `permission.rs` says exactly one will.
* Runtime. An unchanged `TabUpdate` clears `hidden` without a repaint
  (`runtime.rs:779`). A committed or cancelled selection stays highlighted until the
  next fire.
* Clicks. The glyph and the right click on a tab's line go by position: once a tab
  before it has closed they answer the panes of the tab that moved up
  (`runtime.rs:1047`), which `GlyphsAct` leaves open. A pane's line goes by its id
  and does not.
* Rendering. At widths of 1 and 2 a tab header takes 3 columns. Gaps between cards
  come back while idle tabs or tasks are still folded (`docs/activity-model.md:100-102`
  has the order); peers' headings are reserved ahead of local cards
  (`docs/design.md:686-689`).
* Naming. A rail resolves its own tab to a neighbour, and keeps and renames that, if a
  tab moves between the tab and the pane update it first joins
  (`radar_state.rs:480-488`): it cannot tell that the two are of two arrangements.
  `OnlyOwnTab` without its premise (`agreed`) is false for that reason alone, as
  `OnlyOwnTabCorrect` shows. A call made before the rail is shown a name of the user's
  overwrites it; `SeenNameIsKept` without `seen` is false for that reason. What
  a rail had applied is lost on reload, and a name of more than 40 characters is no
  longer recognised as its own (`tab_namer.rs:69-93`).
* Wire and configuration. A snapshot batch whose unreadable items are skipped keeps
  its authority; an over-cap one loses it in `to_wire`, although
  `cli/src/agents/claude/background.rs:59-62` expects it to be one. The glyph set is
  the one word neither trimmed nor case-folded. A tab opened after a `config.v1`
  message starts from the layout's configuration, where `docs/configuration.md` says
  the whole session updates at once.
* Setup. `--force` over a hand-owned alias lets a later install overwrite the `.bak`
  with our text; a kill between the two removals leaves our `.bak`; an interrupted
  `update` leaves the bridges behind while the next one finds nothing to do; two
  concurrent `run`s can unstamp the marker of the session the other made.

## 7. Plan

What the models leave for later, in the order of what it would say:

1. Agreement in `PermissionFlow`: that an answer reaches every rail that waits, with
   file errors and a tick that spans seconds.
2. The sweep of other sessions' files at open (`session_files.rs`) against sessions that
   start meanwhile, beside `PeerSessions`.
3. `RunSession` and `Installer` as concurrent processes (two `run`s, an update during a
   `run`); today one process runs at a time.
4. Snapshots of older versions, read by a newer plugin in the tab next to an older one.
5. The planner and the emitters of the picture written as functions over prefixes, as
   the task list and the ledger's merge are, so that `RailGivesWay` can be proved.
