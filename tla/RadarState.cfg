SPECIFICATION Spec
CONSTANTS
  build = build
  ssh = ssh
  tui = tui
  sh = sh
  claude = claude
  noargv = noargv
  empty = empty
  t1 = t1
  t2 = t2
  nowhere = nowhere
  Blank = noargv
  NoCmd = empty
  NoMsg = empty
  NoTab = nowhere
  Commands <- MCBuild
  Shells <- MCShells
  Agents <- MCAgents
  ClassKind <- MCClassKind
  FailCodes <- MCFail
  DefaultInteractive <- MCNone
  DefaultRemote <- MCNone
  DebounceTicks = 1
  DoneTtlTicks = 1
  GraceTicks = 1
  MaxTracked = 2
  FlashTicks = 1
  Messages <- MCMessages
  TaskIds <- MCNoTasks
  MaxTasks = 1
  Panes <- MCOnePane
  TabIds <- MCTwoTabs
  TabLists <- MCLists
  InteractiveExtras <- MCNone1
  Sent <- MCSent
  SentBatches <- MCBatches
PROPERTIES ClosesAreCounted CompletionsReachLedger ChangesAreSeen
