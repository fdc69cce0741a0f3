SPECIFICATION FairLifeSpec
CONSTANTS
  build = build
  server = server
  tui = tui
  sh = sh
  claude = claude
  noargv = noargv
  empty = empty
  Blank = noargv
  NoCmd = empty
  Commands <- MCCommands
  Shells <- MCShells
  Agents <- MCAgents
  ClassKind <- MCClassKind
  FailCodes <- MCFailCodes
  DefaultInteractive <- MCNone
  DefaultRemote <- MCNone
  DebounceTicks = 2
  DoneTtlTicks = 3
  Panes <- MCPanes
  InteractiveExtras <- MCToggled
  RemoteExtras <- MCRemote
INVARIANTS BooksMatchUntilReload
PROPERTIES RunningSurvivedDebounce ImplementsPaneLife CompletionsAreTrue RowsSettle
