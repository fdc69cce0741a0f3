SPECIFICATION FileSpec
CONSTANTS
  build = build
  sh = sh
  noargv = noargv
  empty = empty
  i1 = i1
  i2 = i2
  e1 = e1
  e2 = e2
  Blank = noargv
  NoCmd = empty
  Commands <- MCCommands
  Shells <- MCShells
  Agents <- MCNone
  ClassKind <- MCClassKind
  FailCodes <- MCFailCodes
  DefaultInteractive <- MCNone
  DefaultRemote <- MCNone
  DebounceTicks = 2
  DoneTtlTicks = 2
  Instances <- MCInstances
  Events <- MCEvents
  LedgerCap = 2
  MergeWindow = 1
  MaxNow = 2
INVARIANTS RingsAgree InstancesAgree
PROPERTIES WritesKeepCompletions
SYMMETRY MCSymmetry
