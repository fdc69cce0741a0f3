SPECIFICATION LineSpec
CONSTANTS
  t1 = t1
  t2 = t2
  t3 = t3
  p1 = p1
  p2 = p2
  NoId = NoId
  TaskIds <- MCTaskIds
  WorkIds <- MCIds
  Kinds <- MCKinds
  Tools = {"edit"}
  Agents <- MCAgents
  Procs <- MCProcs
  PayloadStatuses <- MCStatuses
  WireStates <- MCWire
  MaxTasks = 2
  DedupTtl = 2
  QuietMax = 5
  RunningTimeout = 1
  EdgeTimeout = 2
  Beat = 1
  MaxBatch = 1
  MaxNow = 1
INVARIANTS TurnEndIsShown
PROPERTIES WorkIsKept StrangersAreSilent
SYMMETRY MCLineSymmetry
