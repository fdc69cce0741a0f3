SPECIFICATION MCSpec
CONSTANTS
  MaxAsk = 1
  MaxChanges = 3
  MaxQueue = 2
  TextFields = 5
  MaxWireField = 512
  MaxShown = 60
  MaxTasks = 16
  MaxTaskText = 96
  TaskOverhead = 96
  EscapedBytes = 6
  MaxPayload = 65536
  MaxPeerPanes = 2
  MaxPeerLabel = 2
  MaxFps = 10
  DefaultFps = 4
  MaxMessage = 65536
  MaxText = 4
  MaxMessages = 3
INVARIANTS OnlyOwnTab SeenNameIsKept NamedOnceQuiet NewlineResyncs SentIsRead LastRecognisedWins
CHECK_DEADLOCK FALSE
