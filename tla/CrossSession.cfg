SPECIFICATION CrossSpec
CONSTANTS
  i1 = i1
  i2 = i2
  Rails <- MCRails
  Heartbeat = 2
  Skip = 1
  Rescue = 3
  StaleAfter = 4
  DeadAfter = 6
  work1 = work1
  work2 = work2
  play = play
  Files <- MCFiles
  NameOf <- MCNameOf
  Follows <- MCFollows
  Own = 3
  Silence = 2
  ScanEvery = 1
  StaleSeen = 1
  DeadSeen = 3
INVARIANTS NeverReaped
PROPERTIES FreshestViewWrites PeersAreLive
SYMMETRY MCSymmetry
