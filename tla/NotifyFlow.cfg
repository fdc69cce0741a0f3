SPECIFICATION FairSpec
CONSTANTS
  Instances = {i1, i2}
  Panes = {p1}
  Enabled = {"pending"}
  WhenFocused = FALSE
  ClaimTtl = 1
  SweepAge = 2
  MaxEvents = 3
INVARIANTS OneToastPerEvent
PROPERTIES EdgesAreTold
