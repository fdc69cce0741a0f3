SPECIFICATION FlowFairSpec
CONSTANTS
  i1 = i1
  i2 = i2
  i3 = i3
  Instances <- MCInstances
  RoleMixes <- MCRoleMixes
  LockTtl = 2
  Patience = 2
PROPERTIES LivePromptIsKept NobodyWaitsForEver
