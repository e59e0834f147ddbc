SPECIFICATION FairSpec
CONSTANTS
  c1 = c1
  c2 = c2
  c3 = c3
  Containers = {c1, c2, c3}
  Nobody = Nobody
  MaxFaults = 3
CHECK_DEADLOCK FALSE
INVARIANTS Inv UpgradeNeverRefused ServesOnWholeSchema
PROPERTY EveryContainerServes
