SPECIFICATION FairSpec
CONSTANTS
  Worker = {1,2,3}
  Version = {v1,v2}
  First = v1
  Broken = {}
  DrainBudget = 1
  DrainCap = 2
  StopWait = 1
  MaxInstalls = 2
  MaxCrashes = 1
  MaxAsks = 2
  NONE = NONE
CHECK_DEADLOCK FALSE
INVARIANTS TypeOK NoneForgotten
PROPERTIES NoHandoverGap WedgesEnd UpgradeServed
