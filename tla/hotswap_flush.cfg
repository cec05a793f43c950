SPECIFICATION Spec
CONSTANTS
  Worker = {1}
  Version = {v1}
  First = v1
  Broken = {}
  DrainBudget = 2
  DrainCap = 3
  StopWait = 1
  MaxInstalls = 0
  MaxCrashes = 0
  MaxAsks = 2
  NONE = NONE
CHECK_DEADLOCK FALSE
PROPERTY ShutdownDrains
