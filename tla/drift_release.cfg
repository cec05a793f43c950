SPECIFICATION Spec
CONSTANTS
  Proc = {p1}
  Thread = {t1}
  Sampler = {p1}
  Limit = 2
  MaxRows = 2
  CanCrash = FALSE
  CanFail = TRUE
  CLI = CLI
  NONE = NONE
CHECK_DEADLOCK FALSE
PROPERTIES FailedReleaseHolds
