SPECIFICATION FairSpec
CONSTANTS
  Proc = {p1,p2}
  Thread = {t1,t2}
  Sampler = {p1}
  Limit = 1
  MaxRows = 2
  CanCrash = TRUE
  CanFail = FALSE
  CLI = CLI
  NONE = NONE
CHECK_DEADLOCK FALSE
INVARIANTS NoRowTwice TripReceipted
PROPERTIES WatchersNotice HoldSticks
