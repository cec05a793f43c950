SPECIFICATION FaultsSpec
CONSTANTS
  Proc = {p1,p2}
  Thread = {t1,t2}
  Lineage = {k1}
  Conv = {c1}
  Shared = 1
  Length = {1}
  Id = {i1,i2}
  Turn <- FirstTurn
  Recent = 0
  TTL = {0}
  InfTTL = 99
  Extension = {0}
  Margin = 0
  MaxLineages = 1
  MaxTime = 1
  CanCrash = TRUE
  CanFail = TRUE
  CanMisread = TRUE
  CanAudit = TRUE
  CanFailOpen = TRUE
  Sticky = FALSE
  Proxy = {x1}
  Shadow = {s1}
  Sampler = {x1}
  Limit = 2
  MaxRows = 2
  CLI = CLI
  NONE = NONE
SYMMETRY Symmetric
CHECK_DEADLOCK FALSE
INVARIANTS WireIsDurable
PROPERTIES HoldSticks
