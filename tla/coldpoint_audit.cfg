SPECIFICATION Spec
CONSTANTS
  Proc = {p1}
  Thread = {t1,t2}
  Lineage = {k1}
  Conv = {c1}
  Shared = 1
  Length = {1}
  Id = {i1}
  Turn <- FirstTurn
  Recent = 0
  TTL = {1}
  InfTTL = 99
  Extension = {0}
  Margin = 1
  MaxLineages = 2
  MaxTime = 6
  CanCrash = FALSE
  CanFail = FALSE
  CanMisread = FALSE
  CanAudit = TRUE
  CanFailOpen = FALSE
  Sticky = TRUE
  NONE = NONE
SYMMETRY Symmetric
CHECK_DEADLOCK FALSE
PROPERTIES ColdOnlyWhenExpired
