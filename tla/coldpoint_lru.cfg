SPECIFICATION Spec
CONSTANTS
  Proc = {p1}
  Thread = {t1,t2}
  Lineage = {k1,k2}
  Conv = {c1}
  Shared = 1
  Length = {1}
  Id = {i1}
  Turn <- FirstTurn
  Recent = 0
  TTL = {1}
  InfTTL = 99
  Extension = {0}
  Margin = 1
  MaxLineages = 1
  MaxTime = 4
  CanCrash = FALSE
  CanFail = FALSE
  CanMisread = FALSE
  CanAudit = FALSE
  CanFailOpen = FALSE
  Sticky = TRUE
  NONE = NONE
SYMMETRY Symmetric
CHECK_DEADLOCK FALSE
INVARIANTS EvictedStaysEvicted
