SPECIFICATION Spec
CONSTANTS
  Proc = {p1}
  Thread = {t1,t2}
  Lineage = {k1}
  Conv = {c1,c2}
  Shared = 1
  Length = {1,2}
  Id = {i1}
  Turn <- FirstTurn
  Recent = 1
  TTL = {1}
  InfTTL = 99
  Extension = {0,1}
  Margin = 0
  MaxLineages = 2
  MaxTime = 2
  CanCrash = TRUE
  CanFail = FALSE
  CanMisread = FALSE
  CanAudit = FALSE
  CanFailOpen = FALSE
  Sticky = TRUE
  NONE = NONE
SYMMETRY Symmetric
CHECK_DEADLOCK FALSE
INVARIANTS EvictedStaysEvicted InflightExact
PROPERTIES ColdOnlyWhenExpired ColdIsOneConversation KeepsLedger
