SPECIFICATION PartsSpec
CONSTANTS
  Proc = {1, 2}
  Slack = 0
  NoBlock = 0
  MaxIters = 1
  MaxReqs = 3
  MaxTurns = 3
  MaxOdds = 2
  MaxEvents = 4
  Session = {s1, s2, s3}
  Nobody = Nobody
  MaxEdits = 2
  Appender = {a1, a2}
  NoAppender = NoAppender
  SegmentRows = 2
  MaxReceipts = 4
  MaxTrouble = 1
  Sample = {q1, q2, q3}
  Cap = 2
  Arms = 1
  MaxDays = 1
  MaxBreaks = 1
  TtlWorker = {w1, w2}
  Gaps = {2, 3}
  MinGap = 2
  MinHits = 2
  MaxPlanned = 3
  MaxSlips = 1
  Text = {t1, t2}
  Recorder = {p1, p2}
  MaxUpsets = 1
  Server = {u, v}
  ClientId = {i1, i2}
  MaxCalls = 2
  MaxJolts = 2
  MaxSplices = 2
  MaxBlocks = 2
  Entry = {e1, e2}
  Content = {x, y}
  NoFile = NoFile
  MaxSaves = 2
  MaxAborts = 2
  Asker = {k1, k2, k3, k4}
  Quota = 2
  Sizes = {1, 2}
  MaxDay = 1
  Handler = {h1}
  Main = Main
  NoHandle = NoHandle
  MaxCounted = 2
  MaxMishaps = 1
  Booker = {b1, b2, b3}
  Closer = Closer
  ModelId = {m1, m2}
  NoBooker = NoBooker
  MaxRefusals = 1
CHECK_DEADLOCK FALSE
INVARIANTS PartsTypeOK Accepted ThinkingKept Recoverable OwnPatch AsFound ChainWhole NoFalseAlarm CapHolds LearnedFromUsage NeverAnother CalledOnce OwnAnswer Cancellable OneMessage ToolsRun DayCap AccountsKept BookedOnce
PROPERTIES EditFound NoSilentGap OutStaysOut ExactUndo
