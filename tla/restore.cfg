SPECIFICATION RestoreSpec
CONSTANTS
  Text = {t1}
  Recorder = {p1, p2}
  MaxUpsets = 0
CHECK_DEADLOCK FALSE
INVARIANT ExpandExact
