CONSTANTS
  Rows = {1, 2, 3, 4}
  TopN = 1
  HardCap = 2
SPECIFICATION Spec
CHECK_DEADLOCK FALSE
INVARIANT ColumnLeadersSent
