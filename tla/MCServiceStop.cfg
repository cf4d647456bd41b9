CONSTANTS
  Grace = 2
  MaxTime = 4
SPECIFICATION Spec
CHECK_DEADLOCK FALSE
INVARIANT StopIsGraceful
