CONSTANTS
  Slots = {s1, s2}
  Volumes = {v1}
  MaxChanges = 1
SPECIFICATION Spec
CHECK_DEADLOCK FALSE
INVARIANT ExcludedLeftAlone
