CONSTANTS
  MaxVersion = 3
  Partial = Partial
  Absent = Absent
SPECIFICATION Spec
INVARIANT LeftAsFound
