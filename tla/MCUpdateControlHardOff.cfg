CONSTANTS
  Posters = {p1, p2}
  Appliers = {a1, a2}
  Panels = {cpu, gpu}
  Default = cpu
  None = None
  Missing = Missing
  Damaged = Damaged
SPECIFICATION Spec
INVARIANT HardOffWins
