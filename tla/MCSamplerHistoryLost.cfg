CONSTANTS
  Platforms = {{"fast", "slow"}}
  Clients = {c1}
  None = None
  MaxReading = 1
  MaxClock = 4
  FreshWindow = 1
  Step = 1
  Keep = 3
SPECIFICATION Spec
PROPERTY HistoryComplete
