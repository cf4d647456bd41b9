CONSTANTS
  Platforms = {{"fast", "slow"}, {"whole", "device"}}
  Clients = {c1}
  None = None
  MaxReading = 1
  MaxClock = 3
  FreshWindow = 1
  Step = 1
  Keep = 2
SPECIFICATION Spec
INVARIANT NoSubscriberLeftOut
INVARIANT ParkedLaneLeavesGap
PROPERTY NothingSampledAfterClose
