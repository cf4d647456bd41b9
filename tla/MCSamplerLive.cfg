CONSTANTS
  Platforms = {{"fast", "slow"}}
  Clients = {c1}
  None = None
  MaxReading = 2
  MaxClock = 1
  FreshWindow = 1
  Step = 1
  Keep = 2
SPECIFICATION FairSpec
PROPERTY ReadingReachesClient
PROPERTY IdleLoopsPark
PROPERTY StopCompletes
