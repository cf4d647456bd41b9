CONSTANTS
  Passes = {p1, p2}
  Width = 16
  MaxEnergy = 2
  MinSample = 1
  Unsteady = {"one"}
  MaxTime = 3
  MaxFailed = 1
  CacheTTL = 3
  RetryAfter = 2
  StaleGrace = 4
  DiscoveryWait = 1
  ListTime = 11
  Pids = {1, 2, 3, 4}
  MaxAncestry = 8
  MaxForks = 1
  Rows = {1, 2, 3, 4}
  TopN = 1
  HardCap = 2
  Slots = {"drive 0", "drive 1"}
  Volumes = {"C:"}
  MaxChanges = 1
  Drives = {"sda"}
  Parts = {"sda1", "sda2"}
  Sizes = {1}
  MaxMounts = 3
  MaxFailing = 1
  Degrees = {1, 2}
  Clocks = {3, 5, 9}
  MinClock = 2
  MaxClock = 8
  Seed = 4
  Files = {"one", "two"}
  Days = 2
  MaxDay = 3
  MaxTokens = 2
  MaxRecords = 3
SPECIFICATION HostSpec
SYMMETRY Symmetry
CHECK_DEADLOCK FALSE
INVARIANT NeverOverstated
INVARIANT SnapshotHonest
INVARIANT ProcessesFiledRight
INVARIANT DrivesCountedOnce
INVARIANT TokensCountedOnce
PROPERTY DriveListHonest
PROPERTY TemperatureKeepsMeaning
