CONSTANTS
  Cameras = {1, 2, 3}
  Ports = {1, 2}
  Port <- PortOf
  NoCamera = NoCamera
  MaxMishaps = 3
  Posters = {p1, p2}
  Appliers = {a1, a2}
  Panels = {cpu, gpu}
  Default = cpu
  None = None
  Missing = Missing
  Damaged = Damaged
  Senders <- Loops
  Msg = {m1, m2}
  Empty = Empty
  NoOne = NoOne
  Interval = 2
  Timeout = 1
  StaleAfter = 1
  MaxTime = 4
  MaxEvents = 1
  Hosts = {here, there}
  Limit = 2
  MaxSwitches = 1
  Mics = {builtin, headset}
  DefaultMic = headset
  Viewers = {viewer}
  MaxPresses = 3
  MaxSlips = 1
  Tags <- Releases
  Identifiers <- Names
  Value <- ValueOf
  Spelling <- PlaceOf
  NaN <- NotANumber
  MaxUpdates = 2
SPECIFICATION HostSpec
INVARIANT DisabledIsRecorded
INVARIANT ForeignStaysOff
INVARIANT PublishedIsCurrent
INVARIANT UpdatesSound
INVARIANT VersionsOrdered
INVARIANT BrokenAgesToStale
INVARIANT DashboardHonest
PROPERTY RecoveryCompletes
PROPERTY ReleaseNoticed
PROPERTY CallersReturn
PROPERTY MailboxSpec
PROPERTY ViewRefreshed
