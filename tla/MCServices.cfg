CONSTANTS
  MaxVersion = 3
  Callers = {c1, c2}
  Requests = {r1, r2}
  QuotaTTL = 1
  QuotaStale = 2
  StartupDelay = 1
  PollInterval = 2
  Backoff429 = 3
  CredRetry = 1
  AskedTime = 3
  AskedActs = 2
  PolledTime = 7
  PolledActs = 2
  BesideTime = 4
  BesideActs = 1
  MetricsTTL = 1
  CollectTimeout = 1
  MetricsMaxAge = 1
  HeldUp = 1
  FirstPass = 2
  CacheTime = 5
  StreamKeepalive = 2
  StreamWriteTimeout = 1
  StreamIdleLimit = 3
  StreamBuffer = 1
  StreamTime = 9
  ColdTimeout = 2
  WarmTimeout = 1
  OneShotTimeout = 1
  RestartBackoff = 2
  DisableFailures = 2
  RescanReads = 2
  RescanAge = 3
  BridgeTTL = 1
  BridgeTime = 5
  MaxRequests = 5
  Step = 2
  Keep = 4
  RingTime = 6
  MaxReading = 1
  MaxLog = 3
  Grace = 2
  MainTime = 4
  Partial = Partial
  Absent = Absent
SPECIFICATION HostSpec
SYMMETRY Symmetry
CHECK_DEADLOCK FALSE
INVARIANT AnswersFresh
INVARIANT ReadingAgeBounded
INVARIANT ReadyOnlyMeasured
INVARIANT StreamsEndWhenDead
INVARIANT RingAnswersForWindow
INVARIANT OutcomeHonest
INVARIANT PreviousKept
INVARIANT BridgeSound
PROPERTY RetriesPaced
PROPERTY FilesMovedWhileStopped
