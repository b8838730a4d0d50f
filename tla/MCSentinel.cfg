\* Two streams of one user, an outage at any moment, clients that leave.
SPECIFICATION SentinelSpec
CONSTANTS
  GlobalFloorBytes = 1
  AbsoluteCeilingBytes = 3
  BurstMultiplier = 3
  RateAnomalyFactor = 4
  MinSamplesForAvg = 3
  Unit = 2
  NoRole = "none"
  EndpointOverrides <- None
  RoleMultipliers <- MCRoleMultipliers
  Requests <- MCRequests
  Histories <- MCHistories
  Streams = {s1, s2}
  Rates = {0}
  ChunkSizes = {1}
  MaxChunks = 1
  NoLimit = 1000
  MaxOutages = 1
  W = 1
  LogOnlyCount = 1
  ThrottleCount = 2
  MaxRetries = 1
  MaxStrikes = 5
  MaxTime = 1
  MaxTroubles = 2
SYMMETRY Symmetry
INVARIANTS
  SentinelTypeOK
  TerminatedOnlyForViolations
  Escalates
  DegradedOnlyByOutage
