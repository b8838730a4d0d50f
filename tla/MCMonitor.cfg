\* One stream, every kind of request and history, and its contract.
SPECIFICATION MetricsSpec
CONSTANTS
  GlobalFloorBytes = 10
  AbsoluteCeilingBytes = 20
  BurstMultiplier = 3
  RateAnomalyFactor = 4
  MinSamplesForAvg = 3
  Unit = 2
  NoRole = "none"
  EndpointOverrides <- MCEndpointOverrides
  RoleMultipliers <- MCRoleMultipliers
  Requests <- MCRequests
  Histories <- MCHistories
  Bypass = TRUE
  Streams = {s1}
  Bytes = {0, 4, 9}
  Amounts <- MCAmounts
  Rates = {0, 5}
  ChunkSizes = {4, 9}
  MaxChunks = 6
  NoLimit = 1000
INVARIANTS
  CountersReconcile
  CeilingHolds
  OverLimitOnlyIfGraded
  KillJustified
  ThrottledPastPoint
  HistoryCoversDelivery
PROPERTIES
  LimitsFixed
  GradedOnce
  OneMoreChunk
  DisconnectEndsHandler
  ImplementsContract
