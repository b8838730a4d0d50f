\* One stream of the proxy, and a backend that has other clients.
SPECIFICATION EgressSpec
CONSTANTS
  GlobalFloorBytes = 10
  AbsoluteCeilingBytes = 20
  BurstMultiplier = 3
  RateAnomalyFactor = 4
  MinSamplesForAvg = 3
  Unit = 2
  NoRole = "none"
  EndpointOverrides <- MCEndpointOverrides
  RoleMultipliers <- MCRoleMultipliers
  Requests <- MCRequests
  Histories <- MCHistories
  Streams = {s1}
  Rates = {0}
  ChunkSizes = {4, 8, 9}
  MaxChunks = 4
  NoLimit = 1000
  ChunkCounts <- MCChunkCounts
  Payloads <- MCPayloads
  Window = 1
  OtherClients = TRUE
INVARIANTS
  CompleteIsWhole
  GracefulStopDrains
PROPERTIES
  GeneratorEnds
  ServedInTheEnd
