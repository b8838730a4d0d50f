\* Slow calls, a failing connection and two outages.
SPECIFICATION GraceSpec
CONSTANTS
  Callers = {c1}
  Pingers = {}
  MaxOutages = 2
  W = 1
  LogOnlyCount = 1
  ThrottleCount = 2
  MaxRetries = 1
  Unlucky = {c1}
  TTLsRace = TRUE
  SlowCalls = TRUE
  MaxStrikes = 2
  LastStart = 2
  MaxTime = 3
INVARIANTS
  NoCallOnNilClient
PROPERTIES
  EvaluateReturns
  OutageNoticed
