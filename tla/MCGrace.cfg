\* Two streams of one user violate while Redis works.
SPECIFICATION GraceSpec
CONSTANTS
  Callers = {c1, c2}
  Pingers = {}
  MaxOutages = 0
  W = 2
  LogOnlyCount = 1
  ThrottleCount = 2
  MaxRetries = 0
  Unlucky = {}
  TTLsRace = FALSE
  SlowCalls = FALSE
  MaxStrikes = 4
  LastStart = 6
  MaxTime = 9
INVARIANTS
  StrikesExpire
PROPERTIES
  Forgiven
