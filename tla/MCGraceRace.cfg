\* Two streams find the window over at once.
SPECIFICATION GraceSpec
CONSTANTS
  Callers = {c1, c2}
  Pingers = {}
  MaxOutages = 0
  W = 2
  LogOnlyCount = 1
  ThrottleCount = 2
  MaxRetries = 0
  Unlucky = {}
  TTLsRace = FALSE
  SlowCalls = FALSE
  MaxStrikes = 3
  LastStart = 5
  MaxTime = 8
INVARIANTS
  OneFirstStrike
