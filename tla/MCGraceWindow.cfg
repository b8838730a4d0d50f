\* One stream of the user violates at a time.
SPECIFICATION GraceSpec
CONSTANTS
  Callers = {c1}
  Pingers = {}
  MaxOutages = 0
  W = 3
  LogOnlyCount = 1
  ThrottleCount = 2
  MaxRetries = 0
  Unlucky = {}
  TTLsRace = FALSE
  SlowCalls = FALSE
  MaxStrikes = 4
  LastStart = 9
  MaxTime = 13
PROPERTIES
  CountsInWindows
  GradesFollowWindow
