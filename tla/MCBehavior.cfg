\* Two streams of one user end close together, one on a connection that may
\* break, and the user stops.
SPECIFICATION BehaviorSpec
CONSTANTS
  Callers = {c1, c2}
  Sizes = {4}
  WindowSize = 2
  Slack = 1
  Keep = 1
  BlendWindow = 7
  BlendLifetime = 3
  MaxRetries = 1
  Unlucky = {c1}
  TTLsRace = FALSE
  Lag = 1
  LastStart = 4
  MaxRecords = 3
  MaxTime = 8
INVARIANTS
  WindowHoldsRecords
  AverageSettles
  SetBounded
PROPERTIES
  Forgotten
