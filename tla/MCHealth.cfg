\* Nothing calls Ping: /health after an outage.
SPECIFICATION FailOpenSpec
CONSTANTS
  Callers = {c1, c2}
  Pingers = {}
  MaxOutages = 2
PROPERTIES
  HealthTracksRedis
