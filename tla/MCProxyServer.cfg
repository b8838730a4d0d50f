\* Three requests and a health check, two slots.
SPECIFICATION ProxySpec
CONSTANTS
  Requests = {r1, r2, r3, h}
  Health = {h}
  MaxConcurrent = 2
INVARIANTS
  SlotsBound
  DrainedBeforeClose
PROPERTIES
  RejectedOnlyWhenFull
  ShutdownEnds
