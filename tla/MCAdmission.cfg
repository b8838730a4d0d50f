\* Two clients of a proxy that is restarted with other configurations.
SPECIFICATION AdmissionSpec
CONSTANTS
  NaN = NaN
  Inf = Inf
  Unit = 2
  Unreadable = Unreadable
  Malformed = Malformed
  Unparsable = Unparsable
  Rejected = Rejected
  NoToken = NoToken
  Down = Down
  Clients = {c1, c2}
  Requests <- MCRequests
  Sources <- MCSources
  Histories <- MCHistories
  TwoTo63 = 10000
SYMMETRY Symmetry
INVARIANTS
  AdmissionTypeOK
  PlainRequestsServed
  PrivilegesTraceToSecrets
  NamesTellUsersApart
  StrippedGetsNoMore
PROPERTIES
  NamesSurviveRestarts
