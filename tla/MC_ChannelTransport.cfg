CONSTANTS
  u = u
  s = s
  Requests = {u, s}
  Timed = {u, s}
  Ports = {p1}
  NoPort = NoPort
  Kind <- MCKind
SPECIFICATION Spec
CHECK_DEADLOCK FALSE
INVARIANT TypeOK
INVARIANT PendingExact
INVARIANT FailureIsTotal
INVARIANT AbortFollowsRequest
INVARIANT AbortIsEmitted
PROPERTY CancelReachesService
PROPERTY EveryCallReturns
