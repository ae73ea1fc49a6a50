CONSTANTS
  c1 = c1
  u = u
  s = s
  o = o
  Clients = {c1}
  Requests = {u, s}
  Streaming = {s}
  Page <- MCPage
  Origin <- MCOrigin
  NoClient = NoClient
  MaxConns = 2
  MaxDeaths = 1
SPECIFICATION Spec
CHECK_DEADLOCK FALSE
INVARIANT TypeOK
INVARIANT SessionsExact
INVARIANT NoCollision
INVARIANT OpenIsTracked
INVARIANT AbortCancelsPending
PROPERTY KeepsContract
