CONSTANTS
  c1 = c1
  u = u
  s = s
  o = o
  Clients = {c1}
  Requests = {u}
  Streaming = {}
  Page <- MCPage
  Origin <- MCOrigin
  NoClient = NoClient
  MaxConns = 1
  MaxDeaths = 0
SPECIFICATION Spec
CHECK_DEADLOCK FALSE
INVARIANT AbortCancelsAll
