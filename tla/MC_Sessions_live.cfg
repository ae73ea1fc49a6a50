CONSTANTS
  c1 = c1
  u = u
  s = s
  o = o
  Clients = {c1}
  Requests = {s}
  Streaming = {s}
  Page <- MCPage
  Origin <- MCOrigin
  NoClient = NoClient
  MaxConns = 2
  MaxDeaths = 1
SPECIFICATION Spec
CHECK_DEADLOCK FALSE
PROPERTY CanceledEnds
PROPERTY RequestIsTaken
