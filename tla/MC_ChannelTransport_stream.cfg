CONSTANTS
  u = u
  s = s
  Requests = {s}
  Timed = {s}
  Ports = {p1}
  NoPort = NoPort
  Kind <- MCKind
SPECIFICATION Spec
CHECK_DEADLOCK FALSE
INVARIANT StreamAbortIsEmitted
