CONSTANTS
  Origins = {o1, o2}
  Callers = {k1, k2}
  Services = {s1, s2}
  Conns = {p1, p2, p3}
  MaxEpochs = 2
  None = None
SPECIFICATION Spec
CHECK_DEADLOCK FALSE
INVARIANT ServicesCurrent
INVARIANT HeldPortIsCurrent
INVARIANT ToldIsState
SYMMETRY Symmetry
