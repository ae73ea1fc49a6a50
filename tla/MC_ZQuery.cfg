CONSTANTS
  Components = {c1, c2}
  Items = {a, b}
  MaxFetches = 3
SPECIFICATION Spec
CHECK_DEADLOCK FALSE
INVARIANT TypeOK
INVARIANT LoadingIsLive
INVARIANT NewestIsCurrent
INVARIANT QuietIsExact
SYMMETRY Symmetry
