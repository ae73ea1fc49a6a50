CONSTANTS
  Components = {c1}
  Items = {a, b}
  MaxFetches = 2
SPECIFICATION Spec
CHECK_DEADLOCK FALSE
INVARIANT NewestIsKept
