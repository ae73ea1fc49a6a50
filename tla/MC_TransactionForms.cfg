SPECIFICATION Spec
CONSTANTS
  r1 = r1
  r2 = r2
  None = None
  Runs <- MCRuns
  Values <- MCValues
  Base <- MCBase
  Shift <- MCShift
  Double <- MCDouble
  Precision <- MCPrecision
  MaxLoads <- MCMaxLoads
INVARIANT OneInFlight
INVARIANT Covered
PROPERTY SubmitSettles
CHECK_DEADLOCK FALSE
