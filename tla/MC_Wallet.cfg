CONSTANTS
  n1 = n1
  n2 = n2
  n3 = n3
  Notes <- MCNotes
  MaxHeight = 2
  Chunks = 2
  Part <- MCPart
  Recent = 1
  Carries = {0, 2}
  None = None
  Amount <- MCAmount
  Asset <- MCAsset
  Requests <- MCRequests
  Limit <- MCLimit
SPECIFICATION Spec
CHECK_DEADLOCK FALSE
INVARIANT TypeOK
INVARIANT StoredIsPrefix
INVARIANT MemoryIsPrefix
INVARIANT WindowNotBehind
INVARIANT PlanIsWitnessed
INVARIANT SelectionMinimal
INVARIANT NonceShared
