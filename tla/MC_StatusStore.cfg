SPECIFICATION Spec
CONSTANTS
  MaxLoads <- MCMaxLoads
  MaxResets <- MCMaxResets
INVARIANT LoopsAreCounted
INVARIANT NoStall
PROPERTY StreamRevives
CHECK_DEADLOCK FALSE
