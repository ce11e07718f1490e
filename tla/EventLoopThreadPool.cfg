SPECIFICATION Spec
CONSTANTS
  NumThreads = 3
  MaxCalls = 4
INVARIANTS
  TypeOK
  RoundRobin
PROPERTY
  StartReturns
CHECK_DEADLOCK FALSE
