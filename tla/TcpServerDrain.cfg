\* shutdown() while output is pending.
CONSTANTS
  Conns = {c1}
  NumThreads = 1
  MessageUnits = 2
  MaxChunks = 1
  MaxSends = 1
SPECIFICATION Spec
INVARIANT DrainedIsShutdown
CHECK_DEADLOCK FALSE
