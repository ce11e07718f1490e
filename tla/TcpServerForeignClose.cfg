\* A foreign force_close and the loop's own handling of the end.
CONSTANTS
  Conns = {c1}
  NumThreads = 1
  MessageUnits = 1
  MaxChunks = 0
  MaxSends = 0
  TimerCalls = FALSE
  ForeignCalls = 1
SPECIFICATION SpecShared
INVARIANT CloseOnce
\* An idle server waits.
CHECK_DEADLOCK FALSE
