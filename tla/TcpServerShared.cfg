\* A connection's own send, from a callback or a timer, and two calls of the foreign thread.
CONSTANTS
  Conns = {c1}
  NumThreads = 1
  MessageUnits = 2
  MaxChunks = 0
  MaxSends = 1
  TimerCalls = TRUE
  ForeignCalls = 2
SPECIFICATION SpecShared
INVARIANT SendersInOrder
\* An idle server waits.
CHECK_DEADLOCK FALSE
