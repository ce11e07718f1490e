\* Two requests, the second after the first is answered.
CONSTANTS
  Requests <- MixedRequests
  Files = {"index.html"}
  MaxRequests = 2
  MaxAhead = 1
  MaxSize = 2
  FileChanges = FALSE
  MessageUnits = 1
SPECIFICATION Spec
INVARIANTS TypeOK ResponseWhole DescriptorClosed
PROPERTY ImplementsSession
\* A client may have nothing more to ask.
CHECK_DEADLOCK FALSE
