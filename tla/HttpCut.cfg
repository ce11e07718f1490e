\* One request, cut anywhere.
CONSTANTS
  Requests <- OneRequest
  Files = {"index.html"}
  MaxRequests = 1
  MaxAhead = 1
  MaxSize = 1
  FileChanges = FALSE
  MessageUnits = 1
SPECIFICATION Spec
INVARIANT NoAssertFails
CHECK_DEADLOCK FALSE
