\* One connection and two sends of two bytes: a send can find the socket full with
\* output of the previous one pending, and be cut by the end of the connection.
CONSTANTS
  Conns = {c1}
  NumThreads = 1
  MessageUnits = 2
  MaxChunks = 1
  MaxSends = 2
SPECIFICATION Spec
INVARIANTS
  TypeOK CloseOnce StreamInOrder PendingMeansWriting
  NoAssertFails NoUseAfterFree DestroyedClean
PROPERTIES ImplementsLife PeerEndReclaims OutputDrains
\* An idle server waits.
CHECK_DEADLOCK FALSE
