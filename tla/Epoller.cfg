SPECIFICATION Spec
CONSTANTS
  Channels = {c1, c2, c3}
  Interest = {"in", "out"}
  InitialEvents = 2
  CtlFails = FALSE
INVARIANTS
  TypeOK
  InterestAgrees
PROPERTY
  Served
CHECK_DEADLOCK FALSE
