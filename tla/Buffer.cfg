SPECIFICATION Spec
CONSTANTS
  Buffers = {"in", "out"}
  Byte = {"x", "y", "0"}
  Zero = "0"
  Chunks <- SmallChunks
  kCheapPrepend = 2
  kInitialSize = 1
  ExtraSize = 1
  MaxReadable = 2
INVARIANTS
  TypeOK
  MakesRoom
  GrowthBounded
PROPERTY
  ImplementsByteQueue
