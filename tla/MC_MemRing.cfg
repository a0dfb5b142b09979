SPECIFICATION UsedSpec
CONSTANTS
  Byte = {b0, b1}
  Capacity = 6
  ChunkLens = {1, 2}
INVARIANTS
  TypeOK
  AbortsOnlyIfMixed
PROPERTY
  ImplementsByteQueue
CHECK_DEADLOCK FALSE
