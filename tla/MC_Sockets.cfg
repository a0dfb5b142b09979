SPECIFICATION BuiltSpec
CONSTANTS
  None = None
  Sockets = {s1, s2, s3}
  Addresses = {a1, a2}
  Ports = {1800}
  Descriptors = {0, 3, 4}
INVARIANTS
  OwnHandleTillClosedTwice
  NoLeak
PROPERTY
  ImplementsApiTillShared
CHECK_DEADLOCK FALSE
