SPECIFICATION BuiltSpec
CONSTANTS
  None = None
  Sockets = {s1, s2}
  Addresses = {a1}
  Ports = {1800}
  Descriptors = {3, 4}
INVARIANT
  OwnHandle
CHECK_DEADLOCK FALSE
