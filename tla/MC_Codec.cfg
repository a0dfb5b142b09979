SPECIFICATION Spec
CONSTANTS
  Base = 4
  InitialCapacity = 7
  ByteValues = {0, 3}
  CausingIds = {0, 6}
  Frames <- MC_Frames
  MaxMsgs = 2
INVARIANTS
  TypeOK
  RoundTrip
  LightsShowColours
PROPERTY
  OnlyLongFramesAbort
CHECK_DEADLOCK FALSE
