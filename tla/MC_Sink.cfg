SPECIFICATION FairSpec
CONSTANTS
  None = None
  Endpoints = {e1, e2}
  Tags = {t}
  Slots = 2
  IdxMod = 4
  MaxSkip = 2
  DropTimeout = 1
  LentInterval = 0
  FrameMin = 1
  TimeMod = 16
  FrameLengths = {0, 1}
  BufferLengths = {2, 3}
  FrameIdxs = {1, 2}
  MaxMsgs = 2
  StartClock = 0
  MaxClock = 2
INVARIANT
  TypeOK
PROPERTIES
  CallReturnsIfRoom
  ImplementsLease
CHECK_DEADLOCK FALSE
