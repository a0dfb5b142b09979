SPECIFICATION TracedSpec
CONSTANTS
  None = None
  Endpoints = {e1}
  Tags = {t}
  Slots = 2
  IdxMod = 4
  MaxSkip = 2
  DropTimeout = 2
  LentInterval = 1
  FrameMin = 1
  TimeMod = 16
  FrameLengths = {1, 2}
  BufferLengths = {2}
  FrameIdxs = {0, 1}
  MaxMsgs = 1
  StartClock = 0
  MaxClock = 6
INVARIANT
  NeverRushes
PROPERTIES
  SilentBeforeTimeout
  SilentBorrowerDropped
CHECK_DEADLOCK FALSE
