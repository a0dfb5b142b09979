SPECIFICATION Spec
CONSTANTS
  None = None
  Endpoints = {e1, e2}
  Tags = {t}
  Slots = 2
  IdxMod = 4
  MaxSkip = 2
  DropTimeout = 1
  LentInterval = 0
  FrameMin = 1
  TimeMod = 16
  FrameLengths = {1}
  BufferLengths = {2}
  FrameIdxs = {0, 1}
  MaxMsgs = 1
  StartClock = 0
  MaxClock = 2
PROPERTY
  LoanEndsByBorrower
CHECK_DEADLOCK FALSE
