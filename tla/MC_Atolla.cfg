SPECIFICATION ObservedSpec
CONSTANTS
  None = None
  Sources = {s1, s2}
  IdxMod = 4
  ByteMod = 16
  TimeMod = 32
  frame_duration_ms = 2
  max_buffered_frames = 2
  retry_timeout_ms = 1
  disconnect_timeout_ms = 3
  max_buffered_frames_default = 3
  retry_timeout_ms_default = 1
  disconnect_timeout_ms_default = 3
  blocking_make_refresh_interval = 1
  StartClock = 2
  MaxFrames = 5
  MaxClock = 12
  Slots = 2
  MaxSkip = 2
  DropTimeout = 4
  LentInterval = 0
  FrameMin = 1
  MaxFaults = 1
VIEW Seen
INVARIANTS
  InStep
  RingHasRoom
PROPERTIES
  HealthyStaysOpen
  StreamsOnFreshLoan
  SendsOnFreshLoan
CHECK_DEADLOCK FALSE
