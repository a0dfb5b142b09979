SPECIFICATION FairSystemSpec
CONSTANTS
  None = None
  Sources = {s1, s2}
  IdxMod = 8
  ByteMod = 8
  TimeMod = 32
  frame_duration_ms = 2
  max_buffered_frames = 3
  retry_timeout_ms = 0
  disconnect_timeout_ms = 2
  max_buffered_frames_default = 3
  retry_timeout_ms_default = 1
  disconnect_timeout_ms_default = 2
  blocking_make_refresh_interval = 1
  StartClock = 0
  MaxFrames = 3
  MaxClock = 14
  Slots = 3
  MaxSkip = 4
  DropTimeout = 2
  LentInterval = 0
  FrameMin = 1
  MaxFaults = 0
PROPERTY SinkReturns
CHECK_DEADLOCK FALSE
