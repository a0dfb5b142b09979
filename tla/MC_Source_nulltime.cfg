SPECIFICATION Spec
CONSTANTS
  None = None
  Sources = {s1}
  IdxMod = 3
  ByteMod = 16
  TimeMod = 64
  frame_duration_ms = 1
  max_buffered_frames = 2
  retry_timeout_ms = 1
  disconnect_timeout_ms = 3
  max_buffered_frames_default = 3
  retry_timeout_ms_default = 1
  disconnect_timeout_ms_default = 3
  blocking_make_refresh_interval = 1
  StartClock = 0
  MaxFrames = 5
  MaxClock = 6
INVARIANT
  Paced
CHECK_DEADLOCK FALSE
