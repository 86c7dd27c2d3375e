SPECIFICATION Spec
CONSTANTS
  Timescale = 15
  Second = 31
  Keyframes = {1, 3}
  MaxFrames = 4
  MaxPlays = 2
INVARIANT FrameInMap
CHECK_DEADLOCK FALSE
