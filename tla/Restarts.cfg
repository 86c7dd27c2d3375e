SPECIFICATION Spec
CONSTANTS
  Timescale = 15
  Second = 31
  Keyframes = {1}
  MaxFrames = 2
  MaxPlays = 3
INVARIANTS
  SamplesPaired
  MissedOnlyTwice
  CleanRestart
CHECK_DEADLOCK FALSE
