SPECIFICATION Spec
CONSTANTS
  FrameDuration = 2
  JumpLimit = 4
  First = 0
  FirstAvailable = 0
  Target = 4
  Early = 1
  Late = 3
  MaxSkip = 3
  MaxTime = 14
INVARIANTS
  NoDrift
  NoStall
PROPERTIES
  Paced
  LatencySteady
CHECK_DEADLOCK FALSE
