SPECIFICATION Spec
CONSTANTS
  BufferTarget = 2
  FirstId = 0
  MaxPlays = 1
  MaxPts = 2
INVARIANTS
  SessionCoversPlay
CHECK_DEADLOCK FALSE
