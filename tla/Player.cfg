SPECIFICATION FairSpec
CONSTANTS
  BufferTarget = 2
  FirstId = 0
  MaxPlays = 2
  MaxPts = 4
INVARIANTS
  LoopBound
  WaitsMeasured
  LeakBound
PROPERTIES
  RenderedInOrder
  PauseQuiesces
  BufferedShown
CHECK_DEADLOCK FALSE
