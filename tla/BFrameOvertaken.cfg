SPECIFICATION PipelineSpec
CONSTANTS
  MaxBGroup = 9
  MaxBIndex = 7
  MaxU32 = 10
  MaxFrames = 5
  TargetSize = 1
INVARIANT TransmittedInOrder
CHECK_DEADLOCK FALSE
