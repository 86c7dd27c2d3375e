SPECIFICATION PipelineSpec
CONSTANTS
  MaxBGroup = 4
  MaxBIndex = 2
  MaxU32 = 5
  MaxFrames = 6
  TargetSize = 1
INVARIANTS
  SortedOutput
  ReferenceNotHeld
  NoFrameAhead
  ReferencesFirst
  PriorityOrder
  BelowVideo
  GroupAgreement
CHECK_DEADLOCK FALSE
