SPECIFICATION FairSpec
CONSTANT MaxFrames = 5
INVARIANTS
  DecoderFindsFrame
  ProcessingAccounted
  LatencyAnchor
PROPERTIES
  DecodableOrder
  FedOrSuperseded
CHECK_DEADLOCK FALSE
