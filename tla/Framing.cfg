SPECIFICATION FairSpec
CONSTANTS
  Sizes = {2}
  SliceTypes = {1, 3}
  MaxItems = 3
INVARIANTS
  InStep
  NoOverread
  NothingHeldBack
PROPERTIES
  InOrderOnce
  Delivered
CHECK_DEADLOCK FALSE
