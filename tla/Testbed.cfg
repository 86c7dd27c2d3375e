SPECIFICATION FairSpec
CONSTANT ProfileLength = 3
INVARIANTS
  TypeOK
  NetworkRestored
  SimulationLogged
  MeasuredOnce
PROPERTY
  SimulationMeasured
CHECK_DEADLOCK FALSE
