SPECIFICATION Spec
CONSTANT ProfileLength = 3
INVARIANT UninterruptedPlayback
CHECK_DEADLOCK FALSE
