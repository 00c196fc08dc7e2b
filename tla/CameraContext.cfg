SPECIFICATION ContextSpec
CONSTANTS
  Tracks = {1, 2}
  Zsl = 3
  Scenarios <- MCScenarios
  Depth = 1
  MaxFrame = 3
  MaxOut = 3
  Hal1Uses <- MCHal1Uses
  Fds <- MCFds
INVARIANTS
  CameraAssertionsHold
  StartedIsFed
  StoppedIsDrained
  Hal1Serves
CHECK_DEADLOCK FALSE
