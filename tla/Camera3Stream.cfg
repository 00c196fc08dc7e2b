CONSTANTS
  Handles = {h1, h2, h3, h4}
  Callers = {"ThreadLoop", "ReprocLoop"}
  Usages = {0, 1}
  HalMaxBuffers = {0, 3}
  ClientUsage = 1
  ClientMaxBuffers = 2
  CounterModulus = 4
  Quiesced = TRUE
SYMMETRY HandleSymmetry
SPECIFICATION Spec
INVARIANTS PoolIsConsistent MonitorTracksPending
CHECK_DEADLOCK FALSE
