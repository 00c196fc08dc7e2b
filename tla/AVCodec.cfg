SPECIFICATION FairSpec
CONSTANTS
  Kinds = {"encoder", "decoder"}
  o1 = o1
  o2 = o2
  Buffers <- MCBuffers
  InCount = 1
  MaxStarts <- MCStarts
  MaxEvents = 1
INVARIANTS
  EncodedBuffersCirculate
  EventsArriveAsExpected
PROPERTIES
  StopReturns
CHECK_DEADLOCK FALSE
