SPECIFICATION Spec
CONSTANTS
  FrameLimit <- Limits
  NumStreams = 2
  Streams <- Outs
  PartialResultCount = 2
  TimestampPart = 1
  MaxTroubles = 1
CHECK_DEADLOCK FALSE
INVARIANTS BuffersReturnedOnce NoDeviceError ServedInFull NoneStranded
