SPECIFICATION PartsSpec
CONSTANTS
  Buffers = {b1, b2}
  Tracks <- MCTracks
  Rescaled = {TRUE}
  MaxRepeats = 1
  Inputs = 3
  None = None
  Intervals = {400, 500}
  Gaps = {198, 301, 398, 600, 1000}
  Horizon = 1500
  MaxAhead = 1500
  InBuffers = {i1, i2}
  OutBuffers = {o1, o2}
  MaxPipeStarts = 2
  CodecUses <- MCCodecUses
  InCount = 11
  OutCount = 6
  Extra = 3
SYMMETRY Alike
INVARIANTS BuffersCirculate StoppedHoldsNothing AssertionsHold
           PacedAsAsked RescaledFramesCirculate HeadersMatchPorts 
CHECK_DEADLOCK FALSE
