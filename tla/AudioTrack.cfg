CONSTANTS
  AudioUses <- MCUses
SPECIFICATION AudioSpec
INVARIANTS AudioBuffersCirculate
PROPERTY AudioStopReturns
CHECK_DEADLOCK FALSE
