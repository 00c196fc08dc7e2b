SPECIFICATION Spec
CONSTANTS
  SessionIds <- MCSessionIds
  VideoTracks <- MCVideoTracks
  AudioTracks <- MCAudioTracks
  Uses <- MCUses
  MaxMemory = 4
  MaxQueue = 2
INVARIANTS
  ParcelsReadAsWritten
  HeldFramesMapped
  ListsAgree
  ClientAssertionsHold
PROPERTY
  DeathIsTold
\* The application may stop for good.
CHECK_DEADLOCK FALSE
