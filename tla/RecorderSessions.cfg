CONSTANTS
  Clients = {1, 2}
  Tracks = {1, 2}
  Layouts <- MCLayouts
  Bound <- MCBound
  MaxSession = 2
  Mortal = {1}
  Recording = {1}
  Cameras = {k1}
  None = None
SPECIFICATION RecorderSpec
INVARIANTS SessionMapsAgree TracksFollowSession OwnershipIsSound
PROPERTY RecorderReturns
CHECK_DEADLOCK FALSE
