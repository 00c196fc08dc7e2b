CONSTANTS
  Clients = {c1, c2}
  Cameras = {k1}
  None = None
SPECIFICATION CamerasSpec
PROPERTY CleanUpReachesCamera
CHECK_DEADLOCK FALSE
