SPECIFICATION Spec
CONSTANTS
  Peers = {p1, p2}
  Foreign = {p2}
  NoPeer = NoPeer
  MaxFrames = 2
PROPERTY FramesStayAligned
CHECK_DEADLOCK FALSE
