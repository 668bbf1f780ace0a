SPECIFICATION FairSpec
CONSTANTS
  Peers = {p1, p2}
  Foreign = {p2}
  NoPeer = NoPeer
  MaxFrames = 2
INVARIANTS
  HandlesAgree
  SessionFollowsTransport
PROPERTIES
  StopCompletes
  ClosedSenderReleasesListener
CHECK_DEADLOCK FALSE
