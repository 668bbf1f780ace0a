SPECIFICATION FairSpec
CONSTANTS
  TargetBuffer = 2
  Tolerance = 0
  LateDrop = 1
  Grace = 3
  StartThreshold = 2
  MaxPackets = 3
  None = None
  MaxGap = 2
  MaxEvents = 1
  Ahead = 4
  Behind = 3
INVARIANTS
  SessionConsistent
  TimelineConsistent
PROPERTIES
  ReadyPlays
  SilentSenderGivenUp
  StopCompletes
CHECK_DEADLOCK FALSE
