SPECIFICATION FairSpec
CONSTANTS
  MaxOps = 2
  MaxCaptures = 2
  QueueCapacity = 1
INVARIANTS
  ViewsAgree
  NoGhostMirror
PROPERTIES
  StartingResolves
  ToggleReported
CHECK_DEADLOCK FALSE
