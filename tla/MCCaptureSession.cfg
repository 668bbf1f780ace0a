\* Five chunks through a pipe of two, two system calls that fail.
SPECIFICATION CaptureFairSpec
CONSTANTS
  MaxFrames = 5
  PipeSize = 2
  MaxFaults = 2
INVARIANTS NothingLeftBehind EndIsExplained
PROPERTY StopEnds
CHECK_DEADLOCK FALSE
