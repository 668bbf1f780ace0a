\* A queue of one frame, two frames in the socket each way, two controls waiting.
SPECIFICATION WorkersFairSpec
CONSTANTS
  Capacity = 1
  Room = 2
  MaxControls = 2
INVARIANT ReceiverIsTold
PROPERTIES EndIsNoticed NobodyWaitsForEver
CHECK_DEADLOCK FALSE
