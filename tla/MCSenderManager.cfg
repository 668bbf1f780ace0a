SPECIFICATION FairSpec
CONSTANTS
  Targets = {t1, t2}
  NoDevice = NoDevice
  LocalDevice = NoDevice
  Conns = {c1, c2, c3}
  NoConn = NoConn
  MaxConnectAttempts = 2
  MaxOps = 3
INVARIANTS
  AttemptsAccounted
  CaptureFollowsTargets
  SessionsOwned
PROPERTIES
  RemovedStaysRemoved
  StopCompletes
  
CHECK_DEADLOCK FALSE
