\* One receiver, our sender and another one, one registration that fails, two
\* attempts per target, two buttons.
SPECIFICATION Spec
CONSTANTS
  Senders = {"us", "other"}
  Us = "us"
  None = None
  Ips = {"ip1"}
  MaxChanges = 3
  MaxFailures = 1
  MaxAttempts = 2
  MaxCommands = 2
  MaxOps = 2
 
PROPERTIES  GoneReceiverIsDropped
