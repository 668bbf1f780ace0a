SPECIFICATION Spec
CONSTANTS
  RequestedCapacity = 2
  MaxFrame = 6
INVARIANTS
  EvictionSound
  Conservation
PROPERTIES
  DeliversRecentInOrder
CHECK_DEADLOCK FALSE
