\* Two sources and an output; three changes, one failure, two user actions.
SPECIFICATION FairSpec
CONSTANTS
  Sources = {"monitor", "mic"}
  SystemDefault = "monitor"
  NoSource = NoSource
  Error = Error
  MaxPlugs = 3
  MaxFailures = 1
  MaxOps = 2
  MaxResults = 2
INVARIANT SelectionAgrees
PROPERTY InventoryCatchesUp
