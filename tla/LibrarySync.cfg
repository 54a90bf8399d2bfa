SPECIFICATION Spec
CONSTANTS
  None = None
  Files <- SyncFiles
  Versions = {1}
  MaxChanges = 1
  MaxPasses = 2
  Faults = {"crash"}
  Renderers = {r1}
  Containers <- SyncContainers
  PageSize = 1
INVARIANTS CurrentCopy
CHECK_DEADLOCK FALSE
