SPECIFICATION Spec
CONSTANTS
  None = None
  Files <- ScanFiles
  Versions = {1, 2}
  MaxChanges = 1
  MaxPasses = 2
  Faults = {"walk"}
  Renderers = {}
  Containers <- NoContainers
  PageSize = 1
INVARIANT CleanPassStoresAll
CHECK_DEADLOCK FALSE
