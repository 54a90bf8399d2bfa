SPECIFICATION Spec
CONSTANTS
  None = None
  Files <- ScanFiles
  Versions = {1, 2}
  MaxChanges = 1
  MaxPasses = 2
  Faults = {"asset", "artist", "album", "track", "rendition", "bump", "probe", "root", "access", "crash"}
  Renderers = {}
  Containers <- NoContainers
  PageSize = 1
INVARIANTS TypeOK RowsLinked CleanPassStoresAll CleanPassSettlesCovers UnannouncedIsReported
CHECK_DEADLOCK FALSE
