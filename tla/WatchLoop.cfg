SPECIFICATION FairSpec
CONSTANTS
  Root = "root"
  Dirs <- MCDirs
  Parent <- MCParent
  Trees <- MCTrees
  MaxEdits = 3
  MaxFaults = 1
  Backends = {"inotify", "fsevents", "polling"}
INVARIANTS TypeOK EveryDirWatched NothingMissed
PROPERTIES CatchesUp StopsOnSignal
CHECK_DEADLOCK FALSE
