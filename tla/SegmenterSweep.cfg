SPECIFICATION Spec
CONSTANTS
  Threads = {t1}
  Renditions = {r1, r2, r3}
  Segs = {s1, s2}
  MaxMutexes = 1
  MaxTranscodes = 1
  MaxBytes = 2
  Events = {"ffmpeg", "forced", "leftover"}
  None = None
SYMMETRY Symmetry
PROPERTY CapAfterSweep
PROPERTY EvictsOldestOverCap
