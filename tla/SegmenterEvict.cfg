SPECIFICATION FairSpec
CONSTANTS
  Threads = {t1, t2}
  Renditions = {r1, r2}
  Segs = {s1}
  MaxMutexes = 3
  MaxTranscodes = 1
  MaxBytes = 1
  Events = {"crash", "remove"}
  None = None
INVARIANT TypeOK
PROPERTY CallsReturn
PROPERTY OnlyRemovalsTear
