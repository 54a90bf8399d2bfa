SPECIFICATION Spec
CONSTANTS
  Threads = {t1, t2}
  Renditions = {r1, r2}
  Segs = {s1}
  MaxMutexes = 3
  MaxTranscodes = 2
  MaxBytes = 1
  Events = {}
  None = None
INVARIANT Exclusive
