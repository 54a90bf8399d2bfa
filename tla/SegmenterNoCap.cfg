SPECIFICATION Spec
CONSTANTS
  Threads = {t1, t2, t3}
  Renditions = {r1, r2}
  Segs = {s1, s2}
  MaxMutexes = 1
  MaxTranscodes = 2
  MaxBytes = 0
  Events = {"crash", "ffmpeg", "leftover"}
  None = None
SYMMETRY Symmetry
INVARIANT Exclusive
INVARIANT SlotsConserved
INVARIANT LocksOwned
INVARIANT Populated
PROPERTY NeverUnpublished
PROPERTY ImplementsSegmentCache
