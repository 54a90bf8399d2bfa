SPECIFICATION TranscodeSpec
CONSTANTS
  Files <- MCFiles
  None = None
  Targets <- MCTargets
  Bitrates = {96}
  Covered <- MCCovered
  MaxRuns = 2
INVARIANT OriginalsKept
CHECK_DEADLOCK FALSE
