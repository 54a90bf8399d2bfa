SPECIFICATION FairSpec
CONSTANTS
  Procs = {"dlna", "worker"}
  Workers = {"worker"}
  Baseline <- MCBaseline
  Newest <- MCNewest
  Understands <- MCUnderstands
  Configs <- MCConfigs
  MaxFaults = 2
  MaxCalls = 1
INVARIANTS TypeOK RecordedIsApplied ServesCompleteSchema AnswersHold
PROPERTIES ComesUp CallsAnswered
CHECK_DEADLOCK FALSE
