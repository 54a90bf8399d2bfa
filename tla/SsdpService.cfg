SPECIFICATION FairSpec
CONSTANTS
  Rate = 1
  Burst = 2
  Adverts = 2
  MaxTime = 3
  Never = Never
  None = None
INVARIANTS TypeOK RateBound SocketOutlivesUsers SaysGoodbye
PROPERTY StopReturns
CHECK_DEADLOCK FALSE
