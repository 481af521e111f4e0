SPECIFICATION LongRunFairSpec
CONSTANTS
  Units = 2
  Tranche = 2
  MaxOutstanding = 2
  Credits = 2
  NumProcs = 2
  MaxRequests = 3
CHECK_DEADLOCK FALSE
INVARIANTS CompletedOnce FuseBounded RunningIsDriven
PROPERTIES DriverRests
