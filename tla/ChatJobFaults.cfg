SPECIFICATION FairSpec
CONSTANTS
  TailCap = 2
  FlushMax = 2
  MaxBody = 2
  MaxCuts = 1
  MaxReloads = 1
  MaxKills = 1
  MaxDrains = 1
  MaxLate = 1
  MaxStoreFails = 1
  CutMidReplay = FALSE
CHECK_DEADLOCK FALSE
INVARIANTS  LossBounded DoneIsDurable
PROPERTIES  VerdictReached
