SPECIFICATION Spec
CONSTANTS
  TailCap = 2
  FlushMax = 3
  MaxBody = 5
  MaxCuts = 2
  MaxReloads = 1
  MaxKills = 0
  MaxDrains = 0
  MaxLate = 0
  MaxStoreFails = 0
  CutMidReplay = FALSE
CHECK_DEADLOCK FALSE
INVARIANTS TextExact ExplainedStop
 
