SPECIFICATION FairSpec
CONSTANTS
  Threshold = 1
  Topup = 2
  Purchase = 3
  Promo = 1
  MaxRechargeFails = 2
  Checkouts = {k1, k2}
  InviteCodes = {i1}
  FreeCodes = {f1}
  Calls = {c1, c2}
  Costs = {1, 3}
  MaxTurns = 2
  MaxAdjusts = 1
  MaxSwitches = 2
  MaxCrashes = 1
CHECK_DEADLOCK FALSE
  
PROPERTIES OptOutSticks RetriesConclude
