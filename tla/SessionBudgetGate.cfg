SPECIFICATION Spec
CONSTANTS
  Sessions = {s1, s2}
  Unit = 2
  Default = 4
  MaxBalance = 6
  MaxCost = 3
  MaxParallel = 2
  
PROPERTIES CommitBacked
