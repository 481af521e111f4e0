SPECIFICATION FairSpec
CONSTANTS
  Procs = {p, q}
  Legacy = {q}
  Jobs = {i}
  Shell = {i}
  NumStreams = 3
  MaxFaults = 1
  MaxUpsets = 1
CHECK_DEADLOCK FALSE
INVARIANTS ReaderIsRegistered
PROPERTIES KillsOnlySettled  StopReaches 
