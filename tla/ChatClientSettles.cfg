SPECIFICATION ClientFairSpec
CONSTANTS
  Chats = {a, b}
  MaxLen = 3
  MaxSessions = 4
  MaxReaders = 4
  MaxSwitches = 1
  MaxReloads = 0
  MaxCuts = 1
  MaxLostCollects = 1
  EarlyLeave = FALSE
  LeaveAttached = FALSE
  SlowList = TRUE
  OpenWhileFetching = TRUE
  CutWhileClosing = TRUE
CHECK_DEADLOCK FALSE
PROPERTIES RunSettles
