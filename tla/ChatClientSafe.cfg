SPECIFICATION ClientSpec
CONSTANTS
  Chats = {a, b}
  MaxLen = 3
  MaxSessions = 5
  MaxReaders = 5
  MaxSwitches = 2
  MaxReloads = 1
  MaxCuts = 1
  MaxLostCollects = 0
  EarlyLeave = TRUE
  LeaveAttached = FALSE
  SlowList = FALSE
  OpenWhileFetching = FALSE
  CutWhileClosing = FALSE
CHECK_DEADLOCK FALSE
INVARIANTS  CursorExact
