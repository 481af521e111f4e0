SPECIFICATION FairSpec
CONSTANTS
  NumInstances = 3
  Grace = 3
  Beat = 1
  MaxReadFailures = 1
  ResumeMaxAttempts = 2
  MaxAsks = 1
  MaxKills = 2
  MaxUnread = 1
  MaxLost = 0
  MaxMissed = 1
CHECK_DEADLOCK FALSE
INVARIANTS CreatorRunsAlone FollowersAgree
PROPERTIES Concludes
