SPECIFICATION FairSpec
CONSTANTS
  Runners = {a, b}  None = None
  MaxTasks = 1  TTL = 2  MaxTime = 2  EndOfTime = 20  MaxFaults = 1
  TimelyClaims = TRUE  LostReplies = FALSE
PROPERTIES TasksEnd
CHECK_DEADLOCK FALSE
