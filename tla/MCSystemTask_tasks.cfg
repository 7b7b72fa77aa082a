SPECIFICATION Spec
CONSTANTS
  Runners = {a, b}  None = None
  MaxTasks = 2  TTL = 1  MaxTime = 1  EndOfTime = 4  MaxFaults = 1
  TimelyClaims = FALSE  LostReplies = TRUE
SYMMETRY Symmetry
INVARIANTS OneActiveTask StartedOnce LeaseHonoured
PROPERTIES OutcomeFinal
CHECK_DEADLOCK FALSE
