SPECIFICATION Spec
CONSTANTS
  Requests = {r1}  Nodes = {m, n}  Masters = {m}
  NoNode = NoNode  NoItem = NoItem  RedisEnabled = TRUE
  MemoryLimit = 1  MaxAttempts = 2  Batch = 2
  LostReplies = FALSE  Stragglers = FALSE  LatePasses = FALSE
  MaxFaults = 2  MaxCrashes = 1  MaxStops = 1  MaxOutages = 2
INVARIANTS TypeOK ChargedAtMostOnce ReplayExclusive NothingVanishes LoggedAtMostOnce SetAsideOnlyAfterFailures
