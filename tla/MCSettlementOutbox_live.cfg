SPECIFICATION FairSpec
CONSTANTS
  Requests = {r1}  Nodes = {m, n}  Masters = {m}
  NoNode = NoNode  NoItem = NoItem  RedisEnabled = TRUE
  MemoryLimit = 1  MaxAttempts = 2  Batch = 1
  LostReplies = TRUE  Stragglers = FALSE  LatePasses = TRUE
  MaxFaults = 0  MaxCrashes = 0  MaxStops = 1  MaxOutages = 2
INVARIANTS ShutdownKeepsItems
PROPERTIES ParkedIsReplayed QueuesDrain
