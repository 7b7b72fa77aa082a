SPECIFICATION Spec
CONSTANTS
  u1 = u1  u2 = u2  w1 = w1  w2 = w2  h1 = h1  h2 = h2
  Sweeper = Sweeper  NoId = NoId
  Users = {u1}  Wallets = {w1}  Holds = {h1}
  Events = {e1, e2}  Extends = {x1}  Handlers = {a, b}
  UnlimitedUsers = {}
  InitWallet <- OneWallet
  InitMember <- SharedMember
  InitToken <- TwoEach
  MaxComputeQuota = 2  SweepBatch = 1
  MaxTime = 1  MaxFaults = 1  MaxMoves = 0  MaxDeletes = 0
SYMMETRY Symmetry
INVARIANTS TypeOK HoldAccounting QuotaConserved LogFollowsSettlement TablesExplainHold TokenFollowsWallet
PROPERTIES HoldsOnlyGrow
CHECK_DEADLOCK FALSE
