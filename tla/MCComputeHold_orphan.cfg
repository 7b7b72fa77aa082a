SPECIFICATION Spec
CONSTANTS
  u1 = u1  u2 = u2  w1 = w1  w2 = w2  h1 = h1  h2 = h2
  Sweeper = Sweeper  NoId = NoId
  Users = {u1, u2}  Wallets = {w1, w2}  Holds = {h1}
  Events = {}  Extends = {}  Handlers = {a}
  UnlimitedUsers = {u2}
  InitWallet <- OwnWallet
  InitMember <- OwnMember
  InitToken <- TwoEach
  MaxComputeQuota = 1  SweepBatch = 1
  MaxTime = 1  MaxFaults = 0  MaxMoves = 1  MaxDeletes = 0
INVARIANTS NoCreditLeftBehind
CHECK_DEADLOCK FALSE
