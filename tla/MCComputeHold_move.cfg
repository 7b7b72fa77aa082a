SPECIFICATION FairSpec
CONSTANTS
  u1 = u1  u2 = u2  w1 = w1  w2 = w2  h1 = h1  h2 = h2
  Sweeper = Sweeper  NoId = NoId
  Users = {u1, u2}  Wallets = {w1, w2}  Holds = {h1, h2}
  Events = {}  Extends = {}  Handlers = {a}
  UnlimitedUsers = {u2}
  InitWallet <- OwnWallet
  InitMember <- OwnMember
  InitToken <- TwoEach
  MaxComputeQuota = 1  SweepBatch = 2
  MaxTime = 1  MaxFaults = 1  MaxMoves = 1  MaxDeletes = 1
INVARIANTS WalletNotOverdrawn
PROPERTIES ImplementsEscrow LapsedHoldsOfLoginsClose
CHECK_DEADLOCK FALSE
