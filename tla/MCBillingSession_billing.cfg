SPECIFICATION Spec
CONSTANTS
    Requests = {r1, r2}
    Quotas = {0, 2}
    InitWallet = 2
    InitToken = 3
    SubTotal = 3
    TrustQuota = 1
    MaxFaults = 3
SYMMETRY Symmetry
INVARIANT TypeOK
INVARIANT SubscriptionStaysInPlan
INVARIANT OverdraftIsServed
INVARIANT EndedIsWhole
INVARIANT NothingReturnedTwice
INVARIANT QuietBooks
CHECK_DEADLOCK FALSE
