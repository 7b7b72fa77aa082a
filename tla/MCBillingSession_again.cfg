SPECIFICATION Spec
CONSTANTS
    Requests = {r1}
    Quotas = {1}
    InitWallet = 2
    InitToken = 2
    SubTotal = 2
    TrustQuota = 1
    MaxFaults = 1
INVARIANT RefundIsIdempotent
CHECK_DEADLOCK FALSE
