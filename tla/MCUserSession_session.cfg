SPECIFICATION Spec
CONSTANTS
    Handlers = {h1, h2}
    CacheTTL = 2
    Grace = 1
    SessionTTL = 3
    IssuanceWindow = 1
    Retention = 3
    MaxTime = 4
    MaxGen = 2
    MaxUser = 2
SYMMETRY Symmetry
INVARIANT TypeOK
INVARIANT StaleEntryIsBounded
INVARIANT RevokedIsDenied
INVARIANT RaceLosersRecover
PROPERTY SnapshotIsRecent
PROPERTY RotationMovesOn
CHECK_DEADLOCK FALSE
