SPECIFICATION Spec
CONSTANTS
    Tabs = {t1, t2}
    MaxSessions = 2
    MaxVer = 1
    MaxQueue = 1
    MaxEvents = 2
SYMMETRY Symmetry
INVARIANT TypeOK
INVARIANT SignedOutStaysOut
INVARIANT NoReuseWithoutLoss
PROPERTY RefreshKeepsRotation
