SPECIFICATION Spec
CONSTANTS
    Tabs = {t1, t2}
    MaxSessions = 2
    MaxVer = 0
    MaxQueue = 1
    MaxEvents = 3
SYMMETRY Symmetry
PROPERTY NeverBackToOlder
