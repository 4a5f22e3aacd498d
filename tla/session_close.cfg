SPECIFICATION Spec
CONSTANTS
    g1 = g1  g2 = g2
    Goroutines = {g1, g2}
    None = None
    ReadTimeout = 3
    PingEvery = 1
    PingTimeout = 4
    CheckEvery = 2
    MaxRequests = 2
    MaxQueue = 1
INVARIANTS
    CloseReleases
CHECK_DEADLOCK FALSE
