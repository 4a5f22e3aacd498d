SPECIFICATION Spec
SYMMETRY Alike
CONSTANTS
    g1 = g1  g2 = g2
    Goroutines = {g1, g2}
    None = None
    ReadTimeout = 6
    PingEvery = 2
    PingTimeout = 9
    CheckEvery = 3
    MaxRequests = 2
    MaxQueue = 1
INVARIANTS
    TypeOK
    LiveIsKept
    SilentIsForgotten
    SessionAgrees
CHECK_DEADLOCK FALSE
