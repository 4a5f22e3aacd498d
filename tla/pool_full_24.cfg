SPECIFICATION FullSpec
CONSTANTS
    AddrSpace = 65536
    Leaver = 254
    Sessions <- Clients
    Anonymous = {}
    Users <- Clients
    UserOf <- ThemselvesAsUser
    Networks <- OnlyNet24
    Subnet <- Net24
    MaxAttempts = 254
    LeaseDuration = 0
    NoIP = NoIP
    NoLease = NoLease
INVARIANTS
    NoFalseExhaustion
CHECK_DEADLOCK FALSE
