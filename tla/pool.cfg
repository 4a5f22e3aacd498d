SPECIFICATION Spec
CONSTANTS
    AddrSpace = 65536
    s1 = s1  s2 = s2  s3 = s3  s4 = s4
    u1 = u1  u2 = u2
    Sessions = {s1, s2, s3, s4}
    Anonymous = {s4}
    Users = {u1, u2}
    UserOf <- TwiceOnceAndAnonymous
    Networks <- MCNetworks
    Subnet <- Net29
    MaxAttempts = 6
    LeaseDuration = 1
    NoIP = NoIP
    NoLease = NoLease
SYMMETRY SessionsOfOneUser
INVARIANTS
    DistinctAddresses
    WithheldIsLastGiven
    ProbeIsLoop
PROPERTIES
    KeepsPromise
    ReturnsToSameAddress
    OnlyOverwritingLoses
