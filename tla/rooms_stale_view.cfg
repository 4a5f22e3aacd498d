SPECIFICATION Spec

CONSTANTS
    s1 = s1  s2 = s2  s3 = s3
    u1 = u1  u2 = u2
    r1 = r1  r2 = r2
    AddrSpace = 65536
    Sessions = {s1, s2}
    Users = {u1, u2}
    UsersOf <- Anyone
    Rooms = {r1}
    SubnetOf <- OneRoom
    Networks <- MCNetworks
    Switchers = {}
    Talkers = {}
    MaxAttempts = 6
    LeaseDuration = 0
    NoIP = NoIP
    NoLease = NoLease
    NoRoom = NoRoom
    NoView = NoView
INVARIANTS
    ViewsSettle
CHECK_DEADLOCK FALSE
