SPECIFICATION Spec
CONSTANTS
    loop = loop  tun = tun  ping = ping
    LenBase = 4
    Writers = {loop, tun}
    Locked = {loop, tun}
    Messages <- AndLongest
    Unchecked <- MCUnchecked
    MaxSent = 2
    Nobody = Nobody
INVARIANTS
    UnderstoodAsMeant
CHECK_DEADLOCK FALSE
