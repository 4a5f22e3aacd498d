SPECIFICATION Spec
CONSTANTS
    loop = loop  tun = tun  ping = ping
    LenBase = 4
    Writers = {loop, tun}
    Locked = {loop, tun}
    Messages <- ShortMessages
    Unchecked <- MCUnchecked
    MaxSent = 2
    Nobody = Nobody
INVARIANTS
    UnderstoodAsMeant
PROPERTIES
    ImplementsChannel
CHECK_DEADLOCK FALSE
