SPECIFICATION Spec
CONSTANTS
    a = a  b = b
    Managers = {a, b}
    Talkers = {a}
    MaxPort = 7
    LowPort = 2
    BasePort = 3
    Step = 1
    SymmetricPortSpread = 4
    StunServers = 3
    EnoughResults = 2
    NoInfo = NoInfo
    NoLink = NoLink
PROPERTIES
    UpIsUsed
CHECK_DEADLOCK FALSE
