SPECIFICATION Spec
CONSTANTS
    a = a  b = b  a2 = a2
    va = va  vb = vb
    Clients = {a, b, a2}
    Leavers = {a}
    VipOf <- Leased
    Outcomes = {"active"}
    Capacity = 1
    None = None
INVARIANTS
    EachToldOfTheOther
CHECK_DEADLOCK FALSE
