SPECIFICATION Spec
CONSTANTS
    c1 = c1  c2 = c2
    Clients = {c1, c2}
    Present = {c1}
    Talkers = {c1}
    Pingers = {c2}
    Sleepers = {c2}
    Nobody = Nobody
    Idle = Idle
    Capacity = 1
INVARIANTS
    CheckerGetsThrough
CHECK_DEADLOCK FALSE
