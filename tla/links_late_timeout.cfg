SPECIFICATION Spec
CONSTANTS
    v1 = v1  v2 = v2
    l1 = l1  l2 = l2  l3 = l3
    h1 = h1  h2 = h2  lan = lan
    VIPs = {v1, v2}
    Links = {l1, l2, l3}
    Hosts = {h1, lan}
    Ports = {2, 3}
    Offers <- MCOffers
    FirstPort = 2
    LastPort = 3
    SymmetricPortSpread = 1
    NoLink = NoLink
PROPERTIES
    NoLateTimeout
CHECK_DEADLOCK FALSE
