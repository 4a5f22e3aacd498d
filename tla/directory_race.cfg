SPECIFICATION Spec
CONSTANTS
    c1 = c1  c2 = c2
    lobby = lobby  n2 = n2  n3 = n3  n4 = n4
    u1 = u1  u2 = u2
    Clients = {c1, c2}
    Creators = {c1, c2}
    Names = {lobby, n2, n3}
    Usernames = {u1}
    Configured = {lobby}
    ConfiguredAs <- DefaultConfig
    MaxOctet = 255
    InsertFails = FALSE
    NoRoom = NoRoom
    NoUser = NoUser
    NoName = NoName
    NoPassword = NoPassword
INVARIANTS
    SubnetsDistinct
