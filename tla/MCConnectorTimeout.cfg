SPECIFICATION Spec
CONSTANTS
    Object = {o}
    Address = {a, b}
    a = a
    b = b
    o = o
    Nobody = Nobody
    MaxFd = 2
    Lists <- MCLists
    Hazards = {"silent"}
CHECK_DEADLOCK FALSE
INVARIANTS
    ConnectBounded
