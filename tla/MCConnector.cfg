SPECIFICATION Spec
CONSTANTS
    Object = {o, p}
    Address = {a, b}
    a = a
    b = b
    o = o
    p = p
    Nobody = Nobody
    MaxFd = 4
    Lists <- MCLists
    Hazards = {"nsqd_down", "silent", "reconnect", "unchecked", "no_address"}
SYMMETRY MCSymmetry
CHECK_DEADLOCK FALSE
INVARIANTS
    PoolIsOpen
    NoSocketLost
    TrueMeansConnected
    WaitsAreLate
    CallsSurvive
PROPERTIES
    ImplementsNsqdPool
