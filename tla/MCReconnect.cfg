SPECIFICATION ReconnectSpec
CONSTANTS
    MaxFiles = 10
    References = 6
    MaxLosses = 4
    Hazards = {"no_route", "no_base"}
CHECK_DEADLOCK FALSE
INVARIANTS
    OneConnection
    SocketsBounded
    NoUseAfterFree
PROPERTIES
    ReconnectsAlways
