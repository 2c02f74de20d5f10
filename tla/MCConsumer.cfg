SPECIFICATION Spec
CONSTANTS
    Messages = {m1, m2}
    NoMessage = none
    Workers = {w1}
    Rdy = 2
    AutoFinish = TRUE
    Identify = TRUE
    MaxConnections = 4
    Faults <- AllFaults
    MaxFaults = 1
    MaxFailures = 1
    MaxTouches = 1
CHECK_DEADLOCK FALSE
INVARIANTS
    InFlightAccounted
    NothingToObject
    BacklogBounded
PROPERTIES
    ImplementsDelivery
