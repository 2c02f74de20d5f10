SPECIFICATION Spec
CONSTANTS
    Messages = {m1}
    NoMessage = none
    Workers = {w1, w2}
    Rdy = 1
    AutoFinish = FALSE
    Identify = FALSE
    MaxConnections = 4
    Faults <- AllFaults
    MaxFaults = 1
    MaxFailures = 1
    MaxTouches = 0
CHECK_DEADLOCK FALSE
INVARIANTS
    FinAfterHandling
PROPERTIES
    EveryMessageFinishes
