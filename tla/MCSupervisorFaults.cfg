CONSTANTS
    Producers = 2
    ConnectNum = 2
    MaxProcs = 7
    Faults = {"exit", "connect_fails", "fork_fails", "term"}
    MaxFaults = 2
SPECIFICATION Spec
INVARIANTS
    ChildrenRecorded
CHECK_DEADLOCK FALSE
