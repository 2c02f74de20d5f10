CONSTANTS
    Producers = 3
    ConnectNum = 1
    MaxProcs = 6
    Faults = {"connect_fails", "term_outside_fork"}
    MaxFaults = 2
SPECIFICATION Spec
PROPERTIES
    NoOrphans
CHECK_DEADLOCK FALSE
