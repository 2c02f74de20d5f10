CONSTANTS
    Producers = 3
    ConnectNum = 1
    MaxProcs = 8
    Faults = {"exit", "term"}
    MaxFaults = 4
SPECIFICATION Spec
INVARIANTS
    OneWorkerPerSlot
PROPERTIES
    EverySlotStaffed
    OnlyNewbornLeft
CHECK_DEADLOCK FALSE
