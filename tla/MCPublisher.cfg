SPECIFICATION Spec
CONSTANTS
    Width = 2
    Base = 8
    MemoryLimit = 12
    OkData <- MCOk
    HeartbeatData <- MCHeartbeat
    ErrorData <- MCError
    CleanSize = 4
    Parts = 3
    MaxCalls = 3
    MaxBeats = 3
    MaxCloses = 1
    MaxEvents = 3
    Hazards = {"split_size", "split_body", "dirty_heap", "partial_send"}
CHECK_DEADLOCK FALSE
INVARIANTS
    TrueMeansStored
    FalseMeansRefused
    HeartbeatsAnswered
    ExceptionMeansClosed
    TrueHasAnOk
PROPERTIES
    CallsReturn
