SPECIFICATION Spec
CONSTANTS
    Width = 2
    Base = 8
    HeartbeatSize = 4
    MetaSize = 1
    MemoryLimit = 24
    Frames <- MCFrames
    MaxFrames = 2
    MaxConnections = 2
    Hazards = {"split_header", "split_error", "pipelined_error", "cut_frame"}
CHECK_DEADLOCK FALSE
INVARIANTS
    TypeOK
    ReaderParked
    FaithfulDecoding
PROPERTY ReadcbReturns
