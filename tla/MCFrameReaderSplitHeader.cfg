SPECIFICATION Spec
CONSTANTS
    Width = 2
    Base = 8
    HeartbeatSize = 4
    MetaSize = 1
    MemoryLimit = 24
    Frames <- OkFirst
    MaxFrames = 3
    MaxConnections = 1
    Hazards = {"split_header"}
CHECK_DEADLOCK FALSE
INVARIANT HeartbeatsAnswered
