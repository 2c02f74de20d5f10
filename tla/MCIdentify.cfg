SPECIFICATION Spec
CONSTANTS
    Width = 2
    Base = 8
    MemoryLimit = 24
    Replies <- MCReplies
    HeartbeatFrame <- MCHeartbeat
    MaxBeats = 2
    MaxMisses = 4
    Hazards = {"split_size", "split_body", "closed"}
CHECK_DEADLOCK FALSE
INVARIANTS
    TypeOK
    TakesTheReply
    WritesInside
PROPERTIES
    IdentifyReturns
