SPECIFICATION LookupSpec
CONSTANTS
    Nsqd = {n1, n2}
    Hazards = {"local_error", "cut", "not_json", "loop_error"}
CHECK_DEADLOCK FALSE
INVARIANTS
    StartedFromAnswer
    ThrownForAReason
    NoCrash
PROPERTIES
    RetryEnds
