SPECIFICATION LookupSpec
CONSTANTS
    Nsqd = {n1}
    Hazards = {}
CHECK_DEADLOCK FALSE
INVARIANTS
    MissingKeyIsThrown
