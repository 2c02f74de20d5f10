SPECIFICATION LookupSpec
CONSTANTS
    Nsqd = {n1}
    Hazards = {"cut"}
CHECK_DEADLOCK FALSE
INVARIANTS
    FailedRequestSurvived
