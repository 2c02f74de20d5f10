SPECIFICATION ReconnectSpec
CONSTANTS
    MaxFiles = 8
    References = 1
    MaxLosses = 3
    Hazards = {}
CHECK_DEADLOCK FALSE
PROPERTIES
    LostIsRetried
