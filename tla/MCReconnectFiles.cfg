SPECIFICATION ReconnectSpec
CONSTANTS
    MaxFiles = 4
    References = 0
    MaxLosses = 3
    Hazards = {}
CHECK_DEADLOCK FALSE
PROPERTIES
    LostIsRetried
