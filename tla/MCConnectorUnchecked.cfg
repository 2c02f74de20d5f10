SPECIFICATION Spec
CONSTANTS
    Object = {o}
    Address = {a, b}
    a = a
    b = b
    o = o
    Nobody = Nobody
    MaxFd = 2
    Lists <- MCOne
    Hazards = {"nsqd_down", "unchecked"}
CHECK_DEADLOCK FALSE
PROPERTIES
    ExampleSurvives
