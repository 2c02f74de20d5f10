SPECIFICATION LoopSpec
CONSTANTS
    HB = 6
    D = 5
    Rdy = 3
    C = 7
    T = 22
INVARIANTS
    NeverClosed
    NeverTimedOut
