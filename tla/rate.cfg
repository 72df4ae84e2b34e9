CONSTANTS
    c1 = c1
    c2 = c2
    c3 = c3
    c4 = c4
    Call = {c1, c2, c3, c4}
    Every = 3
    Bits = 3
    MaxClock = 2
SYMMETRY Alike
SPECIFICATION Spec
INVARIANT ZeroIntervalExplained
CHECK_DEADLOCK FALSE
