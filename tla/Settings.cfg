SPECIFICATION Spec
CONSTANTS
    a = a
    b = b
    Devices = {a, b}
    Factory = Factory
    Patient = {b}
    Skew <- OneAhead
    MaxTime = 2
    MaxEdits = 2
    MaxStray = 1
    MaxStops = 1
INVARIANTS TypeOK EditsAreKept
PROPERTIES OneSettings RevertsBySkewOrSlowPut
