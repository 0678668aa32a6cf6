SPECIFICATION Spec
CONSTANTS
    a = a
    b = b
    day = day
    night = night
    round = round
    Day = 4
    Grace = 1
    Shifts <- MCShifts
    Operators = {ann, bob}
    NoName = NoName
    Machines = {a, b}
    Slug <- Apart
    Durations = {1}
    Counts = {2}
    StartTime = 5
    MaxTime = 9
    MaxTaps = 3
INVARIANTS TypeOK BoardMatchesTheClock EndsAgree MannedTimeIsReal ChartsAgree
PROPERTIES FiledOnce BoardMovesForward
SYMMETRY OperatorsAlike
CHECK_DEADLOCK FALSE
