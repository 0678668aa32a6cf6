SPECIFICATION Spec
CONSTANTS
    a = a
    b = b
    Names = {ann}
    NoName = NoName
    Machines = {a, b}
    NoMachine = NoMachine
    Rank <- MCRank
    Probing = FALSE
    Boundary = 2
    ConfirmAfter = 1
    StaleAfter = 0
    Reports = {1}
    MaxTime = 3
    MaxStops = 2
    MaxSessions = 3
    MaxKills = 1
    MaxSetups = 2
INVARIANTS TypeOK DowntimeCountedOnce NeverOvercounts OnePlaceAtATime OpenSessionIsKnown
PROPERTY DowntimeKept
CHECK_DEADLOCK FALSE
