SPECIFICATION Spec
CONSTANTS
    None = None
    MaxTime = 1
    MaxStops = 2
    MaxDeaths = 1
    MaxWrites = 2
    MaxDiscards = 2
    MaxRecords = 2
INVARIANTS TypeOK EveryStopOnce
CHECK_DEADLOCK FALSE
