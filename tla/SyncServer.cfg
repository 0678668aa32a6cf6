SPECIFICATION Spec
CONSTANTS
    Vals = {none, v}
    NoConfig = none
    NoRec = NoRec
    Ids = {a}
    Reqs = {q1, q2}
    Idle = Idle
    NoFile = NoFile
    MaxTime = 2
    MaxStamp = 3
INVARIANTS TypeOK NoFutureStamp HonestEditWins UnsavedIsScheduled
PROPERTIES RegressOnlyToArrival SavesKeepUp
