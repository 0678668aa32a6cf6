SPECIFICATION Spec
CONSTANTS
    stop = stop
    prod = prod
    Vals = {v}
    NoRec = NoRec
    Ids = {stop, prod}
    Coll <- StopAndProd
    NColls = 2
    Ahead = 1
    MaxTime = 2
    MaxInputs = 2
    MaxKills = 1
INVARIANTS TypeOK ForwardedOrSkipped PulledOrLate FileInStep
CHECK_DEADLOCK FALSE
