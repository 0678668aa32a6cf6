SPECIFICATION AnsweredSpec
CONSTANTS
    stop = stop
    prod = prod
    Vals = {v}
    NoRec = NoRec
    Ids = {prod}
    Coll <- StopAndProd
    NColls = 2
    Ahead = 0
    MaxTime = 2
    MaxInputs = 0
    MaxKills = 0
PROPERTIES EveryCollectionPulled
CHECK_DEADLOCK FALSE
