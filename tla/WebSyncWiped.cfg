SPECIFICATION Spec
CONSTANTS
    op = op
    sup = sup
    stop = stop
    sess1 = sess1
    sess2 = sess2
    Devices = {op}
    Ids = {stop}
    NoRec = NoRec
    Owner <- OpOwns
    Coll <- OneColl
    NColls = 1
    ByHand = {}
    Skew <- InStep
    MaxTime = 2
    MaxStray = 0
    MaxKills = 0
PROPERTY ClearedOnlyIfConfirmed
