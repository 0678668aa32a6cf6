SPECIFICATION Spec
CONSTANTS
    op = op
    sup = sup
    stop = stop
    sess1 = sess1
    sess2 = sess2
    Devices = {op, sup}
    Ids = {stop}
    NoRec = NoRec
    Owner <- OpOwns
    Coll <- OneColl
    NColls = 1
    ByHand = {}
    Skew <- InStep
    MaxTime = 2
    MaxStray = 1
    MaxKills = 1
INVARIANTS TypeOK PullMissesOnlyLateArrivals
PROPERTY SlowPushUndoesOnlyLater
