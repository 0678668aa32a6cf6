SPECIFICATION Spec
CONSTANTS
    op = op
    sup = sup
    stop = stop
    sess1 = sess1
    sess2 = sess2
    Devices = {op}
    Ids = {stop, sess1, sess2}
    NoRec = NoRec
    Owner <- OpOwns
    Coll <- TwoColls
    NColls = 2
    ByHand = {op}
    Skew <- InStep
    MaxTime = 1
    MaxStray = 0
    MaxKills = 1
INVARIANT UploadedOrSkipped
PROPERTIES PushedBeforeForgotten OutboxDrains
