----------------------------- MODULE MCWebSync -----------------------------
(* WebSync for TLC: an operator's phone and a supervisor's, and the maps    *)
(* from records and devices that the .cfg files cannot write.               *)
EXTENDS WebSync

CONSTANTS op, sup, stop, sess1, sess2

OneColl == [id \in Ids |-> 1]
TwoColls == [id \in Ids |-> IF id = stop THEN 1 ELSE 2]
OpOwns == [id \in Ids |-> op]
InStep == [d \in Devices |-> 0]
=============================================================================
