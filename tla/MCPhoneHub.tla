----------------------------- MODULE MCPhoneHub -----------------------------
(* PhoneHub for TLC: a record of two collections. *)
EXTENDS PhoneHub

CONSTANTS stop, prod

StopAndProd == [id \in Ids |-> IF id = stop THEN 1 ELSE 2]
=============================================================================
