----------------------------- MODULE MCSettings -----------------------------
(* Two supervisors' devices, the clock of one of them ahead.               *)
EXTENDS Settings

CONSTANTS a, b

OneAhead == [d \in Devices |-> IF d = a THEN 1 ELSE 0]
=============================================================================
