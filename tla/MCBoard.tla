------------------------------ MODULE MCBoard -------------------------------
(* A day of four units with a day shift, an overnight one and one round the  *)
(* clock; two machines.                                                     *)
EXTENDS Board, TLC

CONSTANTS a, b, day, night, round

MCShifts == (day :> [start |-> 1, end |-> 2]) @@ (night :> [start |-> 3, end |-> 1])
            @@ (round :> [start |-> 2, end |-> 2])
Apart == (a :> 1) @@ (b :> 2)
OperatorsAlike == Permutations(Operators)
=============================================================================
