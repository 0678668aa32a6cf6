----------------------------- MODULE MCOperator -----------------------------
(* Two machines, in the order of the configuration. *)
EXTENDS Operator, TLC

CONSTANTS a, b

MCRank == (a :> 1) @@ (b :> 2)
=============================================================================
