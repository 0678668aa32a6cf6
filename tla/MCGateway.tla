---------------------------- MODULE MCGateway ----------------------------
(* A machine with the running flag of gateway/config.yaml and a fault flag *)
(* with rules of its own: two firings in one poll, in the order of the     *)
(* tags, and a fault that starts a stop while one is open.                 *)
EXTENDS Gateway

CONSTANTS press, running, fault, console, file

Rule(tag, to, emits) == [tag |-> tag, to_value |-> to, emit |-> emits]

MCTags == [m \in Machines |-> {running, fault}]
MCRules == [m \in Machines |->
    <<Rule(running, FALSE, "stop_started"), Rule(running, TRUE, "stop_ended"),
      Rule(fault, TRUE, "stop_started"), Rule(fault, FALSE, "stop_ended")>>]
=============================================================================
