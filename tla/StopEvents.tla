---------------------------- MODULE StopEvents ----------------------------
(***************************************************************************)
(* What the PLC gateway promises to whoever consumes its events            *)
(* (gateway/README.md, "Event contract" and "Micro-pause debounce"): of    *)
(* the stops it sees, those that last minStop or longer are told while     *)
(* they last, starts before ends, each end with the start it was told      *)
(* with, and never two stops of a machine over the same time.              *)
(*                                                                         *)
(* A stop that begins while another is open takes its place: the first is  *)
(* never ended.                                                            *)
(***************************************************************************)
EXTENDS Integers

CONSTANTS Machines, None

VARIABLES now,       \* the clock
          minStop,   \* stops shorter than this are not told
          inSight,   \* the machines that can be polled
          down,      \* the start of the stop the gateway sees, or None
          told,      \* the start last told and not ended, or None
          last       \* the end of the last stop told to its end, 0 before

vars == <<now, minStop, inSight, down, told, last>>

Before(x, y) == x = None \/ x <= y

Init ==
    /\ now = 0
    /\ minStop \in Nat
    /\ inSight = Machines
    /\ down = [m \in Machines |-> None]
    /\ told = [m \in Machines |-> None]
    /\ last = [m \in Machines |-> 0]

Tick ==
    /\ now' > now
    /\ UNCHANGED <<minStop, inSight, down, told, last>>

GoesDown(m) ==
    /\ down' = [down EXCEPT ![m] = now]
    /\ UNCHANGED <<now, minStop, inSight, told, last>>

\* A micro-stop: neither event is sent.
Recovers(m) ==
    /\ down[m] # None
    /\ told[m] # down[m]
    /\ now - down[m] < minStop
    /\ down' = [down EXCEPT ![m] = None]
    /\ UNCHANGED <<now, minStop, inSight, told, last>>

\* A machine's connection is lost: what it did is not seen, nor told.
LoseSight(m) ==
    /\ inSight' = inSight \ {m}
    /\ UNCHANGED <<now, minStop, down, told, last>>

\* The gateway ends, or starts again; open stops are forgotten.
Restart(S) ==
    /\ inSight' = S
    /\ down' = [m \in Machines |-> None]
    /\ UNCHANGED <<now, minStop, told, last>>

TellStart(m) ==
    /\ down[m] # None
    /\ told[m] # down[m]
    /\ now - down[m] >= minStop
    /\ last[m] <= down[m]
    /\ Before(told[m], down[m])
    /\ told' = [told EXCEPT ![m] = down[m]]
    /\ UNCHANGED <<now, minStop, inSight, down, last>>

TellEnd(m, end) ==
    /\ told[m] # None
    /\ told[m] = down[m]
    /\ end <= now
    /\ end - told[m] >= minStop
    /\ told' = [told EXCEPT ![m] = None]
    /\ down' = [down EXCEPT ![m] = None]
    /\ last' = [last EXCEPT ![m] = end]
    /\ UNCHANGED <<now, minStop, inSight>>

Next ==
    \/ Tick
    \/ \E m \in Machines :
        \/ GoesDown(m)
        \/ Recovers(m)
        \/ LoseSight(m)
        \/ TellStart(m)
        \/ \E end \in 0..now : TellEnd(m, end)
    \/ \E S \in {{}, Machines} : Restart(S)

\* A stop that goes on, in sight, is told.
Fairness == \A m \in Machines : WF_vars(m \in inSight /\ TellStart(m))

Safety == Init /\ [][Next]_vars

Spec == Safety /\ Fairness
=============================================================================
