----------------------------- MODULE Gateway -----------------------------
(***************************************************************************)
(* The PLC gateway (gateway/plc_gateway/core): it polls the tags of each   *)
(* machine, turns changes of value into firings of rules, pairs starts     *)
(* with ends, holds a start back until the stop has lasted min_stop_ms,    *)
(* and broadcasts events to its sinks.                                     *)
(*                                                                         *)
(* The coroutine awaits in every read and every emit, so time passes and   *)
(* tags change between any two steps. One coroutine runs the loop: nothing *)
(* else changes its state.                                                 *)
(***************************************************************************)
EXTENDS Integers, Sequences

CONSTANTS
    Machines,
    Values,         \* of a tag; 0 is what Python's bool() calls false
    Tags,           \* the tags of each machine
    RulesInOrder,   \* its rules, in the order the loops over edges and rules reach them
    Sinks,
    Consumer,       \* the sink whose consumer is followed; its emit does not raise
    Thresholds,     \* values of min_stop_ms
    None, Unread,
    MaxTime

ASSUME GatewayAssumption ==
    /\ None \notin Nat /\ None \notin Machines
    /\ Unread \notin Values
    /\ 0 \in Values
    /\ Thresholds \subseteq Nat
    /\ MaxTime \in Nat
    /\ Consumer \in Sinks
    /\ \A m \in Machines :
         RulesInOrder[m] \in
           Seq([tag : Tags[m], to_value : BOOLEAN, emit : {"stop_started", "stop_ended"}])

VARIABLES
    now, minStop,
    value,        \* what the PLC holds
    connected,    \* adapter.is_connected()
    up,           \* the process runs
    stopping,     \* request_stop() was called
    unpolled,     \* machines this round has still to poll
    current,      \* the machine being handled, or None
    firings,      \* what is left of its firings
    prev,         \* EdgeDetector._prev
    open,         \* open_stop_ts
    emitted,      \* started_emitted
    outgoing,     \* events to broadcast, each with the sinks still to be given it
    told, last    \* what Consumer was told: an unended start, the last end

loopVars == <<up, stopping, unpolled, current, firings>>
stopVars == <<open, emitted>>
heardVars == <<told, last>>
vars == <<now, minStop, value, connected, loopVars, prev, stopVars, outgoing, heardVars>>

Event == [type : {"stop_started", "stop_ended"}, machine : Machines, start : 0..MaxTime, ts : 0..MaxTime]
Started(m, ts) == [type |-> "stop_started", machine |-> m, start |-> ts, ts |-> ts]
Ended(m, start, ts) == [type |-> "stop_ended", machine |-> m, start |-> start, ts |-> ts]
ToAll(event) == [event |-> event, to |-> Sinks]

Blank(m) == [t \in Tags[m] |-> Unread]

Init ==
    /\ now = 0
    /\ minStop \in Thresholds
    /\ value \in [Machines -> UNION {[Tags[m] -> Values] : m \in Machines}]
    /\ \A m \in Machines : value[m] \in [Tags[m] -> Values]
    /\ connected = [m \in Machines |-> TRUE]
    /\ up = TRUE /\ stopping = FALSE
    /\ unpolled = {} /\ current = None /\ firings = <<>>
    /\ prev = [m \in Machines |-> Blank(m)]
    /\ open = [m \in Machines |-> None]
    /\ emitted = [m \in Machines |-> FALSE]
    /\ outgoing = <<>>
    /\ told = [m \in Machines |-> None]
    /\ last = [m \in Machines |-> 0]

----------------------------------------------------------------------------
(* The plant.                                                              *)

Tick ==
    /\ now < MaxTime
    /\ now' = now + 1
    /\ UNCHANGED <<minStop, value, connected, loopVars, prev, stopVars, outgoing, heardVars>>

Change(m, t, v) ==
    /\ v # value[m][t]
    /\ value' = [value EXCEPT ![m][t] = v]
    /\ UNCHANGED <<now, minStop, connected, loopVars, prev, stopVars, outgoing, heardVars>>

\* Nothing in the loop connects again.
Disconnect(m) ==
    /\ connected[m]
    /\ connected' = [connected EXCEPT ![m] = FALSE]
    /\ UNCHANGED <<now, minStop, value, loopVars, prev, stopVars, outgoing, heardVars>>

----------------------------------------------------------------------------
(* The poll loop.                                                          *)

BetweenPolls == up /\ current = None /\ unpolled = {} /\ outgoing = <<>>
AtMachine(m) == up /\ current = None /\ m \in unpolled /\ outgoing = <<>>
Handling(m) == up /\ current = m /\ outgoing = <<>>

request_stop ==
    /\ up /\ ~stopping
    /\ stopping' = TRUE
    /\ UNCHANGED <<now, minStop, value, connected, up, unpolled, current, firings, prev, stopVars, outgoing, heardVars>>

poll_once ==
    /\ BetweenPolls /\ ~stopping
    /\ unpolled' = Machines
    /\ UNCHANGED <<now, minStop, value, connected, up, stopping, current, firings, prev, stopVars, outgoing, heardVars>>

Skip(m) ==
    /\ AtMachine(m)
    /\ ~connected[m]
    /\ unpolled' = unpolled \ {m}
    /\ UNCHANGED <<now, minStop, value, connected, up, stopping, current, firings, prev, stopVars, outgoing, heardVars>>

Edge(m, t) == prev[m][t] # Unread /\ prev[m][t] # value[m][t]
evaluate(m) ==
    LET Fires(rule) == Edge(m, rule.tag) /\ (value[m][rule.tag] # 0) = rule.to_value
    IN  SelectSeq(RulesInOrder[m], Fires)

Read(m) ==
    /\ AtMachine(m)
    /\ connected[m]
    /\ unpolled' = unpolled \ {m}
    /\ current' = m
    /\ firings' = evaluate(m)
    /\ prev' = [prev EXCEPT ![m] = value[m]]
    /\ UNCHANGED <<now, minStop, value, connected, up, stopping, stopVars, outgoing, heardVars>>

\* The process is over; what it held in memory is gone.
Exit ==
    /\ up' = FALSE /\ stopping' = FALSE
    /\ unpolled' = {} /\ current' = None /\ firings' = <<>>
    /\ prev' = [m \in Machines |-> Blank(m)]
    /\ open' = [m \in Machines |-> None]
    /\ emitted' = [m \in Machines |-> FALSE]
    /\ outgoing' = <<>>
    /\ UNCHANGED <<now, minStop, value, connected, heardVars>>

\* run() returns, or an adapter's read raises and takes the whole loop with it.
Stopped == BetweenPolls /\ stopping /\ Exit
ReadFails(m) == AtMachine(m) /\ connected[m] /\ Exit
Kill == up /\ Exit

run ==
    /\ ~up
    /\ up' = TRUE
    /\ connected' = [m \in Machines |-> TRUE]
    /\ UNCHANGED <<now, minStop, value, stopping, unpolled, current, firings, prev, stopVars, outgoing, heardVars>>

----------------------------------------------------------------------------
(* _apply_firing and _flush_held_start.  The handler has set its state      *)
(* before it awaits the broadcast.                                          *)

Apply(m, kind) ==
    /\ Handling(m)
    /\ firings # <<>>
    /\ Head(firings).emit = kind
    /\ firings' = Tail(firings)
    /\ UNCHANGED <<now, minStop, value, connected, up, stopping, unpolled, current, prev, heardVars>>

stop_started(m) ==
    /\ Apply(m, "stop_started")
    /\ open' = [open EXCEPT ![m] = now]
    /\ emitted' = [emitted EXCEPT ![m] = minStop = 0]
    /\ outgoing' = IF minStop = 0 THEN <<ToAll(Started(m, now))>> ELSE <<>>

EndIgnored(m) ==
    /\ Apply(m, "stop_ended")
    /\ open[m] = None
    /\ UNCHANGED <<stopVars, outgoing>>

MicroStop(m) == ~emitted[m] /\ now - open[m] < minStop

EndsOpenStillEmitted(m) ==
    /\ Apply(m, "stop_ended")
    /\ open[m] # None
    /\ open' = [open EXCEPT ![m] = None]
    /\ UNCHANGED emitted
EndsOpen(m) ==
    /\ Apply(m, "stop_ended")
    /\ open[m] # None
    /\ open' = [open EXCEPT ![m] = None]
    /\ emitted' = [emitted EXCEPT ![m] = FALSE]

EndSuppressed(m) ==
    /\ EndsOpen(m)
    /\ MicroStop(m)
    /\ UNCHANGED outgoing

\* A start that was held carries the time it was seen at.
HeldStartAsOfNow(m) == Started(m, now)
HeldStart(m) == Started(m, open[m])

EndTold(m) ==
    /\ EndsOpen(m)
    /\ ~MicroStop(m)
    /\ outgoing' = (IF emitted[m] THEN <<>> ELSE <<ToAll(HeldStart(m))>>)
                   \o <<ToAll(Ended(m, open[m], now))>>

HeldLongEnough(m) == now - open[m] >= minStop

flush_held_start(m) ==
    /\ Handling(m)
    /\ firings = <<>>
    /\ current' = None
    /\ IF open[m] # None /\ ~emitted[m] /\ HeldLongEnough(m)
         THEN /\ emitted' = [emitted EXCEPT ![m] = TRUE]
              /\ outgoing' = <<ToAll(HeldStart(m))>>
         ELSE UNCHANGED <<emitted, outgoing>>
    /\ UNCHANGED <<now, minStop, value, connected, up, stopping, unpolled, firings, prev, open, heardVars>>

----------------------------------------------------------------------------
(* _broadcast: every sink is given every event; one that raises is logged. *)

Done(s) ==
    /\ up /\ outgoing # <<>>
    /\ s \in Head(outgoing).to
    /\ outgoing' = IF Head(outgoing).to = {s} THEN Tail(outgoing)
                   ELSE [outgoing EXCEPT ![1].to = @ \ {s}]
    /\ UNCHANGED <<now, minStop, value, connected, loopVars, prev, stopVars>>

emit(s) ==
    /\ Done(s)
    /\ IF s # Consumer THEN UNCHANGED heardVars
       ELSE LET event == Head(outgoing).event
                m == event.machine
            IN  IF event.type = "stop_started"
                  THEN /\ told' = [told EXCEPT ![m] = event.ts]
                       /\ UNCHANGED last
                  ELSE /\ told' = [told EXCEPT ![m] = None]
                       /\ last' = [last EXCEPT ![m] = event.ts]

EmitRaises(s) == s # Consumer /\ Done(s) /\ UNCHANGED heardVars

Loop ==
    \/ poll_once
    \/ Stopped
    \/ \E m \in Machines :
        \/ Skip(m) \/ Read(m)
        \/ stop_started(m) \/ EndIgnored(m) \/ EndSuppressed(m) \/ EndTold(m)
        \/ flush_held_start(m)
    \/ \E s \in Sinks : emit(s) \/ EmitRaises(s)

Next ==
    \/ Tick
    \/ \E m \in Machines : \E t \in Tags[m], v \in Values : Change(m, t, v)
    \/ \E m \in Machines : Disconnect(m) \/ ReadFails(m)
    \/ request_stop \/ Kill \/ run
    \/ Loop

\* The loop goes on for as long as the process does: its timed wait ends
\* (asyncio.wait_for), and a read and an emit return or raise.
Fairness == WF_vars(Loop)

Spec == Init /\ [][Next]_vars /\ Fairness

----------------------------------------------------------------------------
Moment == 0..MaxTime \union {None}

\* The variables keep their types; firings, and a machine being handled,
\* exist only in a process that runs; a held start belongs to an open stop.
TypeOK ==
    /\ now \in 0..MaxTime /\ minStop \in Thresholds
    /\ \A m \in Machines :
        /\ value[m] \in [Tags[m] -> Values]
        /\ prev[m] \in [Tags[m] -> Values] \union {Blank(m)}
        /\ emitted[m] => open[m] # None
    /\ connected \in [Machines -> BOOLEAN]
    /\ up \in BOOLEAN /\ stopping \in BOOLEAN
    /\ unpolled \subseteq Machines
    /\ current \in Machines \union {None}
    /\ current = None => firings = <<>>
    /\ ~up => unpolled = {} /\ current = None /\ outgoing = <<>>
    /\ open \in [Machines -> Moment]
    /\ emitted \in [Machines -> BOOLEAN]
    /\ Len(outgoing) <= 2
    /\ \A i \in DOMAIN outgoing :
        outgoing[i].event \in Event /\ outgoing[i].to \in (SUBSET Sinks) \ {{}}
    /\ told \in [Machines -> Moment]
    /\ last \in [Machines -> 0..MaxTime]

\* What the consumer is still to be told of machine m.
Untold(m) ==
    {outgoing[i].event : i \in {j \in DOMAIN outgoing :
        Consumer \in outgoing[j].to /\ outgoing[j].event.machine = m}}

\* The stop of m that the consumer must be told, if it lasts.
Seen == [m \in Machines |->
    IF Untold(m) # {} THEN (CHOOSE e \in Untold(m) : TRUE).start ELSE open[m]]

Promise == INSTANCE StopEvents WITH
    down <- Seen, inSight <- {m \in Machines : up /\ connected[m]}
\* A consumer gets what StopEvents promises, whatever the other sinks do: a
\* stop that lasts is told while it lasts, a short one is not told, an end
\* comes after its start, with that start, and stops of a machine do not
\* overlap.
KeepsItsPromise == Promise!Spec
=============================================================================
