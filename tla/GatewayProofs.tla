-------------------------- MODULE GatewayProofs ---------------------------
(***************************************************************************)
(* What the gateway's loop keeps true for any machines, tags, rules, sinks *)
(* and thresholds, and that it keeps the safety part of what StopEvents    *)
(* promises to a consumer.                                                 *)
(***************************************************************************)
EXTENDS Gateway, SequenceTheorems, TLAPS

To(event, to) == [event |-> event, to |-> to]

\* A start the consumer may be told now.
Tellable(m, start) ==
    /\ last[m] <= start
    /\ start + minStop <= now
    /\ told[m] = None \/ told[m] <= start

ToldOrTellable(m, start, to) ==
    IF Consumer \in to THEN Tellable(m, start) ELSE told[m] = start

StartGoesOut(m, start, to) ==
    /\ outgoing = <<To(Started(m, start), to)>>
    /\ open[m] = start /\ emitted[m]
    /\ ToldOrTellable(m, start, to)

BothGoOut(m, start, ts, to) ==
    /\ outgoing = <<To(Started(m, start), to), ToAll(Ended(m, start, ts))>>
    /\ open[m] = None
    /\ start + minStop <= ts /\ ts <= now
    /\ ToldOrTellable(m, start, to)

EndGoesOut(m, start, ts, to) ==
    /\ outgoing = <<To(Ended(m, start, ts), to)>>
    /\ open[m] = None
    /\ start + minStop <= ts /\ ts <= now
    /\ Consumer \in to => told[m] = start

(* What is being broadcast is one stop: its start, its end, or both in     *)
(* this order.                                                             *)
OneStopGoesOut ==
    outgoing # <<>> =>
        \E m \in Machines, start \in 0..MaxTime, to \in (SUBSET Sinks) \ {{}} :
            \/ StartGoesOut(m, start, to)
            \/ \E ts \in 0..MaxTime :
                BothGoOut(m, start, ts, to) \/ EndGoesOut(m, start, ts, to)

StartIsOnItsWay(m) ==
    /\ outgoing # <<>>
    /\ Consumer \in Head(outgoing).to
    /\ Head(outgoing).event = Started(m, open[m])

(* How the stop that is open, the start the consumer was told and the end  *)
(* it was told last follow each other.                                     *)
StopIsOrdered(m) ==
    /\ last[m] <= now
    /\ told[m] # None => told[m] + minStop <= now
    /\ open[m] # None => last[m] <= open[m] /\ open[m] <= now
    /\ open[m] # None /\ ~emitted[m] =>
           minStop > 0 /\ (told[m] = None \/ told[m] < open[m])
    /\ emitted[m] => told[m] = open[m] \/ StartIsOnItsWay(m)
    /\ ~up => open[m] = None

Inv ==
    /\ TypeOK
    /\ value = [m \in Machines |-> value[m]]
    /\ prev = [m \in Machines |-> prev[m]]
    /\ OneStopGoesOut
    /\ \A m \in Machines : StopIsOrdered(m)

-----------------------------------------------------------------------------

(* Two events, one after the other, are a sequence of two.                 *)
LEMMA TwoInARow == ASSUME NEW a, NEW b PROVE <<a>> \o <<b>> = <<a, b>>
<1> DEFINE s == <<a>> \o <<b>>
           t == <<a, b>>
<1>1. <<a>> \in Seq({a, b}) /\ <<b>> \in Seq({a, b})
  OBVIOUS
<1>2. Len(s) = 2 /\ s[1] = a /\ s[2] = b /\ s \in Seq({a, b})
  BY <1>1
<1>3. Len(t) = 2 /\ t[1] = a /\ t[2] = b /\ t \in Seq({a, b})
  OBVIOUS
<1> HIDE DEF s, t
<1>4. s = t
  BY <1>2, <1>3, SeqEqual
<1> QED BY <1>4 DEF s, t

(* Nothing is seen yet.                                                    *)
LEMMA InitInv == Init => Inv
<1> SUFFICES ASSUME Init PROVE Inv
  OBVIOUS
<1> USE GatewayAssumption DEF Init
<1>1. TypeOK
  <2>1. \A m \in Machines :
          prev[m] = Blank(m) /\ emitted[m] = FALSE /\ open[m] = None
    OBVIOUS
  <2>2. 0 \in 0..MaxTime
    OBVIOUS
  <2>3. Len(outgoing) <= 2 /\ DOMAIN outgoing = {}
    OBVIOUS
  <2>4. /\ now \in 0..MaxTime
        /\ open \in [Machines -> Moment] /\ told \in [Machines -> Moment]
        /\ last \in [Machines -> 0..MaxTime]
    BY <2>2 DEF Moment
  <2> QED BY <2>1, <2>3, <2>4 DEF TypeOK
<1>2. value = [m \in Machines |-> value[m]] /\ prev = [m \in Machines |-> prev[m]]
  OBVIOUS
<1>3. OneStopGoesOut
  BY DEF OneStopGoesOut
<1>4. ASSUME NEW m \in Machines PROVE StopIsOrdered(m)
  <2>1. /\ last[m] = 0 /\ now = 0 /\ told[m] = None
        /\ open[m] = None /\ emitted[m] = FALSE /\ up = TRUE
    OBVIOUS
  <2> QED BY ONLY <2>1 DEF StopIsOrdered
<1> QED BY <1>1, <1>2, <1>3, <1>4 DEF Inv

(* A step that leaves the stops and the clock alone keeps their order.      *)
LEMMA StopsUntouched ==
    ASSUME UNCHANGED <<now, minStop, up, stopVars, outgoing, heardVars>>
    PROVE  /\ OneStopGoesOut => OneStopGoesOut'
           /\ \A m \in Machines : StopIsOrdered(m) => StopIsOrdered(m)'
  BY DEF stopVars, heardVars, OneStopGoesOut, StartGoesOut, BothGoOut,
     EndGoesOut, ToldOrTellable, Tellable, StopIsOrdered, StartIsOnItsWay

(* The clock moves on and the plant changes a tag or loses a connection.   *)
LEMMA PlantInv ==
    ASSUME Inv,
           \/ Tick
           \/ \E m \in Machines : \E t \in Tags[m], v \in Values : Change(m, t, v)
           \/ \E m \in Machines : Disconnect(m)
    PROVE  Inv'
<1> USE DEF loopVars, stopVars, heardVars
<1>1. CASE Tick
  <2>1. /\ now' = now + 1 /\ now' \in 0..MaxTime /\ now \in 0..MaxTime
        /\ UNCHANGED <<minStop, value, connected, loopVars, prev, stopVars, outgoing, heardVars>>
    BY <1>1, GatewayAssumption DEF Tick, Inv, TypeOK
  <2>2. TypeOK'
    BY <2>1 DEF Inv, TypeOK, Moment, Blank
  <2>3. minStop \in Nat
    BY GatewayAssumption DEF Inv, TypeOK
  <2>4. OneStopGoesOut'
    <3>1. \A m \in Machines, start \in 0..MaxTime, to \in SUBSET Sinks :
            ToldOrTellable(m, start, to) => ToldOrTellable(m, start, to)'
      BY <2>1, <2>3 DEF ToldOrTellable, Tellable
    <3>2. \A m \in Machines, start \in 0..MaxTime, to \in SUBSET Sinks, ts \in 0..MaxTime :
            /\ StartGoesOut(m, start, to) => StartGoesOut(m, start, to)'
            /\ BothGoOut(m, start, ts, to) => BothGoOut(m, start, ts, to)'
            /\ EndGoesOut(m, start, ts, to) => EndGoesOut(m, start, ts, to)'
      BY <2>1, <2>3, <3>1 DEF StartGoesOut, BothGoOut, EndGoesOut
    <3>3. outgoing' = outgoing /\ OneStopGoesOut
      BY <2>1 DEF Inv
    <3> SUFFICES ASSUME outgoing # <<>> PROVE OneStopGoesOut'
      BY <3>3 DEF OneStopGoesOut
    <3>4. PICK m \in Machines, start \in 0..MaxTime, to \in (SUBSET Sinks) \ {{}} :
            \/ StartGoesOut(m, start, to)
            \/ \E ts \in 0..MaxTime :
                BothGoOut(m, start, ts, to) \/ EndGoesOut(m, start, ts, to)
      BY <3>3 DEF OneStopGoesOut
    <3>5. \/ StartGoesOut(m, start, to)'
          \/ \E ts \in 0..MaxTime :
              BothGoOut(m, start, ts, to)' \/ EndGoesOut(m, start, ts, to)'
      BY <3>2, <3>4
    <3> QED BY <3>5 DEF OneStopGoesOut
  <2>5. ASSUME NEW m \in Machines PROVE StopIsOrdered(m)'
    <3>1. /\ StopIsOrdered(m)
          /\ told[m] \in 0..MaxTime \cup {None} /\ last[m] \in 0..MaxTime
          /\ open[m] \in 0..MaxTime \cup {None}
      BY <2>5 DEF Inv, TypeOK, Moment
    <3> QED BY <2>1, <2>3, <3>1, GatewayAssumption DEF StopIsOrdered, StartIsOnItsWay
  <2> QED BY <2>1, <2>2, <2>4, <2>5 DEF Inv
<1>2. ASSUME NEW m \in Machines, NEW t \in Tags[m], NEW v \in Values, Change(m, t, v)
      PROVE  Inv'
  <2>1. UNCHANGED <<now, minStop, connected, loopVars, prev, stopVars, outgoing, heardVars>>
    BY <1>2 DEF Change
  <2>2. /\ value' = [value EXCEPT ![m][t] = v]
        /\ value = [n \in Machines |-> value[n]]
        /\ \A n \in Machines : value[n] \in [Tags[n] -> Values]
    BY <1>2 DEF Change, Inv, TypeOK
  <2>3. value' = [n \in Machines |-> value'[n]]
    BY <2>2
  <2>4. \A n \in Machines : value'[n] \in [Tags[n] -> Values]
    BY <2>2
  <2>5. TypeOK'
    BY <2>1, <2>4 DEF Inv, TypeOK, Blank
  <2> QED BY <2>1, <2>3, <2>5, StopsUntouched DEF Inv
<1>3. CASE \E m \in Machines : Disconnect(m)
  <2>1. /\ connected' \in [Machines -> BOOLEAN]
        /\ UNCHANGED <<now, minStop, value, loopVars, prev, stopVars, outgoing, heardVars>>
    BY <1>3 DEF Disconnect, Inv, TypeOK
  <2>2. TypeOK'
    BY <2>1 DEF Inv, TypeOK, Blank
  <2> QED BY <2>1, <2>2, StopsUntouched DEF Inv
<1> QED BY <1>1, <1>2, <1>3

(* The loop goes from poll to poll, and ignores an end without a start.    *)
LEMMA PollInv ==
    ASSUME Inv,
           \/ request_stop \/ poll_once
           \/ \E m \in Machines : Skip(m) \/ Read(m) \/ EndIgnored(m)
    PROVE  Inv'
<1>1. CASE request_stop
  BY <1>1, StopsUntouched
  DEF request_stop, Inv, TypeOK, stopVars, heardVars, Blank
<1>2. CASE poll_once
  BY <1>2, StopsUntouched
  DEF poll_once, BetweenPolls, Inv, TypeOK, stopVars, heardVars, Blank
<1>3. ASSUME NEW m \in Machines, Skip(m) PROVE Inv'
  BY <1>3, StopsUntouched
  DEF Skip, AtMachine, Inv, TypeOK, stopVars, heardVars, Blank
<1>4. ASSUME NEW m \in Machines, Read(m) PROVE Inv'
  <2>1. /\ up /\ m \in unpolled /\ m # None
        /\ unpolled' = unpolled \ {m} /\ current' = m
        /\ prev' = [prev EXCEPT ![m] = value[m]]
        /\ UNCHANGED <<now, minStop, value, connected, up, stopping, stopVars, outgoing, heardVars>>
    BY <1>4, GatewayAssumption DEF Read, AtMachine
  <2>2. /\ prev' = [n \in Machines |-> prev'[n]]
        /\ \A n \in Machines : prev'[n] \in [Tags[n] -> Values] \cup {Blank(n)}
    BY <2>1 DEF Inv, TypeOK
  <2>3. TypeOK'
    BY <2>1, <2>2 DEF Inv, TypeOK, stopVars, heardVars, Blank
  <2> QED BY <2>1, <2>2, <2>3, StopsUntouched DEF Inv
<1>5. ASSUME NEW m \in Machines, EndIgnored(m) PROVE Inv'
  <2>1. /\ current = m /\ m # None
        /\ UNCHANGED <<now, minStop, value, connected, up, stopping, unpolled,
                       current, prev, stopVars, outgoing, heardVars>>
    BY <1>5, GatewayAssumption DEF EndIgnored, Apply, Handling
  <2>2. TypeOK'
    BY <2>1 DEF Inv, TypeOK, stopVars, heardVars, Blank
  <2> QED BY <2>1, <2>2, StopsUntouched DEF Inv
<1> QED BY <1>1, <1>2, <1>3, <1>4, <1>5

(* The process ends, and starts again with nothing in memory.              *)
LEMMA RestartInv ==
    ASSUME Inv,
           \/ Stopped \/ Kill \/ run
           \/ \E m \in Machines : ReadFails(m)
    PROVE  Inv'
<1>1. CASE Exit
  <2>1. /\ up' = FALSE /\ stopping' = FALSE
        /\ unpolled' = {} /\ current' = None /\ firings' = <<>>
        /\ prev' = [m \in Machines |-> Blank(m)]
        /\ open' = [m \in Machines |-> None]
        /\ emitted' = [m \in Machines |-> FALSE]
        /\ outgoing' = <<>>
        /\ UNCHANGED <<now, minStop, value, connected, heardVars>>
    BY <1>1 DEF Exit
  <2>2. TypeOK'
    <3>1. Len(outgoing') <= 2 /\ DOMAIN outgoing' = {}
      BY <2>1
    <3> QED BY <2>1, <3>1 DEF Inv, TypeOK, Moment, heardVars, Blank
  <2>3. ASSUME NEW m \in Machines PROVE StopIsOrdered(m)'
    <3>1. StopIsOrdered(m) /\ open'[m] = None /\ emitted'[m] = FALSE
      BY <2>1 DEF Inv
    <3> QED BY <2>1, <3>1 DEF StopIsOrdered, heardVars
  <2>4. OneStopGoesOut'
    BY <2>1 DEF OneStopGoesOut
  <2> QED BY <2>1, <2>2, <2>3, <2>4 DEF Inv
<1>2. CASE run
  <2>1. /\ ~up /\ up' = TRUE
        /\ connected' = [m \in Machines |-> TRUE]
        /\ UNCHANGED <<now, minStop, value, stopping, unpolled, current, firings, prev, stopVars, outgoing, heardVars>>
    BY <1>2 DEF run
  <2>2. TypeOK'
    BY <2>1 DEF Inv, TypeOK, stopVars, heardVars, Blank
  <2>3. \A m \in Machines : StopIsOrdered(m)'
    BY <2>1 DEF Inv, StopIsOrdered, StartIsOnItsWay, stopVars, heardVars
  <2>4. OneStopGoesOut'
    BY <2>1 DEF Inv, TypeOK, OneStopGoesOut
  <2> QED BY <2>1, <2>2, <2>3, <2>4 DEF Inv
<1> QED BY <1>1, <1>2 DEF Stopped, Kill, ReadFails

(* A rule that says the machine stopped: the start goes out at once if no  *)
(* stop is too short to tell, and is held back otherwise.                  *)
LEMMA StartInv ==
    ASSUME Inv, NEW m \in Machines, stop_started(m)
    PROVE  Inv'
<1>1. /\ current = m /\ up /\ outgoing = <<>> /\ m # None
      /\ open' = [open EXCEPT ![m] = now]
      /\ emitted' = [emitted EXCEPT ![m] = minStop = 0]
      /\ outgoing' = IF minStop = 0 THEN <<ToAll(Started(m, now))>> ELSE <<>>
      /\ UNCHANGED <<now, minStop, value, connected, up, stopping, unpolled, current, prev, heardVars>>
  BY GatewayAssumption DEF stop_started, Apply, Handling
<1>2. /\ now \in 0..MaxTime /\ minStop \in Nat /\ None \notin Nat
      /\ open \in [Machines -> 0..MaxTime \cup {None}]
      /\ emitted \in [Machines -> BOOLEAN]
      /\ told \in [Machines -> 0..MaxTime \cup {None}]
      /\ last \in [Machines -> 0..MaxTime]
      /\ \A n \in Machines : StopIsOrdered(n) /\ (emitted[n] => open[n] # None)
  BY GatewayAssumption DEF Inv, TypeOK, Moment
<1>3. Consumer \in Sinks
  BY GatewayAssumption
<1>4. TypeOK'
  <2>1. Len(outgoing') <= 2
    BY <1>1
  <2>2. \A i \in DOMAIN outgoing' :
          outgoing'[i].event \in Event /\ outgoing'[i].to \in (SUBSET Sinks) \ {{}}
    <3>1. CASE minStop = 0
      <4>1. outgoing' = <<ToAll(Started(m, now))>>
        BY <1>1, <3>1
      <4>2. ToAll(Started(m, now)).event \in Event /\ ToAll(Started(m, now)).to = Sinks
        BY <1>2 DEF ToAll, Started, Event
      <4> QED BY <4>1, <4>2, <1>3
    <3>2. CASE minStop # 0
      BY <1>1, <3>2
    <3> QED BY <3>1, <3>2
  <2>3. /\ open' \in [Machines -> Moment]
        /\ emitted' \in [Machines -> BOOLEAN]
        /\ \A n \in Machines : emitted'[n] => open'[n] # None
    BY <1>1, <1>2 DEF Moment
  <2> QED BY <1>1, <2>1, <2>2, <2>3 DEF Inv, TypeOK, heardVars, Blank
<1>5. ASSUME minStop = 0 PROVE Tellable(m, now)
  BY <1>2, <1>5 DEF StopIsOrdered, Tellable
<1>6. OneStopGoesOut'
  <2>1. CASE minStop = 0
    <3>1. /\ outgoing' = <<To(Started(m, now), Sinks)>>
          /\ open'[m] = now /\ emitted'[m] = TRUE /\ Tellable(m, now)'
      BY <1>1, <1>2, <1>5, <2>1 DEF To, ToAll, Tellable, heardVars
    <3>2. StartGoesOut(m, now, Sinks)'
      BY <1>1, <1>3, <3>1 DEF StartGoesOut, ToldOrTellable
    <3> QED BY <1>2, <1>3, <3>2, <1>1 DEF OneStopGoesOut
  <2>2. CASE minStop # 0
    BY <1>1, <2>2 DEF OneStopGoesOut
  <2> QED BY <2>1, <2>2
<1>7. ASSUME NEW n \in Machines PROVE StopIsOrdered(n)'
  <2>1. CASE n # m
    <3>1. open'[n] = open[n] /\ emitted'[n] = emitted[n] /\ ~StartIsOnItsWay(n)
      BY <1>1, <1>2, <2>1 DEF StartIsOnItsWay
    <3> QED BY <1>1, <1>2, <3>1 DEF StopIsOrdered, heardVars
  <2>2. CASE n = m
    <3>1. open'[m] = now /\ emitted'[m] = (minStop = 0) /\ StopIsOrdered(m)
      BY <1>1, <1>2
    <3>2. minStop = 0 => StartIsOnItsWay(m)'
      BY <1>1, <1>3, <3>1 DEF StartIsOnItsWay, ToAll
    <3>3. /\ last[m] <= now /\ now \in Nat /\ now # None
          /\ told[m] # None => told[m] + minStop <= now
          /\ told[m] \in 0..MaxTime \cup {None}
      BY <1>2, <3>1 DEF StopIsOrdered
    <3>4. minStop # 0 => told[m] = None \/ told[m] < now
      BY <1>2, <3>3
    <3>5. UNCHANGED <<now, minStop, up, told, last>>
      BY <1>1 DEF heardVars
    <3>6. CASE minStop = 0
      <4>1. emitted'[m] = TRUE
        BY ONLY <3>1, <3>6, Zenon
      <4> QED BY <1>1, <2>2, <3>1, <3>2, <3>3, <3>5, <3>6, <4>1 DEF StopIsOrdered
    <3>7. CASE minStop # 0
      <4>1. emitted'[m] = FALSE
        BY ONLY <3>1, <3>7, Zenon
      <4>2. minStop > 0
        BY <1>2, <3>7
      <4> QED BY <1>1, <2>2, <3>1, <3>3, <3>4, <3>5, <4>1, <4>2 DEF StopIsOrdered
    <3> QED BY <3>6, <3>7
  <2> QED BY <2>1, <2>2
<1> QED BY <1>1, <1>4, <1>6, <1>7 DEF Inv

(* A rule that says the machine runs ends the open stop: nothing is told   *)
(* of a short one, the end of a told one, both of a held one.              *)
LEMMA EndInv ==
    ASSUME Inv, NEW m \in Machines, EndSuppressed(m) \/ EndTold(m)
    PROVE  Inv'
<1>1. /\ current = m /\ up /\ outgoing = <<>> /\ m # None /\ open[m] # None
      /\ open' = [open EXCEPT ![m] = None]
      /\ emitted' = [emitted EXCEPT ![m] = FALSE]
      /\ UNCHANGED <<now, minStop, value, connected, up, stopping, unpolled, current, prev, heardVars>>
  BY GatewayAssumption DEF EndSuppressed, EndTold, EndsOpen, Apply, Handling
<1>2. /\ now \in 0..MaxTime /\ minStop \in Nat /\ None \notin Nat
      /\ open \in [Machines -> 0..MaxTime \cup {None}]
      /\ emitted \in [Machines -> BOOLEAN]
      /\ told \in [Machines -> 0..MaxTime \cup {None}]
      /\ last \in [Machines -> 0..MaxTime]
      /\ \A n \in Machines : StopIsOrdered(n) /\ (emitted[n] => open[n] # None)
  BY GatewayAssumption DEF Inv, TypeOK, Moment
<1>3. Consumer \in Sinks
  BY GatewayAssumption
<1>4. /\ open' \in [Machines -> Moment]
      /\ emitted' \in [Machines -> BOOLEAN]
      /\ \A n \in Machines : emitted'[n] => open'[n] # None
  BY <1>1, <1>2 DEF Moment
<1>5. ASSUME NEW n \in Machines PROVE StopIsOrdered(n)'
  <2>1. CASE n # m
    <3>1. open'[n] = open[n] /\ emitted'[n] = emitted[n] /\ ~StartIsOnItsWay(n)
      BY <1>1, <1>2, <2>1 DEF StartIsOnItsWay
    <3> QED BY <1>1, <1>2, <3>1 DEF StopIsOrdered, heardVars
  <2>2. CASE n = m
    <3>1. open'[m] = None /\ emitted'[m] = FALSE /\ StopIsOrdered(m)
      BY <1>1, <1>2
    <3> QED BY <1>1, <2>2, <3>1 DEF StopIsOrdered, heardVars
  <2> QED BY <2>1, <2>2
<1>6. CASE EndSuppressed(m)
  <2>1. outgoing' = <<>>
    BY <1>1, <1>6 DEF EndSuppressed
  <2>2. Len(outgoing') <= 2 /\ DOMAIN outgoing' = {}
    BY <2>1
  <2>3. TypeOK'
    BY <1>1, <1>4, <2>1, <2>2 DEF Inv, TypeOK, heardVars, Blank
  <2>4. OneStopGoesOut'
    BY <2>1 DEF OneStopGoesOut
  <2> QED BY <1>1, <1>5, <2>3, <2>4 DEF Inv
<1>7. CASE EndTold(m)
  <2>1. PICK start \in 0..MaxTime : start = open[m] /\ start <= now
    BY <1>1, <1>2 DEF StopIsOrdered
  <2> DEFINE end == ToAll(Ended(m, start, now))
  <2>2. end.event \in Event /\ end.to \in (SUBSET Sinks) \ {{}}
    BY <1>2, <1>3, <2>1 DEF Event, Ended, ToAll
  <2>3. CASE emitted[m]
    <3>1. outgoing' = <<end>>
      BY <1>7, <2>1, <2>3 DEF EndTold
    <3>2. told[m] = start /\ start + minStop <= now
      BY <1>1, <1>2, <2>1, <2>3 DEF StopIsOrdered, StartIsOnItsWay
    <3>3. outgoing' = <<To(Ended(m, start, now), Sinks)>>
      BY <3>1 DEF To, ToAll
    <3> HIDE DEF end
    <3>4. EndGoesOut(m, start, now, Sinks)'
      BY <1>1, <1>2, <3>2, <3>3 DEF EndGoesOut, heardVars
    <3>5. OneStopGoesOut'
      BY <1>1, <1>2, <1>3, <2>1, <3>4 DEF OneStopGoesOut
    <3>6. Len(outgoing') <= 2
          /\ \A i \in DOMAIN outgoing' :
               outgoing'[i].event \in Event /\ outgoing'[i].to \in (SUBSET Sinks) \ {{}}
      BY <2>2, <3>1
    <3>7. TypeOK'
      BY <1>1, <1>4, <3>6 DEF Inv, TypeOK, heardVars, Blank
    <3> QED BY <1>1, <1>5, <3>5, <3>7 DEF Inv
  <2>4. CASE ~emitted[m]
    <3> DEFINE begin == ToAll(Started(m, start))
    <3>1. outgoing' = <<begin, end>>
      <4>1. outgoing' = <<begin>> \o <<end>>
        BY <1>7, <2>1, <2>4 DEF EndTold, HeldStart
      <4> QED BY ONLY <4>1, TwoInARow
    <3>2. start + minStop <= now /\ Tellable(m, start)
      <4>1. now - start >= minStop
        BY <1>2, <1>7, <2>1, <2>4 DEF EndTold, MicroStop
      <4> QED BY <1>1, <1>2, <2>1, <2>4, <4>1 DEF StopIsOrdered, Tellable
    <3>3. outgoing' = <<To(Started(m, start), Sinks), ToAll(Ended(m, start, now))>>
      BY <3>1 DEF To, ToAll
    <3>4. begin.event \in Event /\ begin.to \in (SUBSET Sinks) \ {{}}
      BY <1>3, <2>1 DEF Event, Started, ToAll
    <3> HIDE DEF begin, end
    <3>5. BothGoOut(m, start, now, Sinks)'
      BY <1>1, <1>2, <1>3, <3>2, <3>3
      DEF BothGoOut, ToldOrTellable, Tellable, heardVars
    <3>6. OneStopGoesOut'
      BY <1>1, <1>2, <1>3, <2>1, <3>5 DEF OneStopGoesOut
    <3>7. Len(outgoing') <= 2
          /\ \A i \in DOMAIN outgoing' :
               outgoing'[i].event \in Event /\ outgoing'[i].to \in (SUBSET Sinks) \ {{}}
      BY <2>2, <3>1, <3>4
    <3>8. TypeOK'
      BY <1>1, <1>4, <3>7 DEF Inv, TypeOK, heardVars, Blank
    <3> QED BY <1>1, <1>5, <3>6, <3>8 DEF Inv
  <2> QED BY <2>3, <2>4
<1> QED BY <1>6, <1>7

(* When its firings are handled, the start held for the machine goes out   *)
(* if the stop has lasted.                                                 *)
LEMMA FlushInv ==
    ASSUME Inv, NEW m \in Machines, flush_held_start(m)
    PROVE  Inv'
<1>1. /\ up /\ outgoing = <<>> /\ firings = <<>>
      /\ current' = None
      /\ UNCHANGED <<now, minStop, value, connected, up, stopping, unpolled, firings, prev, open, heardVars>>
  BY DEF flush_held_start, Handling
<1>2. CASE UNCHANGED <<emitted, outgoing>>
  <2>1. TypeOK'
    BY <1>1, <1>2 DEF Inv, TypeOK, heardVars, Blank
  <2> QED BY <1>1, <1>2, <2>1, StopsUntouched DEF Inv, stopVars
<1>3. CASE /\ open[m] # None /\ ~emitted[m] /\ HeldLongEnough(m)
           /\ emitted' = [emitted EXCEPT ![m] = TRUE]
           /\ outgoing' = <<ToAll(HeldStart(m))>>
  <2>1. /\ now \in 0..MaxTime /\ minStop \in Nat /\ None \notin Nat
        /\ open \in [Machines -> 0..MaxTime \cup {None}]
        /\ emitted \in [Machines -> BOOLEAN]
        /\ told \in [Machines -> 0..MaxTime \cup {None}]
        /\ last \in [Machines -> 0..MaxTime]
        /\ \A n \in Machines : StopIsOrdered(n) /\ (emitted[n] => open[n] # None)
        /\ Consumer \in Sinks
    BY GatewayAssumption DEF Inv, TypeOK, Moment
  <2>2. PICK start \in 0..MaxTime : start = open[m]
    BY <1>3, <2>1
  <2> DEFINE begin == ToAll(Started(m, start))
  <2>3. Tellable(m, start)
    <3>1. start + minStop <= now
      BY <1>3, <2>1, <2>2 DEF HeldLongEnough
    <3> QED BY <1>3, <2>1, <2>2, <3>1 DEF StopIsOrdered, Tellable
  <2>4. outgoing' = <<begin>> /\ outgoing' = <<To(Started(m, start), Sinks)>>
    BY <1>3, <2>2 DEF HeldStart, To, ToAll
  <2>5. begin.event \in Event /\ begin.to \in (SUBSET Sinks) \ {{}}
    BY <2>1 DEF Event, Started, ToAll
  <2>6. emitted' \in [Machines -> BOOLEAN] /\ emitted'[m] = TRUE
        /\ \A n \in Machines : emitted'[n] => open'[n] # None
    BY <1>1, <1>3, <2>1
  <2>7. open' = open /\ open[m] = start
    BY <1>1, <2>2
  <2> HIDE DEF begin
  <2>8. StartGoesOut(m, start, Sinks)'
    BY <1>1, <2>1, <2>3, <2>4, <2>6, <2>7
    DEF StartGoesOut, ToldOrTellable, Tellable, heardVars
  <2>9. OneStopGoesOut'
    BY <1>1, <2>1, <2>3, <2>8 DEF OneStopGoesOut
  <2>10. TypeOK'
    <3>1. Len(outgoing') <= 2
          /\ \A i \in DOMAIN outgoing' :
               outgoing'[i].event \in Event /\ outgoing'[i].to \in (SUBSET Sinks) \ {{}}
      BY <2>4, <2>5
    <3> QED BY <1>1, <2>6, <3>1 DEF Inv, TypeOK, heardVars, Blank
  <2>11. ASSUME NEW n \in Machines PROVE StopIsOrdered(n)'
    <3>1. CASE n # m
      <4>1. emitted'[n] = emitted[n] /\ ~StartIsOnItsWay(n) /\ StopIsOrdered(n)
        BY <1>1, <1>3, <2>1, <3>1 DEF StartIsOnItsWay
      <4> QED BY <1>1, <4>1 DEF StopIsOrdered, heardVars
    <3>2. CASE n = m
      <4>1. StartIsOnItsWay(m)'
        BY <2>1, <2>4, <2>7 DEF StartIsOnItsWay, To
      <4>2. StopIsOrdered(m) /\ open'[m] = open[m]
        BY <1>1, <2>1
      <4> QED BY <1>1, <2>6, <3>2, <4>1, <4>2 DEF StopIsOrdered, heardVars
    <3> QED BY <3>1, <3>2
  <2> QED BY <1>1, <2>9, <2>10, <2>11 DEF Inv
<1> QED BY <1>2, <1>3 DEF flush_held_start

(* What is left to broadcast when a sink is done with the first event.     *)
LEMMA LeftToTell ==
    ASSUME NEW e, NEW to, NEW s, Done(s),
           outgoing = <<To(e, to)>>
    PROVE  /\ s \in to
           /\ outgoing' = IF to = {s} THEN <<>> ELSE <<To(e, to \ {s})>>
<1>1. Head(outgoing).to = to /\ Tail(outgoing) = <<>>
  BY DEF To
<1>2. [outgoing EXCEPT ![1].to = @ \ {s}] = <<To(e, to \ {s})>>
  BY DEF To
<1> QED BY <1>1, <1>2 DEF Done

(* The same while another event waits behind.                              *)
LEMMA LeftOfTwoToTell ==
    ASSUME NEW e, NEW to, NEW s, NEW r, Done(s),
           outgoing = <<To(e, to), r>>
    PROVE  /\ s \in to
           /\ outgoing' = IF to = {s} THEN <<r>> ELSE <<To(e, to \ {s}), r>>
<1>1. Head(outgoing).to = to /\ Tail(outgoing) = <<r>>
  BY DEF To
<1>2. [outgoing EXCEPT ![1].to = @ \ {s}] = <<To(e, to \ {s}), r>>
  BY DEF To
<1> QED BY <1>1, <1>2 DEF Done

\* What the consumer hears when it is done with event e; nothing when
\* another sink is.
Heard(s, e) ==
    IF s # Consumer THEN UNCHANGED heardVars
    ELSE IF e.type = "stop_started"
      THEN /\ told' = [told EXCEPT ![e.machine] = e.ts]
           /\ UNCHANGED last
      ELSE /\ told' = [told EXCEPT ![e.machine] = None]
           /\ last' = [last EXCEPT ![e.machine] = e.ts]

(* A sink is done with the event whether its emit returns or raises.       *)
LEMMA SinkHears ==
    ASSUME NEW s \in Sinks, emit(s) \/ EmitRaises(s)
    PROVE  Done(s) /\ Heard(s, Head(outgoing).event)
  BY DEF emit, EmitRaises, Heard

(* What a sink that is done with an event leaves of the order of one stop. *)
LEMMA HearsStart ==
    ASSUME Inv, NEW m \in Machines, NEW start \in 0..MaxTime,
           NEW to \in (SUBSET Sinks) \ {{}}, NEW s \in to,
           ToldOrTellable(m, start, to), Heard(s, Started(m, start)),
           UNCHANGED <<now, minStop>>
    PROVE  /\ ToldOrTellable(m, start, to \ {s})'
           /\ to = {s} => told'[m] = start
           /\ told' \in [Machines -> Moment] /\ last' = last
           /\ \A n \in Machines \ {m} : told'[n] = told[n]
           /\ told'[m] # None => told'[m] + minStop <= now
<1>1. /\ told \in [Machines -> Moment] /\ last \in [Machines -> 0..MaxTime]
      /\ None \notin Nat /\ minStop \in Nat /\ now \in 0..MaxTime
      /\ start \in Moment /\ start # None
      /\ told[m] # None => told[m] + minStop <= now
  BY GatewayAssumption DEF Inv, TypeOK, Moment, StopIsOrdered
<1>2. CASE s # Consumer
  BY <1>1, <1>2 DEF Heard, heardVars, ToldOrTellable, Tellable
<1>3. CASE s = Consumer
  <2>1. told' = [told EXCEPT ![m] = start] /\ last' = last
    BY <1>3 DEF Heard, Started
  <2>2. start + minStop <= now
    BY <1>3 DEF ToldOrTellable, Tellable
  <2>3. told'[m] = start /\ told' \in [Machines -> Moment]
        /\ \A n \in Machines \ {m} : told'[n] = told[n]
    BY <1>1, <2>1
  <2> QED BY <1>3, <2>1, <2>2, <2>3 DEF ToldOrTellable
<1> QED BY <1>2, <1>3

(* An event is given to a sink.                                            *)
LEMMA BroadcastInv ==
    ASSUME Inv, NEW s \in Sinks, emit(s) \/ EmitRaises(s)
    PROVE  Inv'
<1>1. Done(s) /\ Heard(s, Head(outgoing).event)
  BY SinkHears
<1>2. /\ up /\ outgoing # <<>>
      /\ UNCHANGED <<now, minStop, value, connected, loopVars, prev, stopVars>>
  BY <1>1 DEF Done
<1>3. /\ now \in 0..MaxTime /\ minStop \in Nat /\ None \notin Nat
      /\ open \in [Machines -> Moment]
      /\ told \in [Machines -> Moment] /\ last \in [Machines -> 0..MaxTime]
      /\ \A n \in Machines : StopIsOrdered(n) /\ (emitted[n] => open[n] # None)
      /\ Consumer \in Sinks
  BY GatewayAssumption DEF Inv, TypeOK
<1>4. ASSUME told' \in [Machines -> Moment], last' \in [Machines -> 0..MaxTime],
             Len(outgoing') <= 2,
             \A i \in DOMAIN outgoing' :
               outgoing'[i].event \in Event /\ outgoing'[i].to \in (SUBSET Sinks) \ {{}}
      PROVE  TypeOK'
  BY <1>2, <1>4 DEF Inv, TypeOK, loopVars, stopVars, Blank
<1>5. PICK m \in Machines, start \in 0..MaxTime, to \in (SUBSET Sinks) \ {{}} :
        \/ StartGoesOut(m, start, to)
        \/ \E ts \in 0..MaxTime :
            BothGoOut(m, start, ts, to) \/ EndGoesOut(m, start, ts, to)
  BY <1>2 DEF Inv, OneStopGoesOut
<1>6. \A n \in Machines : n # m => ~StartIsOnItsWay(n)
  <2>1. Head(outgoing).event.machine = m
    <3>1. CASE StartGoesOut(m, start, to)
      BY <3>1 DEF StartGoesOut, To, Started
    <3>2. ASSUME NEW ts \in 0..MaxTime, BothGoOut(m, start, ts, to)
          PROVE  Head(outgoing).event.machine = m
      BY <3>2 DEF BothGoOut, To, Started
    <3>3. ASSUME NEW ts \in 0..MaxTime, EndGoesOut(m, start, ts, to)
          PROVE  Head(outgoing).event.machine = m
      BY <3>3 DEF EndGoesOut, To, Ended
    <3> QED BY <1>5, <3>1, <3>2, <3>3
  <2> QED BY <2>1 DEF StartIsOnItsWay, Started
<1>7. Started(m, start) \in Event
  BY DEF Started, Event
<1>8. CASE StartGoesOut(m, start, to)
  <2>1. /\ outgoing = <<To(Started(m, start), to)>>
        /\ open[m] = start /\ emitted[m] /\ ToldOrTellable(m, start, to)
    BY <1>8 DEF StartGoesOut
  <2>2. /\ s \in to
        /\ outgoing' = IF to = {s} THEN <<>> ELSE <<To(Started(m, start), to \ {s})>>
    BY <1>1, <2>1, LeftToTell
  <2>3. Head(outgoing).event = Started(m, start)
    BY <2>1 DEF To
  <2>4. /\ ToldOrTellable(m, start, to \ {s})'
        /\ to = {s} => told'[m] = start
        /\ told' \in [Machines -> Moment] /\ last' = last
        /\ \A n \in Machines \ {m} : told'[n] = told[n]
        /\ told'[m] # None => told'[m] + minStop <= now
    <3>1. Heard(s, Started(m, start))
      BY <1>1, <2>3
    <3>2. UNCHANGED <<now, minStop>>
      BY <1>2
    <3>3. ToldOrTellable(m, start, to) /\ s \in to
      BY <2>1, <2>2
    <3> QED BY <3>1, <3>2, <3>3, HearsStart
  <2>5. CASE to = {s}
    <3>1. outgoing' = <<>> /\ Len(outgoing') <= 2 /\ DOMAIN outgoing' = {}
      BY <2>2, <2>5
    <3>2. TypeOK' /\ OneStopGoesOut'
      BY <1>3, <1>4, <2>4, <3>1 DEF OneStopGoesOut
    <3>3. ASSUME NEW n \in Machines PROVE StopIsOrdered(n)'
      <4>1. n # m => told'[n] = told[n] /\ ~StartIsOnItsWay(n)
        BY <1>6, <2>4
      <4> QED BY <1>2, <1>3, <2>1, <2>4, <2>5, <4>1
              DEF StopIsOrdered, stopVars, loopVars
    <3> QED BY <1>2, <3>2, <3>3 DEF Inv
  <2>6. CASE to # {s}
    <3>1. outgoing' = <<To(Started(m, start), to \ {s})>>
      BY <2>2, <2>6
    <3>2. to \ {s} \in (SUBSET Sinks) \ {{}}
      BY <2>2, <2>6
    <3>3. StartGoesOut(m, start, to \ {s})'
      BY <1>2, <2>1, <2>4, <3>1 DEF StartGoesOut, stopVars
    <3>4. OneStopGoesOut'
      BY <3>2, <3>3 DEF OneStopGoesOut
    <3>5. Len(outgoing') <= 2
          /\ \A i \in DOMAIN outgoing' :
               outgoing'[i].event \in Event /\ outgoing'[i].to \in (SUBSET Sinks) \ {{}}
      BY <1>7, <3>1, <3>2 DEF To
    <3>6. TypeOK'
      BY <1>3, <1>4, <2>4, <3>5
    <3>7. ASSUME NEW n \in Machines PROVE StopIsOrdered(n)'
      <4>1. CASE n # m
        <5>1. told'[n] = told[n] /\ ~StartIsOnItsWay(n)
          BY <1>6, <2>4, <4>1
        <5> QED BY <1>2, <1>3, <2>4, <5>1 DEF StopIsOrdered, stopVars, loopVars
      <4>2. CASE n = m
        <5>1. Consumer \in to \ {s} => StartIsOnItsWay(m)'
          BY <1>2, <2>1, <3>1 DEF StartIsOnItsWay, To, stopVars
        <5>2. Consumer \notin to \ {s} => told'[m] = start
          BY <2>4 DEF ToldOrTellable
        <5> QED BY <1>2, <1>3, <2>1, <2>4, <4>2, <5>1, <5>2
                DEF StopIsOrdered, stopVars, loopVars
      <4> QED BY <4>1, <4>2
    <3> QED BY <1>2, <3>4, <3>6, <3>7 DEF Inv
  <2> QED BY <2>5, <2>6
<1>9. ASSUME NEW ts \in 0..MaxTime, BothGoOut(m, start, ts, to) PROVE Inv'
  <2> DEFINE end == ToAll(Ended(m, start, ts))
  <2>1. /\ outgoing = <<To(Started(m, start), to), end>>
        /\ open[m] = None /\ start + minStop <= ts /\ ts <= now
        /\ ToldOrTellable(m, start, to)
    BY <1>9 DEF BothGoOut
  <2>2. end.event \in Event /\ end.to \in (SUBSET Sinks) \ {{}}
    BY <1>3 DEF Event, Ended, ToAll
  <2>3. end = To(Ended(m, start, ts), Sinks)
    BY DEF To, ToAll
  <2> HIDE DEF end
  <2>4. /\ s \in to
        /\ outgoing' = IF to = {s} THEN <<end>> ELSE <<To(Started(m, start), to \ {s}), end>>
    BY <1>1, <2>1, LeftOfTwoToTell
  <2>5. Heard(s, Started(m, start))
    <3>1. Head(outgoing).event = Started(m, start)
      BY <2>1 DEF To
    <3> QED BY <1>1, <3>1
  <2>6. /\ ToldOrTellable(m, start, to \ {s})'
        /\ to = {s} => told'[m] = start
        /\ told' \in [Machines -> Moment] /\ last' = last
        /\ \A n \in Machines \ {m} : told'[n] = told[n]
        /\ told'[m] # None => told'[m] + minStop <= now
    BY <1>2, <2>1, <2>4, <2>5, HearsStart
  <2>7. ASSUME NEW n \in Machines PROVE StopIsOrdered(n)'
    <3>1. n # m => told'[n] = told[n] /\ ~StartIsOnItsWay(n)
      BY <1>6, <2>6
    <3>2. n = m => open[n] = None /\ ~emitted[n]
      BY <1>3, <2>1
    <3> QED BY <1>2, <1>3, <2>1, <2>6, <3>1, <3>2
            DEF StopIsOrdered, stopVars, loopVars
  <2>8. CASE to = {s}
    <3>1. outgoing' = <<end>>
      BY <2>4, <2>8
    <3>2. EndGoesOut(m, start, ts, Sinks)'
      BY <1>2, <2>1, <2>3, <2>6, <2>8, <3>1 DEF EndGoesOut, stopVars
    <3>3. OneStopGoesOut'
      BY <1>3, <3>2 DEF OneStopGoesOut
    <3>4. TypeOK'
      BY <1>3, <1>4, <2>2, <2>6, <3>1
    <3> QED BY <1>2, <2>7, <3>3, <3>4 DEF Inv
  <2>9. CASE to # {s}
    <3>1. outgoing' = <<To(Started(m, start), to \ {s}), end>>
      BY <2>4, <2>9
    <3>2. to \ {s} \in (SUBSET Sinks) \ {{}}
      BY <2>4, <2>9
    <3>3. BothGoOut(m, start, ts, to \ {s})'
      BY <1>2, <2>1, <2>6, <3>1 DEF BothGoOut, stopVars, end
    <3>4. OneStopGoesOut'
      BY <3>2, <3>3 DEF OneStopGoesOut
    <3>5. Len(outgoing') <= 2
          /\ \A i \in DOMAIN outgoing' :
               outgoing'[i].event \in Event /\ outgoing'[i].to \in (SUBSET Sinks) \ {{}}
      BY <1>7, <2>2, <3>1, <3>2 DEF To
    <3>6. TypeOK'
      BY <1>3, <1>4, <2>6, <3>5
    <3> QED BY <1>2, <2>7, <3>4, <3>6 DEF Inv
  <2> QED BY <2>8, <2>9
<1>10. ASSUME NEW ts \in 0..MaxTime, EndGoesOut(m, start, ts, to) PROVE Inv'
  <2>1. /\ outgoing = <<To(Ended(m, start, ts), to)>>
        /\ open[m] = None /\ start + minStop <= ts /\ ts <= now
        /\ Consumer \in to => told[m] = start
    BY <1>10 DEF EndGoesOut
  <2>2. /\ s \in to
        /\ outgoing' = IF to = {s} THEN <<>> ELSE <<To(Ended(m, start, ts), to \ {s})>>
    BY <1>1, <2>1, LeftToTell
  <2>3. Heard(s, Ended(m, start, ts))
    BY <1>1, <2>1 DEF To
  <2>4. /\ told' \in [Machines -> Moment] /\ last' \in [Machines -> 0..MaxTime]
        /\ \A n \in Machines \ {m} : told'[n] = told[n] /\ last'[n] = last[n]
        /\ last'[m] <= now
        /\ told'[m] # None => told'[m] = told[m]
        /\ s # Consumer => told'[m] = told[m]
    BY <1>3, <2>1, <2>3 DEF Heard, Ended, heardVars, StopIsOrdered, Moment
  <2>5. ASSUME NEW n \in Machines PROVE StopIsOrdered(n)'
    <3>1. n # m => told'[n] = told[n] /\ last'[n] = last[n] /\ ~StartIsOnItsWay(n)
      BY <1>6, <2>4
    <3>2. n = m => open[n] = None /\ ~emitted[n]
      BY <1>3, <2>1
    <3> QED BY <1>2, <1>3, <2>1, <2>4, <3>1, <3>2
            DEF StopIsOrdered, stopVars, loopVars
  <2>6. CASE to = {s}
    <3>1. outgoing' = <<>> /\ Len(outgoing') <= 2 /\ DOMAIN outgoing' = {}
      BY <2>2, <2>6
    <3>2. TypeOK' /\ OneStopGoesOut'
      BY <1>4, <2>4, <3>1 DEF OneStopGoesOut
    <3> QED BY <1>2, <2>5, <3>2 DEF Inv
  <2>7. CASE to # {s}
    <3>1. outgoing' = <<To(Ended(m, start, ts), to \ {s})>>
      BY <2>2, <2>7
    <3>2. to \ {s} \in (SUBSET Sinks) \ {{}}
      BY <2>2, <2>7
    <3>3. EndGoesOut(m, start, ts, to \ {s})'
      BY <1>2, <2>1, <2>4, <3>1 DEF EndGoesOut, stopVars
    <3>4. OneStopGoesOut'
      BY <3>2, <3>3 DEF OneStopGoesOut
    <3>5. Len(outgoing') <= 2
          /\ \A i \in DOMAIN outgoing' :
               outgoing'[i].event \in Event /\ outgoing'[i].to \in (SUBSET Sinks) \ {{}}
      BY <3>1, <3>2 DEF To, Ended, Event
    <3>6. TypeOK'
      BY <1>4, <2>4, <3>5
    <3> QED BY <1>2, <2>5, <3>4, <3>6 DEF Inv
  <2> QED BY <2>6, <2>7
<1> QED BY <1>5, <1>8, <1>9, <1>10

(* Every step of plant, loop and outside keeps the invariant.              *)
LEMMA StepInv == Inv /\ [Next]_vars => Inv'
<1> SUFFICES ASSUME Inv, [Next]_vars PROVE Inv'
  OBVIOUS
<1>1. CASE UNCHANGED vars
  <2>1. TypeOK'
    BY <1>1 DEF Inv, TypeOK, vars, loopVars, stopVars, heardVars, Blank
  <2> QED BY <1>1, <2>1, StopsUntouched DEF Inv, vars, loopVars
<1>2. CASE Loop
  BY <1>2, PollInv, RestartInv, StartInv, EndInv, FlushInv, BroadcastInv DEF Loop
<1> QED BY <1>1, <1>2, PlantInv, PollInv, RestartInv DEF Next

(* The invariant holds in every reachable state of the gateway.           *)
THEOREM Invariance == Spec => []Inv
  BY InitInv, StepInv, PTL DEF Spec

(* Whatever the machines and their rules, the loop keeps its types, a      *)
(* process that ended holds nothing, and a start is marked as sent only    *)
(* while its stop is open (_apply_firing, _flush_held_start).              *)
THEOREM TypeCorrect == Spec => []TypeOK
<1>1. Inv => TypeOK
  BY DEF Inv
<1> QED BY <1>1, Invariance, PTL

-----------------------------------------------------------------------------
(* The promise to the consumer. *)

(* The stop it must be told is the one being broadcast, or the one open.   *)
LEMMA SeenIfNothingGoesOut ==
    TypeOK /\ outgoing = <<>> => Seen = open
<1> SUFFICES ASSUME TypeOK, outgoing = <<>> PROVE Seen = open
  OBVIOUS
<1>1. \A m \in Machines : Untold(m) = {}
  BY DEF Untold
<1>2. open \in [Machines -> Moment]
  BY DEF TypeOK
<1> QED BY <1>1, <1>2 DEF Seen

(* A start that goes out is seen from the moment it was held back to.      *)
LEMMA SeenIfStartGoesOut ==
    \A m \in Machines : \A start, to :
        TypeOK /\ outgoing = <<To(Started(m, start), to)>> /\ open[m] = start
            => Seen = open
<1> SUFFICES ASSUME NEW m \in Machines, NEW start, NEW to, TypeOK,
                    outgoing = <<To(Started(m, start), to)>>, open[m] = start
             PROVE  Seen = open
  OBVIOUS
<1>1. /\ DOMAIN outgoing = {1} /\ outgoing[1].to = to
      /\ outgoing[1].event = Started(m, start)
  BY DEF To
<1>2. Untold(m) \subseteq {Started(m, start)}
  BY <1>1 DEF Untold
<1>3. \A n \in Machines \ {m} : Untold(n) = {}
  BY <1>1 DEF Untold, Started
<1>4. (CHOOSE e \in Untold(m) : TRUE).start = start \/ Untold(m) = {}
  BY <1>2 DEF Started
<1>5. open \in [Machines -> Moment]
  BY DEF TypeOK
<1>6. \A n \in Machines : Seen[n] = open[n]
  BY <1>3, <1>4 DEF Seen
<1>7. Seen = [n \in Machines |-> Seen[n]]
  BY DEF Seen
<1> QED BY <1>5, <1>6, <1>7

(* While a held start and its end go out, the stop is seen as open.        *)
LEMMA SeenIfBothGoOut ==
    \A m \in Machines : \A start, ts, to :
        TypeOK /\ outgoing = <<To(Started(m, start), to), ToAll(Ended(m, start, ts))>>
            => Seen = [open EXCEPT ![m] = start]
<1> SUFFICES ASSUME NEW m \in Machines, NEW start, NEW ts, NEW to, TypeOK,
                    outgoing = <<To(Started(m, start), to), ToAll(Ended(m, start, ts))>>
             PROVE  Seen = [open EXCEPT ![m] = start]
  OBVIOUS
<1>1. /\ DOMAIN outgoing = {1, 2}
      /\ outgoing[1].event = Started(m, start)
      /\ outgoing[2].event = Ended(m, start, ts) /\ outgoing[2].to = Sinks
  BY DEF To, ToAll
<1>2. /\ Started(m, start).machine = m /\ Started(m, start).start = start
      /\ Ended(m, start, ts).machine = m /\ Ended(m, start, ts).start = start
  BY DEF Started, Ended
<1>3. Untold(m) \subseteq {Started(m, start), Ended(m, start, ts)}
  BY <1>1 DEF Untold
<1>4. Ended(m, start, ts) \in Untold(m)
  BY <1>1, <1>2, GatewayAssumption DEF Untold
<1>5. \A n \in Machines \ {m} : Untold(n) = {}
  BY <1>1, <1>2 DEF Untold
<1>6. (CHOOSE e \in Untold(m) : TRUE).start = start
  BY <1>2, <1>3, <1>4
<1>7. open \in [Machines -> Moment]
  BY DEF TypeOK
<1>8. Seen[m] = start /\ \A n \in Machines \ {m} : Seen[n] = open[n]
  BY <1>4, <1>5, <1>6 DEF Seen
<1>9. Seen = [n \in Machines |-> Seen[n]]
  BY DEF Seen
<1> QED BY <1>7, <1>8, <1>9

(* While an end goes out, the stop is seen as open until it is told.       *)
LEMMA SeenIfEndGoesOut ==
    \A m \in Machines : \A start, ts, to :
        TypeOK /\ outgoing = <<To(Ended(m, start, ts), to)>>
            => Seen = IF Consumer \in to THEN [open EXCEPT ![m] = start] ELSE open
<1> SUFFICES ASSUME NEW m \in Machines, NEW start, NEW ts, NEW to, TypeOK,
                    outgoing = <<To(Ended(m, start, ts), to)>>
             PROVE  Seen = IF Consumer \in to THEN [open EXCEPT ![m] = start] ELSE open
  OBVIOUS
<1>1. /\ DOMAIN outgoing = {1} /\ outgoing[1].to = to
      /\ outgoing[1].event = Ended(m, start, ts)
  BY DEF To
<1>2. Ended(m, start, ts).machine = m /\ Ended(m, start, ts).start = start
  BY DEF Ended
<1>3. Untold(m) = IF Consumer \in to THEN {Ended(m, start, ts)} ELSE {}
  BY <1>1, <1>2 DEF Untold
<1>4. \A n \in Machines \ {m} : Untold(n) = {}
  BY <1>1, <1>2 DEF Untold
<1>5. Consumer \in to => (CHOOSE e \in Untold(m) : TRUE).start = start
  BY <1>2, <1>3
<1>6. open \in [Machines -> Moment]
  BY DEF TypeOK
<1>7. /\ Seen[m] = IF Consumer \in to THEN start ELSE open[m]
      /\ \A n \in Machines \ {m} : Seen[n] = open[n]
  BY <1>3, <1>4, <1>5 DEF Seen
<1>8. Seen = [n \in Machines |-> Seen[n]]
  BY DEF Seen
<1> QED BY <1>6, <1>7, <1>8

SeenIs ==
    /\ TypeOK /\ outgoing = <<>> => Seen = open
    /\ \A n \in Machines : \A begin, to :
        TypeOK /\ outgoing = <<To(Started(n, begin), to)>> /\ open[n] = begin
            => Seen = open
    /\ \A n \in Machines : \A begin, ts, to :
        TypeOK /\ outgoing = <<To(Started(n, begin), to), ToAll(Ended(n, begin, ts))>>
            => Seen = [open EXCEPT ![n] = begin]
    /\ \A n \in Machines : \A begin, ts, to :
        TypeOK /\ outgoing = <<To(Ended(n, begin, ts), to)>>
            => Seen = IF Consumer \in to THEN [open EXCEPT ![n] = begin] ELSE open

(* What is seen, for every queue of _broadcast there can be.               *)
LEMMA SeenFacts == SeenIs
  BY SeenIfNothingGoesOut, SeenIfStartGoesOut, SeenIfBothGoOut, SeenIfEndGoesOut
  DEF SeenIs

\* The machines in sight, as the refinement maps them.
Sight == {m \in Machines : up /\ connected[m]}

(* The gateway starts where the promise starts.                            *)
LEMMA PromiseInit == Init => Promise!Init
<1> SUFFICES ASSUME Init PROVE Promise!Init
  OBVIOUS
<1>1. TypeOK /\ outgoing = <<>> /\ open = [m \in Machines |-> None]
  BY InitInv DEF Init, Inv
<1>2. Seen = [m \in Machines |-> None]
  BY <1>1, SeenIfNothingGoesOut
<1>3. {m \in Machines : up /\ connected[m]} = Machines
  BY DEF Init
<1> QED BY <1>2, <1>3, GatewayAssumption DEF Init, Promise!Init

(* A step that changes nothing a consumer's promise is about.              *)
LEMMA Stutters ==
    ASSUME UNCHANGED <<now, minStop, Sight, Seen, told, last>>
    PROVE  UNCHANGED Promise!vars
  BY DEF Promise!vars, Sight

(* What is seen depends on the open stops and the queue only.              *)
LEMMA SeenUntouched ==
    ASSUME UNCHANGED <<open, outgoing>> PROVE Seen' = Seen
  BY DEF Seen, Untold

(* The clock, the plant and the life of the process.                       *)
LEMMA PlantKeepsPromise ==
    ASSUME Inv, Inv',
           \/ Tick
           \/ \E m \in Machines : \E t \in Tags[m], v \in Values : Change(m, t, v)
           \/ \E m \in Machines : Disconnect(m) \/ ReadFails(m)
           \/ Stopped \/ Kill \/ run
    PROVE  [Promise!Next]_Promise!vars
<1> USE DEF loopVars, stopVars, heardVars
<1>1. CASE Tick
  <2>1. now' > now /\ UNCHANGED <<minStop, up, connected, told, last>> /\ Seen' = Seen
    BY <1>1, SeenUntouched, GatewayAssumption DEF Tick, Inv, TypeOK
  <2> QED BY <2>1 DEF Promise!Next, Promise!Tick
<1>2. ASSUME NEW m \in Machines, NEW t \in Tags[m], NEW v \in Values, Change(m, t, v)
      PROVE  UNCHANGED Promise!vars
  BY <1>2, SeenUntouched, Stutters DEF Change, Sight
<1>3. ASSUME NEW m \in Machines, Disconnect(m) PROVE Promise!Next
  <2>1. Seen' = Seen
    BY <1>3, SeenUntouched DEF Disconnect
  <2>2. /\ connected \in [Machines -> BOOLEAN]
        /\ connected' = [connected EXCEPT ![m] = FALSE]
        /\ UNCHANGED <<now, minStop, up, told, last>>
    BY <1>3 DEF Disconnect, Inv, TypeOK
  <2>3. {n \in Machines : up /\ connected[n]}' = {n \in Machines : up /\ connected[n]} \ {m}
    BY <2>2
  <2> QED BY <2>1, <2>2, <2>3 DEF Promise!Next, Promise!LoseSight
<1>4. CASE Exit
  <2>1. /\ up' = FALSE /\ outgoing' = <<>> /\ open' = [m \in Machines |-> None]
        /\ UNCHANGED <<now, minStop, told, last>>
    BY <1>4 DEF Exit
  <2>2. Seen' = open'
    <3>1. SeenIs'
      BY SeenFacts, PTL
    <3> QED BY <2>1, <3>1 DEF Inv, SeenIs
  <2>3. {m \in Machines : up /\ connected[m]}' = {}
    BY <2>1
  <2>4. Promise!Restart({})
    BY <2>1, <2>2, <2>3 DEF Promise!Restart
  <2> QED BY <2>4 DEF Promise!Next
<1>5. CASE run
  <2>1. /\ up' = TRUE /\ connected' = [m \in Machines |-> TRUE]
        /\ UNCHANGED <<now, minStop, told, last, open, outgoing>>
    BY <1>5 DEF run
  <2>2. Seen' = [m \in Machines |-> None]
    <3>1. outgoing = <<>> /\ open = [m \in Machines |-> None]
      BY <1>5 DEF run, Inv, TypeOK, StopIsOrdered
    <3>2. Seen = [m \in Machines |-> None]
      BY <3>1, SeenIfNothingGoesOut DEF Inv
    <3> QED BY <2>1, <3>2, SeenUntouched
  <2>3. {m \in Machines : up /\ connected[m]}' = Machines
    BY <2>1
  <2>4. Promise!Restart(Machines)
    BY <2>1, <2>2, <2>3 DEF Promise!Restart
  <2> QED BY <2>4 DEF Promise!Next
<1> QED BY <1>1, <1>2, <1>3, <1>4, <1>5 DEF Stopped, Kill, ReadFails

(* The poll loop up to the rules.                                          *)
LEMMA PollKeepsPromise ==
    ASSUME \/ request_stop \/ poll_once
           \/ \E m \in Machines : Skip(m) \/ Read(m) \/ EndIgnored(m)
    PROVE  UNCHANGED Promise!vars
<1>1. UNCHANGED <<now, minStop, up, connected, open, outgoing, told, last>>
  BY DEF request_stop, poll_once, Skip, Read, EndIgnored, Apply, stopVars, heardVars
<1> QED BY <1>1, SeenUntouched, Stutters DEF Sight

(* The rules: a start opens a stop, an end closes a short one at once and  *)
(* another when it is told.                                                *)
LEMMA RulesKeepPromise ==
    ASSUME Inv, Inv', NEW m \in Machines,
           stop_started(m) \/ EndSuppressed(m) \/ EndTold(m) \/ flush_held_start(m)
    PROVE  [Promise!Next]_Promise!vars
<1>1. /\ outgoing = <<>>
      /\ UNCHANGED <<now, minStop, up, connected, told, last>>
  BY DEF stop_started, EndSuppressed, EndTold, EndsOpen, flush_held_start, Apply,
     Handling, heardVars
<1>2. Seen = open /\ open \in [Machines -> Moment]
  BY <1>1, SeenIfNothingGoesOut DEF Inv, TypeOK
<1>3. SeenIs' /\ TypeOK'
  <2>1. SeenIs'
    BY SeenFacts, PTL
  <2> QED BY <2>1 DEF Inv
<1>4. /\ outgoing' = <<>> => Seen' = open'
      /\ \A n \in Machines : \A begin, to :
          outgoing' = <<To(Started(n, begin), to)>> /\ open'[n] = begin => Seen' = open'
  BY <1>3 DEF SeenIs
<1>5. CASE stop_started(m)
  <2>1. /\ open' = [open EXCEPT ![m] = now]
        /\ outgoing' = IF minStop = 0 THEN <<To(Started(m, now), Sinks)>> ELSE <<>>
    BY <1>5 DEF stop_started, To, ToAll
  <2>2. open'[m] = now
    BY <1>2, <2>1
  <2>3. Seen' = [Seen EXCEPT ![m] = now]
    BY <1>2, <1>4, <2>1, <2>2
  <2>4. Promise!GoesDown(m)
    BY <1>1, <2>3 DEF Promise!GoesDown
  <2> QED BY <2>4 DEF Promise!Next
<1>6. CASE EndSuppressed(m)
  <2>1. /\ open[m] # None /\ ~emitted[m] /\ now - open[m] < minStop
        /\ open' = [open EXCEPT ![m] = None] /\ outgoing' = <<>>
    BY <1>1, <1>6 DEF EndSuppressed, EndsOpen, MicroStop
  <2>2. told[m] # open[m]
    <3>1. /\ StopIsOrdered(m)
          /\ open[m] \in 0..MaxTime \cup {None} /\ told[m] \in 0..MaxTime \cup {None}
      BY DEF Inv, TypeOK, Moment
    <3> QED BY <2>1, <3>1, GatewayAssumption DEF StopIsOrdered
  <2>3. Promise!Recovers(m)
    BY <1>1, <1>2, <1>4, <2>1, <2>2 DEF Promise!Recovers
  <2> QED BY <2>3 DEF Promise!Next
<1>7. CASE EndTold(m)
  <2>1. PICK start : start = open[m]
    OBVIOUS
  <2>2. /\ start # None /\ start \in Moment
        /\ open' = [open EXCEPT ![m] = None]
    BY <1>2, <1>7, <2>1 DEF EndTold, EndsOpen
  <2>3. \/ outgoing' = <<To(Ended(m, start, now), Sinks)>>
        \/ outgoing' = <<To(Started(m, start), Sinks), ToAll(Ended(m, start, now))>>
    <3>1. \/ outgoing' = <<>> \o <<ToAll(Ended(m, start, now))>>
          \/ outgoing' = <<ToAll(Started(m, start))>> \o <<ToAll(Ended(m, start, now))>>
      BY <1>7, <2>1 DEF EndTold, HeldStart
    <3>2. <<>> \o <<ToAll(Ended(m, start, now))>> = <<ToAll(Ended(m, start, now))>>
      OBVIOUS
    <3> QED BY <3>1, <3>2, TwoInARow DEF To, ToAll
  <2>4. Seen' = [open' EXCEPT ![m] = start]
    <3>1. Consumer \in Sinks
      BY GatewayAssumption
    <3> QED BY <1>3, <2>3, <3>1 DEF SeenIs
  <2>5. [open' EXCEPT ![m] = start] = open
    BY <1>2, <2>1, <2>2
  <2> QED BY <1>1, <1>2, <2>4, <2>5, Stutters DEF Sight
<1>8. CASE flush_held_start(m)
  <2>1. open' = open
    BY <1>8 DEF flush_held_start
  <2>2. outgoing' = <<>> \/ outgoing' = <<To(Started(m, open[m]), Sinks)>>
    BY <1>1, <1>8 DEF flush_held_start, HeldStart, To, ToAll
  <2>3. Seen' = Seen
    BY <1>2, <1>4, <2>1, <2>2
  <2> QED BY <1>1, <2>3, Stutters DEF Sight
<1> QED BY <1>5, <1>6, <1>7, <1>8

(* The broadcast: the consumer is told the start, then the end.            *)
LEMMA BroadcastKeepsPromise ==
    ASSUME Inv, Inv', NEW s \in Sinks, emit(s) \/ EmitRaises(s)
    PROVE  [Promise!Next]_Promise!vars
<1>1. Done(s) /\ Heard(s, Head(outgoing).event)
  BY SinkHears
<1>2. UNCHANGED <<now, minStop, up, connected, open, emitted>> /\ outgoing # <<>>
  BY <1>1 DEF Done, loopVars, stopVars
<1>3. SeenIs /\ TypeOK /\ SeenIs' /\ TypeOK' /\ open \in [Machines -> Moment]
  <2>1. SeenIs' /\ SeenIs
    BY SeenFacts, PTL
  <2> QED BY <2>1 DEF Inv, TypeOK
<1>4. PICK m \in Machines, start \in 0..MaxTime, to \in (SUBSET Sinks) \ {{}} :
        \/ StartGoesOut(m, start, to)
        \/ \E ts \in 0..MaxTime :
            BothGoOut(m, start, ts, to) \/ EndGoesOut(m, start, ts, to)
  BY <1>2 DEF Inv, OneStopGoesOut
<1>5. start # None /\ start \in Moment
  BY GatewayAssumption DEF Moment
(* A start: it is told now, or it is none of the consumer's or not news. *)
<1>6. ASSUME Heard(s, Started(m, start)), ToldOrTellable(m, start, to), s \in to,
             Seen' = Seen, Seen[m] = start
      PROVE  [Promise!Next]_Promise!vars
  <2>1. CASE s # Consumer
    BY <1>2, <1>6, <2>1, Stutters DEF Heard, heardVars, Sight
  <2>2. CASE s = Consumer
    <3>1. /\ told' = [told EXCEPT ![m] = start] /\ last' = last
          /\ Tellable(m, start) /\ told \in [Machines -> Moment]
      BY <1>3, <1>6, <2>2 DEF Heard, Started, ToldOrTellable, TypeOK
    <3>2. CASE told[m] = start
      <4>1. told' = told
        BY <3>1, <3>2
      <4> QED BY <1>2, <1>6, <3>1, <4>1, Stutters DEF Sight
    <3>3. CASE told[m] # start
      <4>1. now - start >= minStop
        BY <3>1, GatewayAssumption DEF Tellable, Inv, TypeOK
      <4>2. Promise!TellStart(m)
        BY <1>2, <1>5, <1>6, <3>1, <3>3, <4>1
        DEF Promise!TellStart, Promise!Before, Tellable
      <4> QED BY <4>2 DEF Promise!Next
    <3> QED BY <3>2, <3>3
  <2> QED BY <2>1, <2>2
<1>7. CASE StartGoesOut(m, start, to)
  <2>1. /\ outgoing = <<To(Started(m, start), to)>>
        /\ open[m] = start /\ ToldOrTellable(m, start, to)
    BY <1>7 DEF StartGoesOut
  <2>2. /\ s \in to
        /\ outgoing' = <<>> \/ outgoing' = <<To(Started(m, start), to \ {s})>>
    BY <1>1, <2>1, LeftToTell
  <2>3. Heard(s, Started(m, start))
    BY <1>1, <2>1 DEF To
  <2>4. Seen = open /\ Seen' = open'
    BY <1>2, <1>3, <2>1, <2>2 DEF SeenIs
  <2> QED BY <1>2, <1>6, <2>1, <2>2, <2>3, <2>4
<1>8. ASSUME NEW ts \in 0..MaxTime, BothGoOut(m, start, ts, to)
      PROVE  [Promise!Next]_Promise!vars
  <2> DEFINE end == ToAll(Ended(m, start, ts))
  <2>1. /\ outgoing = <<To(Started(m, start), to), end>>
        /\ ToldOrTellable(m, start, to)
    BY <1>8 DEF BothGoOut
  <2>2. /\ s \in to
        /\ outgoing' = IF to = {s} THEN <<end>> ELSE <<To(Started(m, start), to \ {s}), end>>
    <3> HIDE DEF end
    <3>1. Done(s) /\ outgoing = <<To(Started(m, start), to), end>>
      BY <1>1, <2>1
    <3> QED BY ONLY <3>1, LeftOfTwoToTell
  <2>3. Heard(s, Started(m, start))
    BY <1>1, <2>1 DEF To
  <2>4. end = To(Ended(m, start, ts), Sinks) /\ Consumer \in Sinks
    BY GatewayAssumption DEF To, ToAll
  <2>5. Seen = [open EXCEPT ![m] = start] /\ Seen' = [open' EXCEPT ![m] = start]
    BY <1>3, <2>1, <2>2, <2>4 DEF SeenIs
  <2>6. Seen' = Seen /\ Seen[m] = start
    BY <1>2, <1>3, <2>5
  <2> QED BY <1>6, <2>1, <2>2, <2>3, <2>6
<1>9. ASSUME NEW ts \in 0..MaxTime, EndGoesOut(m, start, ts, to)
      PROVE  [Promise!Next]_Promise!vars
  <2>1. /\ outgoing = <<To(Ended(m, start, ts), to)>>
        /\ open[m] = None /\ start + minStop <= ts /\ ts <= now
        /\ Consumer \in to => told[m] = start
    BY <1>9 DEF EndGoesOut
  <2>2. /\ s \in to
        /\ outgoing' = IF to = {s} THEN <<>> ELSE <<To(Ended(m, start, ts), to \ {s})>>
    BY <1>1, <2>1, LeftToTell
  <2>3. Heard(s, Ended(m, start, ts))
    BY <1>1, <2>1 DEF To
  <2>4. Seen = IF Consumer \in to THEN [open EXCEPT ![m] = start] ELSE open
    BY <1>3, <2>1 DEF SeenIs
  <2>5. Seen' = IF Consumer \in to \ {s} THEN [open EXCEPT ![m] = start] ELSE open
    <3>1. CASE to = {s}
      BY <1>2, <1>3, <2>2, <3>1 DEF SeenIs
    <3>2. CASE to # {s}
      BY <1>2, <1>3, <2>2, <3>2 DEF SeenIs
    <3> QED BY <3>1, <3>2
  <2>6. CASE s # Consumer
    <3>1. Seen' = Seen
      BY <2>4, <2>5, <2>6
    <3> QED BY <1>2, <2>3, <2>6, <3>1, Stutters DEF Heard, heardVars, Sight
  <2>7. CASE s = Consumer
    <3>1. /\ told' = [told EXCEPT ![m] = None] /\ last' = [last EXCEPT ![m] = ts]
          /\ told[m] = start
      BY <2>1, <2>2, <2>3, <2>7 DEF Heard, Ended
    <3>2. Seen[m] = start /\ Seen' = [Seen EXCEPT ![m] = None]
      BY <1>3, <2>1, <2>2, <2>4, <2>5, <2>7
    <3>3. ts - told[m] >= minStop
      BY <2>1, <3>1, GatewayAssumption DEF Inv, TypeOK
    <3>4. Promise!TellEnd(m, ts)
      BY <1>2, <1>5, <2>1, <3>1, <3>2, <3>3 DEF Promise!TellEnd
    <3>5. ts \in 0..now
      BY <2>1 DEF Inv, TypeOK
    <3> QED BY <3>4, <3>5 DEF Promise!Next
  <2> QED BY <2>6, <2>7
<1> QED BY <1>4, <1>7, <1>8, <1>9

(* Every step of the gateway is one the promise allows, or none.           *)
LEMMA StepKeepsPromise ==
    Inv /\ Inv' /\ [Next]_vars => [Promise!Next]_Promise!vars
<1> SUFFICES ASSUME Inv, Inv', [Next]_vars PROVE [Promise!Next]_Promise!vars
  OBVIOUS
<1>1. CASE UNCHANGED vars
  BY <1>1, SeenUntouched, Stutters DEF vars, loopVars, stopVars, heardVars, Sight
<1>2. CASE Loop
  BY <1>2, PlantKeepsPromise, PollKeepsPromise, RulesKeepPromise, BroadcastKeepsPromise
  DEF Loop
<1> QED BY <1>1, <1>2, PlantKeepsPromise, PollKeepsPromise DEF Next

(* What the gateway tells a consumer is what StopEvents promises it, for   *)
(* any machines, rules and sinks: no short stop, no end without its start, *)
(* no two stops of a machine over the same time (_apply_firing,            *)
(* _flush_held_start, _broadcast).                                         *)
THEOREM GatewayKeepsItsPromise == Spec => Promise!Safety
  BY PromiseInit, StepKeepsPromise, Invariance, PTL DEF Spec, Promise!Safety
=============================================================================
