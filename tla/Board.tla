------------------------------- MODULE Board --------------------------------
(***************************************************************************)
(* The boards (StopTrack.tsx): which stops, which output and which presence*)
(* an operator's shift consists of, the handover made of it, and the       *)
(* supervisor's sums over the same records.                                *)
(*                                                                         *)
(* React recomputes the shift window on a 30 s timer, not with the clock:  *)
(* window and boardStart are as old as the last tick of that timer, which  *)
(* a tab in the background may miss for any length of time.                *)
(*                                                                         *)
(* Ratios (availability, performance, quality) and goals are not computed; *)
(* what the ratios divide is.                                              *)
(***************************************************************************)
EXTENDS ShiftClock, Sequences, FiniteSets, FiniteSetsExt

CONSTANTS
    Shifts,          \* Shifts[id]: the configured shifts
    Operators, NoName,
    Machines,
    Slug,            \* Slug[m]: the machine's name as record ids carry it
    Durations, Counts,            \* inputs
    StartTime, MaxTime, MaxTaps   \* bounds

ASSUME BoardAssumption ==
    /\ Shifts \in [DOMAIN Shifts -> Shift] /\ DOMAIN Shifts # {}
    /\ NoName \notin Operators /\ IsFiniteSet(Operators)
    /\ Machines # {} /\ IsFiniteSet(Machines)
    /\ Slug \in [Machines -> Nat]
    /\ Durations \subseteq Nat /\ Counts \subseteq Nat
    /\ StartTime \in Nat \ {0} /\ MaxTime \in Nat /\ StartTime <= MaxTime /\ MaxTaps \in Nat

VARIABLES
    now,
    shiftId,        \* the operator's chosen shift
    clearedBefore,  \* the last New Shift, 0 when there was none
    window,         \* shiftWindow, as last computed
    boardStart,     \* shiftStart, as last computed
    seen,           \* when the window was last computed (history)
    operator, machine,
    stops,          \* all stops of the device, a sequence
    production,     \* the output records, a function of their ids
    sessions,       \* presence spans, a sequence; end 0 is open
    handout,        \* the handover dialog: its snapshot, or Closed
    handovers,      \* the handovers filed
    taps            \* taps so far

clockVars == <<shiftId, clearedBefore, window, boardStart, seen>>
setupVars == <<operator, machine>>
vars == <<now, shiftId, clearedBefore, window, boardStart, seen, operator, machine,
          stops, production, sessions, handout, handovers, taps>>

NoRows == [id \in {} |-> 0]
Closed == [report |-> <<>>, id |-> 0]
Everyone == Operators \cup {NoName}

Smaller(a, b) == IF a <= b THEN a ELSE b

Stop == [operator : Operators, machine : Machines, start : Int, duration : Nat,
         logged : Nat, discarded : BOOLEAN, deleted : BOOLEAN]
Span == [operator : Operators, machine : Machines, start : Nat, end : Nat]
Output == [machine : Machines, operator : Everyone, shiftStart : Int, units : Nat]

TypeOK ==
    /\ now \in StartTime..MaxTime /\ seen \in StartTime..now
    /\ shiftId \in DOMAIN Shifts /\ clearedBefore \in 0..now
    /\ window.start \in Int /\ window.end \in Int /\ boardStart \in Int
    /\ operator \in Everyone /\ machine \in Machines
    /\ stops \in Seq(Stop) /\ sessions \in Seq(Span)
    /\ \A id \in DOMAIN production :
          production[id] \in Output /\ id[2] = production[id].shiftStart
    /\ handout.id \in 0..(Cardinality(handovers) + 1)
    /\ taps \in 0..MaxTaps

Init ==
    /\ now = StartTime /\ seen = StartTime
    /\ shiftId \in DOMAIN Shifts /\ clearedBefore = 0
    /\ window = shiftWindowAt(Shifts[shiftId], now)
    /\ boardStart = shiftStart(window, now, 0)
    /\ operator \in Everyone /\ machine \in Machines
    /\ stops = <<>> /\ production = NoRows /\ sessions = <<>>
    /\ handout = Closed /\ handovers = {} /\ taps = 0

Tap == taps < MaxTaps /\ taps' = taps + 1

Tick ==
    /\ now < MaxTime
    /\ now' = now + 1
    /\ UNCHANGED <<clockVars, setupVars, stops, production, sessions, handout,
                   handovers, taps>>

-----------------------------------------------------------------------------
(* The board. *)

RecomputeForgets(id, cleared) ==
    /\ window' = shiftWindowAt(Shifts[id], now)
    /\ boardStart' = shiftStart(window', now, 0)
    /\ seen' = now

Recompute(id, cleared) ==
    /\ window' = shiftWindowAt(Shifts[id], now)
    /\ boardStart' = shiftStart(window', now, cleared)
    /\ seen' = now

(* The 30 s timer. *)
slowTick ==
    /\ seen < now
    /\ Recompute(shiftId, clearedBefore)
    /\ UNCHANGED <<now, shiftId, clearedBefore, setupVars, stops, production,
                   sessions, handout, handovers, taps>>

selectShift(id) ==
    /\ Tap /\ id # shiftId
    /\ shiftId' = id
    /\ Recompute(id, clearedBefore)
    /\ UNCHANGED <<now, clearedBefore, setupVars, stops, production, sessions,
                   handout, handovers>>

(* The window is left as it was; a present operator's span is split here.   *)
startNewShift ==
    /\ Tap
    /\ clearedBefore' = now
    /\ boardStart' = shiftStart(window, now, now)
    /\ sessions' =
          LET open == {i \in DOMAIN sessions : sessions[i].end = 0}
              closed == [i \in DOMAIN sessions |->
                            IF i \in open THEN [sessions[i] EXCEPT !.end = now]
                            ELSE sessions[i]]
          IN  IF open = {} \/ operator = NoName THEN closed
              ELSE Append(closed, [operator |-> operator, machine |-> machine,
                                   start |-> now, end |-> 0])
    /\ UNCHANGED <<now, shiftId, window, seen, setupVars, stops, production,
                   handout, handovers>>

-----------------------------------------------------------------------------
(* What comes onto it.  Operator has the details of timer and presence.    *)

(* A stop of this device or one pulled from another, timed or reported.    *)
LogStop(name, m, duration) ==
    /\ Tap
    /\ stops' = Append(stops, [operator |-> name, machine |-> m, duration |-> duration,
                               start |-> now - duration, logged |-> now,
                               discarded |-> FALSE, deleted |-> FALSE])
    /\ UNCHANGED <<now, clockVars, setupVars, production, sessions, handout, handovers>>

(* Being at machine m from now on. *)
Arrive(m) ==
    /\ Tap /\ operator # NoName
    /\ machine' = m
    /\ sessions' = Append([i \in DOMAIN sessions |->
                              IF sessions[i].end = 0 THEN [sessions[i] EXCEPT !.end = now]
                              ELSE sessions[i]],
                          [operator |-> operator, machine |-> m, start |-> now, end |-> 0])
    /\ UNCHANGED <<now, clockVars, operator, stops, production, handout, handovers>>

IdOfShift(m) == <<Slug[m], window.start, operator>>
ProductionId(m) == <<Slug[m], boardStart, operator>>

(* One record per id, upserted. *)
handleSaveProduction(units) ==
    /\ Tap
    /\ LET id == ProductionId(machine) IN
          production' = [k \in DOMAIN production \cup {id} |->
              IF k = id THEN [machine |-> machine, operator |-> operator,
                              shiftStart |-> boardStart, units |-> units]
              ELSE production[k]]
    /\ UNCHANGED <<now, clockVars, setupVars, stops, sessions, handout, handovers>>

(* The supervisor, soft and for good. *)
discardStop(i) ==
    /\ Tap /\ ~stops[i].discarded /\ ~stops[i].deleted
    /\ stops' = [stops EXCEPT ![i].discarded = TRUE]
    /\ UNCHANGED <<now, clockVars, setupVars, production, sessions, handout, handovers>>

deleteStop(i) ==
    /\ Tap /\ ~stops[i].deleted
    /\ stops' = [stops EXCEPT ![i].deleted = TRUE]
    /\ UNCHANGED <<now, clockVars, setupVars, production, sessions, handout, handovers>>

-----------------------------------------------------------------------------
(* What the operator sees. *)

Kept == {i \in DOMAIN stops : ~stops[i].discarded /\ ~stops[i].deleted}
Own == {i \in Kept : operator = NoName \/ stops[i].operator = operator}

shiftStops == {i \in Own : stops[i].logged > boardStart}

Downtime(S) == SumFunctionOnSet([i \in DOMAIN stops |-> stops[i].duration], S)

(* The shift so far: never past its end, never negative. *)
WindowEnd == Smaller(now, window.end)
Elapsed == LaterOf(0, WindowEnd - boardStart)

(* A span within the window.  The end of an open one is now. *)
ClippedToNow(s) ==
    LaterOf(0, (IF s.end = 0 THEN now ELSE s.end) - LaterOf(s.start, boardStart))

Clipped(s) ==
    LaterOf(0, Smaller(IF s.end = 0 THEN now ELSE s.end, WindowEnd)
               - LaterOf(s.start, boardStart))

Share(m) ==
    SumFunctionOnSet([i \in DOMAIN sessions |-> Clipped(sessions[i])],
                     {i \in DOMAIN sessions : sessions[i].operator = operator
                                              /\ sessions[i].machine = m})
ShareTotal == SumFunction([m \in Machines |-> Share(m)])

Units(m) ==
    SumFunctionOnSet([id \in DOMAIN production |-> production[id].units],
                     {id \in DOMAIN production :
                         LET p == production[id] IN
                         p.operator = operator /\ p.shiftStart = boardStart /\ p.machine = m})

(* A machine's row of myShift; its manned time is manned / ShareTotal. *)
Row(m) ==
    LET own == {i \in shiftStops : stops[i].machine = m}
    IN  [manned |-> Elapsed * Share(m), downtime |-> Downtime(own),
         stops |-> Cardinality(own), units |-> Units(m)]

-----------------------------------------------------------------------------
(* The handover: a snapshot of the board, filed by each way it is sent.    *)

Report == [start |-> boardStart, end |-> now, operator |-> operator,
           count |-> Cardinality(shiftStops), downtime |-> Downtime(shiftStops),
           rows |-> [m \in Machines |-> Row(m)]]

openHandover ==
    /\ Tap /\ handout = Closed /\ operator # NoName
    /\ handout' = [report |-> Report, id |-> 0]
    /\ UNCHANGED <<now, clockVars, setupVars, stops, production, sessions, handovers>>

(* persist: shared, saved or mailed.  The id is minted by the first. *)
PersistAnew ==
    /\ handout # Closed
    /\ Cardinality(handovers) < MaxTaps
    /\ LET id == Cardinality(handovers) + 1 IN
          /\ handout' = [handout EXCEPT !.id = id]
          /\ handovers' = handovers \cup {[id |-> id, report |-> handout.report]}
    /\ UNCHANGED <<now, clockVars, setupVars, stops, production, sessions, taps>>

persist ==
    /\ handout # Closed
    /\ LET id == IF handout.id = 0 THEN Cardinality(handovers) + 1 ELSE handout.id IN
          /\ handout' = [handout EXCEPT !.id = id]
          /\ handovers' = {h \in handovers : h.id # id} \cup
                          {[id |-> id, report |-> handout.report]}
    /\ UNCHANGED <<now, clockVars, setupVars, stops, production, sessions, taps>>

closeHandover ==
    /\ handout # Closed
    /\ handout' = Closed
    /\ UNCHANGED <<now, clockVars, setupVars, stops, production, sessions, handovers,
                   taps>>

-----------------------------------------------------------------------------
(* What the supervisor sees, of the log between two instants. *)

Active(from, to) ==
    {i \in Kept : stops[i].start >= from /\ stops[i].start <= to}

ByMachine(S, m) == Downtime({i \in S : stops[i].machine = m})
ByOperator(S, name) == Downtime({i \in S : stops[i].operator = name})

(* A bar of the chart of the last seven days. *)
BarWithBothMidnights(d) ==
    LET midnight == Midnight(now - d * Day)
    IN  {i \in Kept : stops[i].start >= midnight /\ stops[i].start <= midnight + Day}

TrendBar(d) ==
    LET midnight == Midnight(now - d * Day)
    IN  {i \in Kept : stops[i].start >= midnight /\ stops[i].start < midnight + Day}

-----------------------------------------------------------------------------
Next ==
    \/ Tick \/ slowTick \/ startNewShift
    \/ \E id \in DOMAIN Shifts : selectShift(id)
    \/ \E name \in Operators, m \in Machines, d \in Durations : LogStop(name, m, d)
    \/ \E m \in Machines : Arrive(m)
    \/ \E units \in Counts : handleSaveProduction(units)
    \/ \E i \in DOMAIN stops : discardStop(i) \/ deleteStop(i)
    \/ openHandover \/ persist \/ closeHandover

Spec == Init /\ [][Next]_vars

-----------------------------------------------------------------------------
(* Properties. *)

(* The board begins at the last of three instants, found here by search and *)
(* not by arithmetic on midnights: the shift's last start, the end of its   *)
(* overtime if that has passed, the last New Shift (shiftWindowAt,          *)
(* shiftLengthMs, shiftStart; overnight and round-the-clock shifts too).    *)
BoardMatchesTheClock ==
    LET s == Shifts[shiftId]
        began == CHOOSE t \in (seen - Day + 1)..seen : t % Day = s.start
        ended == CHOOSE t \in (began + 1)..(began + Day) : t % Day = s.end
    IN  boardStart = Max({began, clearedBefore} \cup
                         IF ended + Grace < seen THEN {ended + Grace} ELSE {})

(* No multi-day shift: when it is computed, the board begins less than a    *)
(* day back, whoever forgot to tap New Shift (StopTrack.tsx:1747-1752).     *)
BoardSpansADay ==
    /\ seen - boardStart < Day
    /\ boardStart <= seen \/ boardStart = clearedBefore

(* The two ways the code finds the end of the shift agree while it lasts    *)
(* (shiftEndAt and the end of shiftWindowAt).                               *)
EndsAgree ==
    \A id \in DOMAIN Shifts :
        LET w == shiftWindowAt(Shifts[id], now)
        IN  /\ w.start <= now /\ now < w.start + Day
            /\ now < w.end => shiftEndAt(Shifts[id], now) = w.end

(* The manned time an operator's shift is given is never longer than the    *)
(* shift, and never shorter than the presence it is apportioned by: nobody *)
(* is credited 21 hours for a span left open, and none of the time at a    *)
(* machine is lost (myShift; presence spans do not overlap, see Operator).  *)
ElapsedFits == Elapsed <= shiftLength(Shifts[shiftId])
MannedTimeIsReal == ElapsedFits /\ ShareTotal <= Elapsed

(* However often a handover is shared, saved and mailed, and whatever stops  *)
(* come in or are discarded meanwhile, one record of it is filed, as it was *)
(* when the dialog opened (persist, savedRef, the frozen reportBase).       *)
FiledOnce == [][handout.id # 0 => handovers' = handovers]_vars

(* The supervisor's figures are about the same stops: by machine, by         *)
(* operator and in total, and each stop of the week is in one bar, on the   *)
(* day it began, however far back a report was dated (stats, byOperator,    *)
(* trend).                                                                  *)
ChartsAgree ==
    LET all == Active(0, now)
        week == {i \in Kept : stops[i].start >= Midnight(now) - 6 * Day}
    IN  /\ SumFunction([m \in Machines |-> ByMachine(all, m)]) = Downtime(all)
        /\ SumFunction([name \in Operators |-> ByOperator(all, name)]) = Downtime(all)
        /\ SumFunction([d \in 0..6 |-> Downtime(TrendBar(d))]) = Downtime(week)

(* The board only moves forward while the operator keeps to a shift: a stop *)
(* that has left it does not come back, and what was logged since stays.   *)
BoardMovesForward == [][shiftId' = shiftId => boardStart' >= boardStart]_vars
=============================================================================
