------------------------------ MODULE Operator ------------------------------
(***************************************************************************)
(* The operator's page in a browser (StopTrack.tsx): the stop timer and its *)
(* autosave, the finished stop awaiting a reason, off-machine spans,       *)
(* presence sessions, the setup lock, and what a reload makes of them.     *)
(*                                                                         *)
(* A step is one tap, one timer of the page or one effect of the outside:  *)
(* localStorage answers at once, so nothing happens between the awaits of  *)
(* a handler.  The one real wait is at load, where a page that has no sync *)
(* configuration asks its origin for /health: with Probing the operator    *)
(* can use the page meanwhile.  One page per device is open at a time.     *)
(*                                                                         *)
(* A save that fails (storage full) leaves the stop pending, or the span   *)
(* open, as it was: it is no step here.                                    *)
(***************************************************************************)
EXTENDS Integers, Sequences, FiniteSets

CONSTANTS
    Names,          \* operators
    NoName,         \* the empty name field
    Machines,
    NoMachine,
    Rank,           \* Rank[m]: place of m in the configured list
    Probing,        \* the load waits for /health
    Boundary,       \* when the shift on the clock begins
    ConfirmAfter,   \* OFF_CONFIRM_MS
    StaleAfter,     \* STALE_MS
    Reports,        \* durations a manual report may have
    MaxTime, MaxStops, MaxSessions, MaxKills, MaxSetups   \* bounds

ASSUME OperatorAssumption ==
    /\ NoName \notin Names /\ NoMachine \notin Machines
    /\ Machines # {} /\ IsFiniteSet(Machines) /\ Rank \in [Machines -> Nat]
    /\ Probing \in BOOLEAN
    /\ {Boundary, ConfirmAfter, StaleAfter} \subseteq Nat
    /\ MaxTime \in Nat \ {0}
    /\ {MaxStops, MaxSessions, MaxKills, MaxSetups} \subseteq Nat
    /\ Reports \subseteq Nat \ {0}

VARIABLES
    now,        \* Date.now(); 0 stands for null wherever the code has a time
    page,       \* "down", "loading" (before the answer to /health) or "up"
    machines,   \* the configured machines
    ui,         \* React state: operator, machine, locked, off, clearedBefore
    timer,      \* useTimer's state
    pending,    \* pendingStop
    recovered,  \* the unfinished stop offered by the modal
    openSess,   \* openSessRef: index into sessions, 0 when null
    prefs,      \* stored config:prefs
    ip,         \* stored inprogress:current
    curSess,    \* stored sync:currentSession
    sessions,   \* stored presence sessions
    stops,      \* stored stops
    serial,     \* stops begun (history; names a stop)
    gone,       \* stops given up: discarded by the operator, mistapped, dropped
                \* as older than the shift, or pending when the page died (history)
    ran,        \* how long the stop being timed has really run (history)
    cut,        \* whether the page died while it was timed (history)
    kills,
    setups      \* changes of name, lock, machine and shift (bounded)

pageVars == <<page, machines, ui, timer, pending, recovered, openSess>>
sessVars == <<openSess, curSess, sessions>>
timerVars == <<timer, ran, cut>>
vars == <<now, page, machines, ui, timer, pending, recovered, openSess, prefs,
          ip, curSess, sessions, stops, serial, gone, ran, cut, kills, setups>>

Larger(a, b) == IF a >= b THEN a ELSE b
Anyone == Names \cup {NoName}
First(S) == CHOOSE m \in S : \A k \in S : Rank[m] <= Rank[k]

(* n names the stop: the code has no such number. *)
Idle == [running |-> FALSE, paused |-> FALSE, startTs |-> 0, accumulated |-> 0,
         segStart |-> 0, machine |-> NoMachine, n |-> 0]
NoIp == [t |-> Idle, operator |-> NoName, savedAt |-> 0]
NoStop == [start |-> 0, end |-> 0, duration |-> 0, machine |-> NoMachine, n |-> 0]
NoSpan == [machine |-> NoMachine, operator |-> NoName, start |-> 0, n |-> 0]
Blank(ms) == [operator |-> NoName, machine |-> First(ms), locked |-> FALSE,
              off |-> NoSpan, clearedBefore |-> 0]

Times == 0..MaxTime
Timers == [running : BOOLEAN, paused : BOOLEAN, startTs : Times, accumulated : Times,
           segStart : Times, machine : Machines \cup {NoMachine}, n : 0..MaxStops]
Ips == [t : Timers, operator : Anyone, savedAt : Times]
Spans == [machine : Machines \cup {NoMachine}, operator : Anyone, start : Times,
          n : 0..MaxStops]
Setups == [operator : Anyone, machine : Machines, locked : BOOLEAN, off : Spans,
           clearedBefore : Times]
Sessions == [operator : Names, machine : Machines, start : Times, end : Times,
             updatedAt : Times]

TypeOK ==
    /\ now \in Times /\ page \in {"down", "loading", "up"}
    /\ machines \in (SUBSET Machines) \ {{}}
    /\ ui \in Setups /\ prefs \in Setups
    /\ timer \in Timers /\ ip \in Ips /\ recovered \in Ips
    /\ pending.duration \in Times /\ pending.start <= pending.end
    /\ sessions \in Seq(Sessions) /\ Len(sessions) <= MaxSessions
    /\ {openSess, curSess} \subseteq 0..Len(sessions)
    /\ serial \in 0..MaxStops /\ gone \subseteq 1..MaxStops
    /\ ran \in Times /\ cut \in BOOLEAN /\ kills \in 0..MaxKills
    /\ setups \in 0..MaxSetups

(* A first visit, or the page of an operator who locked the setup earlier.  *)
Init ==
    /\ now = 1 /\ page = "loading" /\ machines = Machines
    /\ ui = Blank(Machines)
    /\ prefs \in {Blank(Machines)} \cup
          {[Blank(Machines) EXCEPT !.operator = name, !.locked = TRUE] : name \in Names}
    /\ timer = Idle /\ pending = NoStop /\ recovered = NoIp /\ ip = NoIp
    /\ openSess = 0 /\ curSess = 0 /\ sessions = <<>>
    /\ stops = {} /\ serial = 0 /\ gone = {} /\ ran = 0 /\ cut = FALSE
    /\ kills = 0 /\ setups = 0

(* The operator can reach the buttons: OperatorView is not hidden while the *)
(* load runs, the modal about an unfinished stop covers it.                *)
Usable ==
    /\ page = "up" \/ (Probing /\ page = "loading")
    /\ recovered = NoIp

Valid(m) == IF m \in machines THEN m ELSE First(machines)

ShiftStart(cleared) == Larger(IF now >= Boundary THEN Boundary ELSE 0, cleared)

-----------------------------------------------------------------------------
(* Presence sessions. *)

(* What the ref holds, written over the stored record. *)
Saved(ss, i, end) == [ss EXCEPT ![i].end = end, ![i].updatedAt = now]

Ended == IF openSess = 0 THEN sessions ELSE Saved(sessions, openSess, now)

SessionFor(name, m) ==
    [operator |-> name, machine |-> m, start |-> now, end |-> 0, updatedAt |-> now]

Opened(ss, name, m) ==
    /\ Len(ss) < MaxSessions
    /\ sessions' = Append(ss, SessionFor(name, m))
    /\ openSess' = Len(ss) + 1
    /\ curSess' = Len(ss) + 1

openSession(name, m) ==
    IF name = NoName THEN UNCHANGED sessVars ELSE Opened(sessions, name, m)

closeSession ==
    IF openSess = 0 THEN UNCHANGED sessVars
    ELSE sessions' = Ended /\ openSess' = 0 /\ curSess' = 0

(* closeSession(); openSession(m): neither is awaited, the writes keep their *)
(* order.                                                                  *)
OpenOnly(name, m) ==
    IF name = NoName THEN closeSession ELSE Opened(sessions, name, m)

CloseAndOpen(name, m) ==
    IF name = NoName THEN closeSession ELSE Opened(Ended, name, m)

heartbeat ==
    /\ openSess # 0
    /\ sessions' = Saved(sessions, openSess, 0)
    /\ sessions' # sessions
    /\ UNCHANGED <<now, page, machines, ui, pending, recovered, openSess, prefs,
                   ip, curSess, stops, serial, gone, timerVars, kills, setups>>

(* Another device loads while this one sleeps, closes the session that has *)
(* shown no heartbeat, and its write is pulled here.                       *)
RemoteClose ==
    /\ page = "up" /\ openSess # 0
    /\ LET s == sessions[openSess] IN
          /\ s.end = 0 /\ now - s.updatedAt > StaleAfter
          /\ sessions' = Saved(sessions, openSess, s.updatedAt)
    /\ setups < MaxSetups /\ setups' = setups + 1
    /\ UNCHANGED <<now, page, machines, ui, pending, recovered, openSess, prefs,
                   ip, curSess, stops, serial, gone, timerVars, kills>>

-----------------------------------------------------------------------------
(* The setup: name, machine, lock.  savePrefs replaces the whole blob.     *)

(* The autosave effect: it runs when the timer, the name or the machine     *)
(* changes, and writes nothing while no stop is timed.                     *)
AutosavedUnstamped(t, name) ==
    IF t.running THEN [t |-> t, operator |-> name, savedAt |-> 0] ELSE ip

Autosaved(t, name) ==
    IF t.running THEN [t |-> t, operator |-> name, savedAt |-> now] ELSE ip

setOperator(name) ==
    /\ Usable /\ ~ui.locked /\ name # ui.operator
    /\ ui' = [ui EXCEPT !.operator = name]
    /\ ip' = Autosaved(timer, name)
    /\ setups < MaxSetups /\ setups' = setups + 1
    /\ UNCHANGED <<now, page, machines, pending, recovered, prefs, sessVars,
                   stops, serial, gone, timerVars, kills>>

lockSetup ==
    /\ Usable /\ ~ui.locked /\ ui.operator # NoName
    /\ ui' = [ui EXCEPT !.locked = TRUE]
    /\ prefs' = ui'
    /\ IF ui.off # NoSpan THEN UNCHANGED sessVars
       ELSE IF openSess = 0 THEN openSession(ui.operator, ui.machine)
       ELSE IF sessions[openSess].operator # ui.operator
            THEN CloseAndOpen(ui.operator, ui.machine)
       ELSE UNCHANGED sessVars
    /\ setups < MaxSetups /\ setups' = setups + 1
    /\ UNCHANGED <<now, page, machines, pending, recovered, ip, stops, serial,
                   gone, timerVars, kills>>

unlockSetup ==
    /\ Usable /\ ui.locked
    /\ ui' = [ui EXCEPT !.locked = FALSE]
    /\ prefs' = ui'
    /\ setups < MaxSetups /\ setups' = setups + 1
    /\ UNCHANGED <<now, page, machines, pending, recovered, ip, sessVars, stops,
                   serial, gone, timerVars, kills>>

(* Any other preference: toggleDark, selectShift. *)
DarkForgetsSpan ==
    /\ Usable
    /\ prefs # ui
    /\ prefs' = [ui EXCEPT !.off = NoSpan]
    /\ UNCHANGED <<now, pageVars, ip, curSess, sessions, stops, serial, gone, ran,
                   cut, kills, setups>>

toggleDark ==
    /\ Usable
    /\ prefs # ui
    /\ prefs' = ui
    /\ UNCHANGED <<now, pageVars, ip, curSess, sessions, stops, serial, gone, ran,
                   cut, kills, setups>>

switchMachine(m) ==
    /\ Usable /\ ui.off = NoSpan
    /\ m \in machines /\ m # ui.machine
    /\ CloseAndOpen(ui.operator, m)
    /\ ui' = [ui EXCEPT !.machine = m]
    /\ ip' = Autosaved(timer, ui.operator)
    /\ setups < MaxSetups /\ setups' = setups + 1
    /\ UNCHANGED <<now, page, machines, pending, recovered, prefs, stops, serial,
                   gone, timerVars, kills>>

(* The supervisor's configuration drops a machine; the page moves off it    *)
(* and the session stays where it was.                                     *)
DropMachine(m) ==
    /\ page = "up" /\ m \in machines /\ machines # {m}
    /\ machines' = machines \ {m}
    /\ ui' = [ui EXCEPT !.machine = IF @ = m THEN First(machines') ELSE @]
    /\ ip' = IF ui.machine = m THEN Autosaved(timer, ui.operator) ELSE ip
    /\ setups < MaxSetups /\ setups' = setups + 1
    /\ UNCHANGED <<now, page, pending, recovered, prefs, sessVars, stops, serial,
                   gone, timerVars, kills>>

startNewShift ==
    /\ Usable /\ pending = NoStop
    /\ ui.clearedBefore # now
    /\ ui' = [ui EXCEPT !.clearedBefore = now]
    /\ prefs' = ui'
    /\ IF openSess = 0 THEN UNCHANGED sessVars ELSE CloseAndOpen(ui.operator, ui.machine)
    /\ setups < MaxSetups /\ setups' = setups + 1
    /\ UNCHANGED <<now, page, machines, pending, recovered, ip, stops, serial,
                   gone, timerVars, kills>>

-----------------------------------------------------------------------------
(* The stop timer and the stop it leaves to document. *)

TimerNotRunning == ~timer.running
TimerIdle == ~timer.running /\ pending = NoStop /\ ui.off = NoSpan

start ==
    /\ Usable /\ TimerIdle /\ serial < MaxStops
    /\ serial' = serial + 1
    /\ timer' = [running |-> TRUE, paused |-> FALSE, startTs |-> now, accumulated |-> 0,
                 segStart |-> now, machine |-> ui.machine, n |-> serial']
    /\ ip' = Autosaved(timer', ui.operator)
    /\ ran' = 0 /\ cut' = FALSE
    /\ UNCHANGED <<now, page, machines, ui, pending, recovered, prefs, sessVars,
                   stops, gone, kills, setups>>

pause ==
    /\ Usable /\ timer.running /\ ~timer.paused
    /\ timer' = [timer EXCEPT !.paused = TRUE, !.segStart = 0,
                              !.accumulated = @ + (now - timer.segStart)]
    /\ ip' = Autosaved(timer', ui.operator)
    /\ UNCHANGED <<now, page, machines, ui, pending, recovered, prefs, sessVars,
                   stops, serial, gone, ran, cut, kills, setups>>

ResumeOldSegment ==
    /\ Usable /\ timer.paused
    /\ timer' = [timer EXCEPT !.paused = FALSE]
    /\ ip' = Autosaved(timer', ui.operator)
    /\ UNCHANGED <<now, page, machines, ui, pending, recovered, prefs, sessVars,
                   stops, serial, gone, ran, cut, kills, setups>>

resume ==
    /\ Usable /\ timer.paused
    /\ timer' = [timer EXCEPT !.paused = FALSE, !.segStart = now]
    /\ ip' = Autosaved(timer', ui.operator)
    /\ UNCHANGED <<now, page, machines, ui, pending, recovered, prefs, sessVars,
                   stops, serial, gone, ran, cut, kills, setups>>

handleStop ==
    /\ Usable /\ timer.running
    /\ pending' = [start |-> timer.startTs, end |-> now, n |-> timer.n,
                   machine |-> timer.machine,
                   duration |-> timer.accumulated +
                                IF timer.paused THEN 0 ELSE now - timer.segStart]
    /\ timer' = Idle
    /\ ip' = NoIp
    /\ UNCHANGED <<now, page, machines, ui, recovered, prefs, sessVars, stops,
                   serial, gone, ran, cut, kills, setups>>

(* stops is a set: id stands for the random part of a stop's id. *)
Stop(kind, n, m, name, from, to, duration) ==
    [id |-> Cardinality(stops), kind |-> kind, n |-> n, machine |-> m,
     operator |-> name, start |-> from, end |-> to, duration |-> duration,
     loggedAt |-> now, ran |-> ran, cut |-> cut]

handleSave ==
    /\ Usable /\ pending # NoStop
    /\ stops' = stops \cup {Stop("timed", pending.n, pending.machine, ui.operator,
                                 pending.start, pending.end, pending.duration)}
    /\ prefs' = ui
    /\ pending' = NoStop
    /\ UNCHANGED <<now, page, machines, ui, recovered, ip, sessVars, serial, gone,
                   timerVars, kills, setups>>

handleDiscardPending ==
    /\ Usable /\ pending # NoStop
    /\ pending' = NoStop
    /\ gone' = gone \cup {pending.n}
    /\ UNCHANGED <<now, page, machines, ui, recovered, prefs, ip, sessVars, stops,
                   serial, timerVars, kills, setups>>

handleManualSave(m, duration) ==
    /\ Usable /\ TimerIdle /\ serial < MaxStops
    /\ serial' = serial + 1
    /\ stops' = stops \cup {Stop("manual", serial', m, ui.operator, now - duration,
                                 now, duration)}
    /\ prefs' = ui
    /\ UNCHANGED <<now, pageVars, ip, curSess, sessions, gone, ran, cut, kills, setups>>

-----------------------------------------------------------------------------
(* Off machine. *)

startOffMachine ==
    /\ Usable /\ TimerIdle /\ serial < MaxStops
    /\ serial' = serial + 1
    /\ ui' = [ui EXCEPT !.off = [machine |-> ui.machine, operator |-> ui.operator,
                                 start |-> now, n |-> serial']]
    /\ prefs' = ui'
    /\ closeSession
    /\ UNCHANGED <<now, page, machines, pending, recovered, ip, stops, gone,
                   timerVars, kills, setups>>

(* Back at machine m without the span.  persistPrefs runs before setMachine:*)
(* what is stored keeps the machine that was left.                         *)
Return(m) ==
    /\ prefs' = [ui EXCEPT !.off = NoSpan]
    /\ ui' = [prefs' EXCEPT !.machine = Valid(m)]
    /\ openSession(ui.operator, m)
    /\ UNCHANGED <<now, page, machines, pending, recovered, ip, serial, timerVars,
                   kills, setups>>

(* A span of less than a second is a mistap. *)
endOffMachine(m) ==
    /\ Usable /\ ui.off # NoSpan
    /\ m \in machines \cup {ui.off.machine}
    /\ IF now > ui.off.start
       THEN /\ stops' = stops \cup {Stop("off", ui.off.n, ui.off.machine,
                          ui.off.operator, ui.off.start, now, now - ui.off.start)}
            /\ gone' = gone
       ELSE stops' = stops /\ gone' = gone \cup {ui.off.n}
    /\ Return(m)

discardOffMachine(m) ==
    /\ Usable /\ ui.off # NoSpan
    /\ now - ui.off.start >= ConfirmAfter
    /\ m \in machines \cup {ui.off.machine}
    /\ gone' = gone \cup {ui.off.n}
    /\ Return(m)
    /\ UNCHANGED stops

-----------------------------------------------------------------------------
(* The page dies, loads, and offers the stop it finds. *)

(* The tab is hidden, as it also is by an orderly reload. *)
visibilitychange ==
    /\ page # "down" /\ timer.running
    /\ ip' = Autosaved(timer, ui.operator)
    /\ ip' # ip
    /\ UNCHANGED <<now, pageVars, prefs, curSess, sessions, stops, serial, gone, ran,
                   cut, kills, setups>>

(* React state is gone; localStorage and time are not. *)
Kill ==
    /\ page # "down" /\ kills < MaxKills
    /\ kills' = kills + 1
    /\ page' = "down"
    /\ ui' = Blank(machines)
    /\ timer' = Idle /\ pending' = NoStop /\ recovered' = NoIp /\ openSess' = 0
    /\ cut' = (timer.running \/ cut)
    /\ gone' = IF pending = NoStop THEN gone ELSE gone \cup {pending.n}
    /\ UNCHANGED <<now, machines, prefs, ip, curSess, sessions, stops, serial, ran, setups>>

Load ==
    /\ page = "down"
    /\ page' = "loading"
    /\ UNCHANGED <<now, machines, ui, timer, pending, recovered, prefs, ip, sessVars,
                   stops, serial, gone, ran, cut, kills, setups>>

(* The sessions nobody will close: the one this device left open, and those *)
(* without a heartbeat for STALE_MS.                                       *)
DanglingStale(i) ==
    sessions[i].end = 0 /\ now - sessions[i].updatedAt > StaleAfter

Dangling(i) ==
    /\ sessions[i].end = 0
    /\ i = curSess \/ now - sessions[i].updatedAt > StaleAfter

Closed == [i \in DOMAIN sessions |->
              IF Dangling(i)
              THEN [sessions[i] EXCEPT !.end = sessions[i].updatedAt, !.updatedAt = now]
              ELSE sessions[i]]

(* The rest of the load, with the effect that looks at a restored span      *)
(* once: it is dropped if it began before the shift.                       *)
LoadStored ==
    /\ page = "loading"
    /\ page' = "up"
    /\ LET named == prefs.locked /\ prefs.operator # NoName
           cleared == IF prefs.clearedBefore # 0 THEN prefs.clearedBefore
                      ELSE ui.clearedBefore
           old == prefs.off # NoSpan /\ prefs.off.start < ShiftStart(cleared)
       IN /\ ui' = [operator |-> IF named THEN prefs.operator ELSE ui.operator,
                    machine |-> IF prefs.locked THEN Valid(prefs.machine) ELSE ui.machine,
                    locked |-> prefs.locked \/ ui.locked,
                    off |-> IF old THEN NoSpan
                            ELSE IF prefs.off # NoSpan THEN prefs.off ELSE ui.off,
                    clearedBefore |-> cleared]
          /\ prefs' = IF prefs.off # NoSpan THEN ui' ELSE prefs
          /\ gone' = IF old THEN gone \cup {prefs.off.n} ELSE gone
          /\ IF named /\ prefs.off = NoSpan
             THEN Opened(Closed, prefs.operator, prefs.machine)
             ELSE sessions' = Closed /\ curSess' = 0 /\ openSess' = openSess
    /\ recovered' = ip
    /\ UNCHANGED <<now, machines, pending, ip, stops, serial, timerVars, kills, setups>>

recoverResume ==
    /\ page = "up" /\ recovered # NoIp
    /\ LET t == recovered.t
           frozen == t.paused \/ t.segStart = 0
       IN /\ ui' = [ui EXCEPT !.operator = recovered.operator,
                              !.machine = Valid(t.machine)]
          /\ timer' = [t EXCEPT !.running = TRUE, !.paused = frozen,
                                !.segStart = IF frozen THEN 0 ELSE now]
          /\ ip' = Autosaved(timer', recovered.operator)
          /\ IF openSess # 0 THEN UNCHANGED sessVars
             ELSE openSession(recovered.operator, Valid(t.machine))
    /\ recovered' = NoIp
    /\ UNCHANGED <<now, page, machines, pending, prefs, stops, serial, gone, ran, cut,
                   kills, setups>>

(* The segment up to the last autosave counts here, and not when resumed. *)
recoverFinalize ==
    /\ page = "up" /\ recovered # NoIp
    /\ LET t == recovered.t IN
          /\ ui' = [ui EXCEPT !.operator = recovered.operator,
                              !.machine = Valid(t.machine)]
          /\ pending' = [start |-> t.startTs, end |-> recovered.savedAt, n |-> t.n,
                         machine |-> t.machine,
                         duration |-> t.accumulated +
                             IF t.paused \/ t.segStart = 0 THEN 0
                             ELSE Larger(0, recovered.savedAt - t.segStart)]
    /\ recovered' = NoIp
    /\ ip' = NoIp
    /\ UNCHANGED <<now, page, machines, prefs, sessVars, stops, serial, gone,
                   timerVars, kills, setups>>

recoverDiscard ==
    /\ page = "up" /\ recovered # NoIp
    /\ recovered' = NoIp
    /\ ip' = NoIp
    /\ gone' = gone \cup {recovered.t.n}
    /\ UNCHANGED <<now, page, machines, ui, pending, prefs, sessVars, stops, serial,
                   timerVars, kills, setups>>

Tick ==
    /\ now < MaxTime
    /\ now' = now + 1
    /\ ran' = IF timer.running /\ ~timer.paused THEN ran + 1 ELSE ran
    /\ UNCHANGED <<pageVars, prefs, ip, curSess, sessions, stops, serial, gone, cut,
                   kills, setups>>

Next ==
    \/ Tick \/ heartbeat \/ RemoteClose \/ \E m \in Machines : DropMachine(m)
    \/ \E name \in Anyone : setOperator(name)
    \/ lockSetup \/ unlockSetup \/ toggleDark \/ startNewShift
    \/ \E m \in Machines : switchMachine(m)
    \/ start \/ pause \/ resume \/ handleStop \/ handleSave \/ handleDiscardPending
    \/ \E m \in machines, d \in Reports : handleManualSave(m, d)
    \/ startOffMachine
    \/ \E m \in Machines : endOffMachine(m) \/ discardOffMachine(m)
    \/ visibilitychange \/ Kill \/ Load \/ LoadStored
    \/ recoverResume \/ recoverFinalize \/ recoverDiscard

Spec == Init /\ [][Next]_vars

-----------------------------------------------------------------------------
(* Properties. *)

Up == page = "up"
Measured == {s \in stops : s.kind # "manual"}

(* No minute of this device is downtime twice: a stop that was timed, paused,*)
(* killed, restored or finalized and an off-machine span, as recorded, never *)
(* overlap, and none is recorded twice (timerBusy, endOffMachine, the       *)
(* disabled buttons, recoverResume, recoverFinalize).                       *)
DowntimeCountedOnce ==
    \A r, s \in Measured : r.id # s.id =>
        r.n # s.n /\ (r.end <= s.start \/ s.end <= r.start)

(* A recorded stop never claims more than the time its timer really ran     *)
(* unpaused, whatever pauses, autosaves and reloads it went through; and a *)
(* stop no reload interrupted claims exactly that.                         *)
NeverOvercounts ==
    \A s \in stops : s.kind = "timed" =>
        s.duration <= s.ran /\ (~s.cut => s.duration = s.ran)

(* Time credited to an operator at a machine overlaps neither another       *)
(* presence span nor time away from every machine (closeSession in          *)
(* startOffMachine and startNewShift, the guards of lockSetup and the load).*)
SpanEnd(i) == IF sessions[i].end = 0 THEN now ELSE sessions[i].end

OnePlaceAtATime ==
    \A i \in DOMAIN sessions :
        /\ \A j \in DOMAIN sessions : i < j => SpanEnd(i) <= sessions[j].start
        /\ \A s \in stops : s.kind = "off" =>
              SpanEnd(i) <= s.start \/ s.end <= sessions[i].start
        /\ ui.off # NoSpan => SpanEnd(i) <= ui.off.start

(* An open presence span is the one this page will close, or, after a kill, *)
(* the one the next load will: nobody is left at a machine for ever         *)
(* (sync:currentSession against openSessRef).                              *)
OpenSessionIsKnown ==
    \A i \in DOMAIN sessions : sessions[i].end = 0 =>
        i = IF Up THEN openSess ELSE curSess

(* Downtime that began does not vanish: it is timed, stored, offered,       *)
(* pending, open as a span or recorded until somebody gives it up, the page *)
(* dies over an undocumented stop, or a load drops a span of an earlier     *)
(* shift.                                                                  *)
Downtime == ({timer.n, ip.t.n, recovered.t.n, pending.n, ui.off.n, prefs.off.n} \ {0})
            \cup {s.n : s \in stops}
DowntimeKept == [][Downtime \subseteq Downtime' \cup gone']_vars
=============================================================================
