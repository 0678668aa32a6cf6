----------------------------- MODULE QuickStop -----------------------------
(***************************************************************************)
(* The stop timer of the phone: QuickStopController in the companion's     *)
(* service, its copy in the preferences (Prefs), and the web page in       *)
(* MainActivity, which shows that copy, records the finished stop and then *)
(* tells the service to drop it.                                           *)
(*                                                                         *)
(* Notification, bubble and page send commands; each is taken whenever it  *)
(* arrives, by the service's one main thread.  A transition changes memory *)
(* at once and the preferences later (persist launches a coroutine).       *)
(***************************************************************************)
EXTENDS Integers, Sequences

CONSTANTS None,
          MaxTime, MaxStops, MaxDeaths, MaxWrites, MaxDiscards, MaxRecords   \* bounds

ASSUME QuickStopAssumption ==
    /\ {MaxTime, MaxStops, MaxDeaths, MaxWrites, MaxDiscards, MaxRecords} \subseteq Nat
    /\ None \notin Nat \union [id : Nat, duration : Nat]

VARIABLES
    now,
    up,          \* the companion's process lives
    restored,    \* restoredInProgress: the saved timer was looked at
    read,        \* the settings that the collector was given first, or None
    state,       \* the controller's timer
    pending,     \* its finished stop awaiting a reason, or None
    writes,      \* copies that persist() launched and DataStore has still to make
    stored,      \* inProgress and pendingStop in the preferences
    discards,    \* the page's discardStop intents under way: the stop each is meant for
    page,        \* the WebView: is it open, nativePending, lastSavedSigRef
    begun,       \* stops begun so far; a stop is known by its number
    records      \* per stop, the durations recorded for it, in order

\* History: how long each stop ran, which the operator dismissed, and which
\* met with one of the mishaps below.
VARIABLES deaths, ran, dismissed,
          undone,      \* a command was not stored, or not delivered, when the process died,
                       \* or it came before the restore
          mistaken,    \* a discard that was meant for another stop dropped it
          reopened     \* the page was opened again before its discard was stored

service == <<restored, read, state, pending, writes>>
mishaps == <<undone, mistaken, reopened>>
history == <<deaths, ran, dismissed, mishaps>>
vars == <<now, up, service, stored, discards, page, begun, records, history>>

StopIds == 1..MaxStops
Idle == [id |-> None, running |-> FALSE, accumulated |-> 0, segStart |-> 0]
Nothing == [inProgress |-> Idle, pendingStop |-> None]
Shut == [open |-> FALSE, pending |-> None, sig |-> None]

active == state.id # None
paused == active /\ ~state.running
PendingId(copy) == IF copy.pendingStop = None THEN None ELSE copy.pendingStop.id
\* The stops in a copy of timer and pending stop, and what it says of one.
Of(copy) == {copy.inProgress.id, PendingId(copy)} \ {None}
About(copy, s) == <<IF copy.inProgress.id = s THEN copy.inProgress ELSE Idle, PendingId(copy) = s>>
InMemory == [inProgress |-> state, pendingStop |-> pending]
Members(seq) == {seq[i] : i \in DOMAIN seq}

Init ==
    /\ now = 0 /\ up = TRUE
    /\ restored = FALSE /\ read = None
    /\ state = Idle /\ pending = None
    /\ writes = <<>> /\ stored = Nothing
    /\ discards = <<>> /\ page = Shut
    /\ begun = 0 /\ records = [s \in StopIds |-> <<>>]
    /\ deaths = 0 /\ ran = [s \in StopIds |-> 0]
    /\ dismissed = {} /\ undone = {} /\ mistaken = {} /\ reopened = {}

\* The stop that is being timed: the live one, or, before the restore, the
\* saved one, which goes on while the process is dead.
Timed == IF active THEN state ELSE IF ~restored THEN stored.inProgress ELSE Idle

Tick ==
    /\ now < MaxTime
    /\ now' = now + 1
    /\ ran' = IF Timed.running THEN [ran EXCEPT ![Timed.id] = @ + 1] ELSE ran
    /\ UNCHANGED <<up, service, stored, discards, page, begun, records, deaths, dismissed, mishaps>>

----------------------------------------------------------------------------
(* QuickStopController.                                                    *)

persistTimerOnly ==
    /\ Len(writes) < MaxWrites
    /\ writes' = Append(writes, [inProgress |-> state', pendingStop |-> None])
persist ==
    /\ Len(writes) < MaxWrites
    /\ writes' = Append(writes, [inProgress |-> state', pendingStop |-> pending'])

start ==
    /\ up /\ begun < MaxStops
    /\ ~active /\ pending = None
    /\ begun' = begun + 1
    /\ state' = [id |-> begun + 1, running |-> TRUE, accumulated |-> 0, segStart |-> now]
    /\ pending' = pending
    /\ persist
    /\ undone' = IF restored THEN undone ELSE undone \union {begun + 1} \union Of(stored)
    /\ UNCHANGED <<now, up, restored, read, stored, discards, page, records,
                   deaths, ran, dismissed, mistaken, reopened>>

elapsedOfSegment == state.accumulated + (now - state.segStart)
elapsed == state.accumulated + (IF state.running THEN now - state.segStart ELSE 0)

Steps ==
    /\ up
    /\ persist
    /\ UNCHANGED <<now, up, restored, read, stored, discards, page, begun, records, history>>

pause ==
    /\ active /\ state.running
    /\ state' = [state EXCEPT !.running = FALSE, !.accumulated = elapsed, !.segStart = 0]
    /\ pending' = pending
    /\ Steps

resume ==
    /\ paused
    /\ state' = [state EXCEPT !.running = TRUE, !.segStart = now]
    /\ pending' = pending
    /\ Steps

end ==
    /\ active
    /\ state' = Idle
    /\ pending' = [id |-> state.id, duration |-> elapsed]
    /\ Steps

\* The intent names no stop: it drops whatever is pending when it arrives.
discardPending ==
    /\ up /\ discards # <<>>
    /\ discards' = Tail(discards)
    /\ undone' = IF restored THEN undone ELSE undone \union {Head(discards)}
    /\ IF pending = None
         THEN UNCHANGED <<pending, state, writes, mistaken>>
         ELSE /\ pending' = None /\ state' = state
              /\ persist
              /\ mistaken' = IF pending.id = Head(discards) THEN mistaken
                             ELSE mistaken \union {pending.id}
    /\ UNCHANGED <<now, up, restored, read, stored, page, begun, records,
                   deaths, ran, dismissed, reopened>>

\* DataStore makes the edits in the order they were launched.
update ==
    /\ up /\ writes # <<>>
    /\ stored' = Head(writes)
    /\ writes' = Tail(writes)
    /\ UNCHANGED <<now, up, restored, read, state, pending, discards, page, begun, records, history>>

----------------------------------------------------------------------------
(* The service begins, and restores what was saved, once.                  *)

onCreate ==
    /\ ~up
    /\ up' = TRUE
    /\ UNCHANGED <<now, service, stored, discards, page, begun, records, history>>

Collect ==
    /\ up /\ ~restored /\ read = None
    /\ read' = stored
    /\ UNCHANGED <<now, up, restored, state, pending, writes, stored, discards, page, begun, records, history>>

applySettings ==
    /\ up /\ ~restored /\ read # None
    /\ restored' = TRUE /\ read' = None
    /\ state' = IF read.inProgress # Idle THEN read.inProgress ELSE state
    /\ pending' = IF read.pendingStop # None /\ state'.id = None
                    THEN read.pendingStop ELSE pending
    /\ UNCHANGED <<now, up, writes, stored, discards, page, begun, records, history>>

\* An intent that was not delivered is lost with the process, or delivered
\* to the next one.
Kill ==
    /\ up /\ deaths < MaxDeaths
    /\ up' = FALSE
    /\ restored' = FALSE /\ read' = None
    /\ state' = Idle /\ pending' = None /\ writes' = <<>>
    /\ discards' \in {<<>>, discards}
    /\ page' = Shut
    /\ deaths' = deaths + 1
    /\ undone' = undone \union Members(discards) \union
         {s \in StopIds : \E i \in DOMAIN writes : About(writes[i], s) # About(stored, s)}
    /\ UNCHANGED <<now, stored, begun, records, ran, dismissed, mistaken, reopened>>

----------------------------------------------------------------------------
(* The page.                                                               *)

onOpen ==
    /\ up /\ ~page.open
    /\ page' = [Shut EXCEPT !.open = TRUE]
    /\ reopened' = reopened \union Members(discards) \union
         (IF restored /\ PendingId(stored) # PendingId(InMemory) THEN {PendingId(stored)} \ {None} ELSE {})
    /\ UNCHANGED <<now, up, service, stored, discards, begun, records,
                   deaths, ran, dismissed, undone, mistaken>>

onDestroy ==
    /\ page.open
    /\ page' = Shut
    /\ UNCHANGED <<now, up, service, stored, discards, begun, records, history>>

\* The activity collects the preferences and hands them to the page.
pushState ==
    /\ up /\ page.open
    /\ page' = [page EXCEPT !.pending = stored.pendingStop]
    /\ UNCHANGED <<now, up, service, stored, discards, begun, records, history>>

\* The page forgets, when it is opened again, what it has saved.
handleSave ==
    /\ page.open /\ page.pending # None
    /\ page.sig # page.pending.id
    /\ Len(records[page.pending.id]) < MaxRecords
    /\ Len(discards) < MaxDiscards
    /\ page' = [page EXCEPT !.sig = page.pending.id]
    /\ records' = [records EXCEPT ![page.pending.id] = Append(@, page.pending.duration)]
    /\ discards' = Append(discards, page.pending.id)
    /\ UNCHANGED <<now, up, service, stored, begun, history>>

handleDiscardPending ==
    /\ page.open /\ page.pending # None
    /\ Len(discards) < MaxDiscards
    /\ discards' = Append(discards, page.pending.id)
    /\ dismissed' = dismissed \union {page.pending.id}
    /\ UNCHANGED <<now, up, service, stored, page, begun, records, deaths, ran, mishaps>>

Next ==
    \/ Tick
    \/ start \/ pause \/ resume \/ end \/ discardPending \/ update
    \/ onCreate \/ Collect \/ applySettings \/ Kill
    \/ onOpen \/ onDestroy \/ pushState \/ handleSave \/ handleDiscardPending

Spec == Init /\ [][Next]_vars

----------------------------------------------------------------------------
Timer == [id : StopIds \union {None}, running : BOOLEAN, accumulated : 0..MaxTime, segStart : 0..MaxTime]
Finished == [id : StopIds, duration : 0..MaxTime]
Copy == [inProgress : Timer, pendingStop : Finished \union {None}]

\* The variables keep their types: no timer or finished stop claims more
\* time than there was; a dead process holds nothing.
TypeOK ==
    /\ now \in 0..MaxTime /\ up \in BOOLEAN /\ restored \in BOOLEAN
    /\ read \in Copy \union {None}
    /\ state \in Timer /\ pending \in Finished \union {None}
    /\ ~active => state = Idle
    /\ writes \in Seq(Copy) /\ Len(writes) <= MaxWrites
    /\ stored \in Copy
    /\ discards \in Seq(StopIds) /\ Len(discards) <= MaxDiscards
    /\ page \in [open : BOOLEAN, pending : Finished \union {None}, sig : StopIds \union {None}]
    /\ ~up => state = Idle /\ pending = None /\ writes = <<>> /\ page = Shut
    /\ begun \in 0..MaxStops
    /\ records \in [StopIds -> Seq(0..MaxTime)]
    /\ ran \in [StopIds -> 0..MaxTime]

Kept == Of(InMemory) \union (IF restored THEN {} ELSE Of(stored))
NotLost(s) ==
    records[s] = <<>> => s \in Kept \union dismissed \union undone \union mistaken
NotTwice(s) == Len(records[s]) <= 1 \/ s \in undone \union reopened
AsLongAsItRan(s) ==
    \A i \in DOMAIN records[s] : records[s][i] = ran[s] \/ s \in undone

\* Every stop begun is timed, awaits a reason, is recorded once for as long as
\* it ran, or was dismissed; and where it is not, a mishap befell it: the
\* process died before a command was stored, a command came before the restore,
\* a discard meant for another stop came late, or the page was opened again
\* before its discard was stored.
EveryStopOnce == \A s \in 1..begun : NotLost(s) /\ NotTwice(s) /\ AsLongAsItRan(s)
=============================================================================
