------------------------------ MODULE PhoneHub ------------------------------
(***************************************************************************)
(* The phone companion between what is on the phone (the page, the watch)  *)
(* and a remote server: PhoneStore.kt, RemoteForwarder.kt and the loop in  *)
(* CompanionService.kt that runs the forwarder.                            *)
(*                                                                         *)
(* The store is under one lock, so an upsert with its write of the file is *)
(* one step.  The forwarder blocks in its requests and can be cancelled    *)
(* only where it awaits the preferences, which hold its cursors.  A new    *)
(* forwarder starts when the cancelled one has reached such a point.       *)
(*                                                                         *)
(* The server reads its clock when a POST arrives (server.js:305) and      *)
(* changes its records when the body is in, an await later (:358): a POST   *)
(* is handled at any clock it read since the POST was sent.                *)
(***************************************************************************)
EXTENDS Lww, FiniteSets

CONSTANTS
    Ids,         \* record ids
    Coll,        \* Coll[id] \in 1..NColls: the collection it belongs to
    NColls,      \* stops, production, sessions, handovers, in this order
    Ahead,       \* how far the server's clock is ahead of the phone's
    MaxTime,     \* bound of the phone's clock
    MaxInputs,   \* bound of the records stored by the page, the watch and other
                 \* devices, and of the settings changed
    MaxKills     \* bound of the times the companion is killed

ASSUME HubAssumption ==
    /\ NColls \in Nat \ {0}
    /\ Coll \in [Ids -> 1..NColls]
    /\ Ahead \in Nat
    /\ MaxTime \in Nat \ {0}
    /\ MaxInputs \in Nat
    /\ MaxKills \in Nat

VARIABLES
    now,         \* the phone's clock
    remote,      \* the server's records
    undone,      \* undone[id]: the newest stamp a slow POST has taken the
                 \* server's record back from (history)
    mem,         \* PhoneStore's collections
    file,        \* companion-data.json; empty when it cannot be read
    pushCursor,  \* one for all collections
    pullCursor,  \* pullCursor[c]
    job,         \* the forwarder
    emitted,     \* the preferences changed, their collector has not run yet
    kills,       \* how often it was killed, for MaxKills
    inputs,      \* for MaxInputs
    fresh,       \* ids stored since the forwarder read their collection (history)
    skipped,     \* ids stored behind the push cursor, or passed over by it (history)
    late,        \* ids that reached the server behind the pull cursor (history)
    lost,        \* ids whose record a restart lost, or an older one replaced
                 \* because its stamp was ahead of the phone's clock (history)
    unfiled      \* ids of which the file was last not written, because the write
                 \* failed or because the upsert reported no change (history)

remoteVars == <<remote, undone>>
phoneVars == <<mem, file, unfiled>>
cursors == <<pushCursor, pullCursor>>
bounds == <<kills, inputs>>
history == <<fresh, skipped, late, lost>>
vars == <<now, remoteVars, phoneVars, cursors, job, emitted, bounds, history>>

Colls == 1..NColls
Of(c) == {id \in Ids : Coll[id] = c}
Store == [Ids -> Record \cup {NoRec}]
Empty == [id \in Ids |-> NoRec]
Sub(f, S) == [id \in S |-> f[id]]
Larger(a, b) == IF a >= b THEN a ELSE b
RemoteClock == now + Ahead

Phases == {"wait", "push", "pushing", "confirmed", "pushed",
           "pull", "pulling", "pulled", "stored"}

(* start: the push cursor as this run read it; max: what it will become;   *)
(* refused: collections the server did not take in this run; time: when    *)
(* the push was sent, or the serverTime of the pull's answer.              *)
NoJob == [pc |-> "wait", coll |-> 1, start |-> 0, max |-> 0, refused |-> {},
          rows |-> Sub(Empty, {}), time |-> 0, cancelled |-> FALSE]

(* The variables have their types, and a run that is waiting has forgotten *)
(* the last one.                                                           *)
TypeOK ==
    /\ now \in 0..MaxTime
    /\ remote \in Store /\ undone \in [Ids -> Nat]
    /\ mem \in Store
    /\ file \in Store
    /\ pushCursor \in Nat
    /\ pullCursor \in [Colls -> Nat]
    /\ job.pc \in Phases /\ job.coll \in Colls /\ job.cancelled \in BOOLEAN
    /\ job.start \in Nat /\ job.max \in Nat /\ job.time \in Nat
    /\ job.refused \subseteq Colls
    /\ DOMAIN job.rows \subseteq Of(job.coll)
    /\ \A id \in DOMAIN job.rows : job.rows[id] \in Record
    /\ job.pc = "wait" => job = NoJob
    /\ emitted \in BOOLEAN
    /\ kills \in 0..MaxKills /\ inputs \in 0..MaxInputs
    /\ fresh \cup skipped \cup late \cup lost \cup unfiled \subseteq Ids

Init ==
    /\ now = 1
    /\ remote = Empty
    /\ undone = [id \in Ids |-> 0]
    /\ mem = Empty
    /\ file = Empty
    /\ pushCursor = 0
    /\ pullCursor = [c \in Colls |-> 0]
    /\ job = NoJob
    /\ emitted = FALSE
    /\ kills = 0
    /\ inputs = 0
    /\ fresh = {}
    /\ skipped = {}
    /\ late = {}
    /\ lost = {}
    /\ unfiled = {}

Tick ==
    /\ now < MaxTime
    /\ now' = now + 1
    /\ UNCHANGED <<remoteVars, phoneVars, cursors, job, emitted, bounds, history>>

-----------------------------------------------------------------------------
(* PhoneStore. *)

(* upsertNewer stores the record as it came, its stamp unclamped, and      *)
(* reports no change when it only replaced a record of the same stamp.     *)
StoredNewer(batch) ==
    [id \in Ids |->
        IF id \in DOMAIN batch /\ Accepts(mem[id], batch[id], now)
        THEN batch[id] ELSE mem[id]]

(* Where a stamp is ahead of the clock an older record is as good. *)
WentBack == {id \in Ids : mem[id] # NoRec /\ mem'[id].at < mem[id].at}

Changed(batch) ==
    \E id \in DOMAIN batch : AcceptsStrictly(mem[id], batch[id], now)

(* upsert: when something changed the file is written; a write that fails  *)
(* is swallowed, and may have emptied the file.                            *)
UpsertUnfiled(batch) ==
    /\ mem' = StoredNewer(batch)
    /\ UNCHANGED <<file, unfiled>>

UpsertRecords(batch) ==
    /\ mem' = StoredNewer(batch)
    /\ IF Changed(batch)
       THEN \/ file' = mem' /\ unfiled' = {}
            \/ file' \in {file, Empty} /\ unfiled' = {id \in Ids : file'[id] # mem'[id]}
       ELSE /\ UNCHANGED file
            /\ unfiled' = unfiled \cup {id \in Ids : mem'[id] # mem[id]}

(* POST of a record by the page, or a stop from the watch, which may have  *)
(* kept it for a while.                                                    *)
StoreLocal(id, rec) ==
    /\ rec.at <= now /\ inputs < MaxInputs
    /\ inputs' = inputs + 1
    /\ UpsertRecords([i \in {id} |-> rec])
    /\ fresh' = fresh \cup {id}
    /\ skipped' = IF rec.at <= pushCursor THEN skipped \cup {id} ELSE skipped
    /\ lost' = lost \cup WentBack
    /\ UNCHANGED <<now, remoteVars, cursors, job, emitted, kills, late>>

(* The companion is killed, at worst while it writes its file, and starts  *)
(* again from the file and the preferences.                                *)
Kill ==
    /\ kills < MaxKills
    /\ kills' = kills + 1
    /\ file' \in {file, Empty}
    /\ mem' = file'
    /\ lost' = lost \cup {id \in Ids : mem'[id] # mem[id]}
    /\ unfiled' = {}
    /\ job' = NoJob
    /\ emitted' = FALSE
    /\ UNCHANGED <<now, remoteVars, cursors, inputs, fresh, skipped, late>>

-----------------------------------------------------------------------------
(* CompanionService: the loop around the forwarder. *)

(* The user changes a setting. *)
ChangeSettings ==
    /\ inputs < MaxInputs
    /\ inputs' = inputs + 1
    /\ emitted' = TRUE
    /\ UNCHANGED <<now, remoteVars, phoneVars, cursors, job, kills, history>>

(* applySettings, on every change of the preferences, a cursor included:   *)
(* the forwarder is cancelled and another one started.                     *)
ApplySettings ==
    /\ emitted
    /\ emitted' = FALSE
    /\ job' = [job EXCEPT !.cancelled = (job.pc # "wait")]
    /\ UNCHANGED <<now, remoteVars, phoneVars, cursors, bounds, history>>

(* Where a forwarder reads or writes a cursor, a cancelled one ends. *)
AwaitsPreferences ==
    \/ job.pc = "pushed" /\ job.max > job.start
    \/ job.pc = "pull"
    \/ job.pc = "stored" /\ job.time >= pullCursor[job.coll]

EndCancelled ==
    /\ job.cancelled /\ AwaitsPreferences
    /\ job' = NoJob
    /\ UNCHANGED <<now, remoteVars, phoneVars, cursors, emitted, bounds, history>>

-----------------------------------------------------------------------------
(* runOnce: push what is newer than the push cursor, then pull. *)

(* The server answered the health check. *)
StartRun ==
    /\ job.pc = "wait"
    /\ job' = [NoJob EXCEPT !.pc = "push", !.start = pushCursor, !.max = pushCursor]
    /\ fresh' = {}
    /\ UNCHANGED <<now, remoteVars, phoneVars, cursors, emitted, bounds, skipped, late, lost>>

NextPush(j) ==
    IF j.coll = NColls
    THEN [j EXCEPT !.pc = "pushed", !.rows = Sub(Empty, {}), !.time = 0, !.coll = 1]
    ELSE [j EXCEPT !.pc = "push", !.rows = Sub(Empty, {}), !.time = 0, !.coll = @ + 1]

Push ==
    /\ job.pc = "push"
    /\ LET changed == ChangedSince(mem, job.start, now) \cap Of(job.coll) IN
       job' = IF changed = {} THEN NextPush(job)
              ELSE [job EXCEPT !.pc = "pushing", !.rows = Sub(mem, changed),
                               !.time = RemoteClock]
    /\ fresh' = fresh \ Of(job.coll)
    /\ UNCHANGED <<now, remoteVars, phoneVars, cursors, emitted, bounds, skipped, late, lost>>

(* The serverTime of the last pull of a collection that was answered. *)
AnsweredUpTo(c) ==
    IF job.pc \in {"pulled", "stored"} /\ job.coll = c
    THEN Larger(job.time, pullCursor[c]) ELSE pullCursor[c]

(* The stamp a record is taken back from, and 0 when it is not. *)
TakenBackFrom(id) ==
    IF remote[id] # NoRec /\ remote'[id].at < remote[id].at THEN remote[id].at ELSE 0

(* POST at the server, which arrived when its clock read t. *)
Receive(rows, t) ==
    /\ remote' = UpsertAll(remote, rows, t)
    /\ undone' = [id \in Ids |-> Larger(undone[id], TakenBackFrom(id))]
    /\ late' = late \cup {id \in DOMAIN rows :
          StampOf(rows[id], t) <= AnsweredUpTo(Coll[id])}

(* By another device, or a push whose forwarder gave up on it. *)
OthersPost(id, rec) ==
    /\ rec.at <= RemoteClock /\ inputs < MaxInputs
    /\ inputs' = inputs + 1
    /\ \E t \in 1..RemoteClock : Receive([i \in {id} |-> rec], t)
    /\ UNCHANGED <<now, phoneVars, cursors, job, emitted, kills, fresh, skipped, lost>>

HandlePush ==
    /\ job.pc = "pushing"
    /\ \E t \in job.time..RemoteClock : Receive(job.rows, t)
    /\ job' = [job EXCEPT !.pc = "confirmed", !.time = 0]
    /\ UNCHANGED <<now, phoneVars, cursors, emitted, bounds, fresh, skipped, lost>>

LargestStamp(rows) ==
    CHOOSE t \in {StampOf(rows[id], now) : id \in DOMAIN rows} :
        \A id \in DOMAIN rows : StampOf(rows[id], now) <= t

PushConfirmed ==
    /\ job.pc = "confirmed"
    /\ job' = NextPush([job EXCEPT !.max = Larger(@, LargestStamp(job.rows))])
    /\ UNCHANGED <<now, remoteVars, phoneVars, cursors, emitted, bounds, history>>

PushRefusedCounted ==
    /\ job.pc = "pushing"
    /\ job' = NextPush([job EXCEPT !.max = Larger(@, LargestStamp(job.rows))])
    /\ UNCHANGED <<now, remoteVars, phoneVars, cursors, emitted, bounds, history>>

(* The server answered, but not with success: the next collection is tried. *)
PushRefused ==
    /\ job.pc = "pushing"
    /\ job' = NextPush([job EXCEPT !.refused = @ \cup {job.coll}])
    /\ UNCHANGED <<now, remoteVars, phoneVars, cursors, emitted, bounds, history>>

(* No answer: the exception ends the run. *)
RunFails ==
    /\ job.pc \in {"pushing", "confirmed", "pulling"}
    /\ job' = NoJob
    /\ UNCHANGED <<now, remoteVars, phoneVars, cursors, emitted, bounds, history>>

(* The cursor moves to the newest stamp that any collection pushed. *)
SetPushCursor ==
    /\ job.pc = "pushed"
    /\ ~(job.cancelled /\ AwaitsPreferences)
    /\ pushCursor' = job.max
    /\ emitted' = (emitted \/ job.max > job.start)
    /\ skipped' = skipped \cup {id \in Ids :
          /\ job.max > job.start
          /\ id \in fresh \/ Coll[id] \in job.refused}
    /\ job' = [job EXCEPT !.pc = "pull"]
    /\ UNCHANGED <<now, remoteVars, phoneVars, pullCursor, bounds, fresh, late, lost>>

Pull ==
    /\ job.pc = "pull" /\ ~job.cancelled
    /\ job' = [job EXCEPT !.pc = "pulling"]
    /\ UNCHANGED <<now, remoteVars, phoneVars, cursors, emitted, bounds, history>>

(* GET ...?since= at the server. *)
HandlePull ==
    /\ job.pc = "pulling"
    /\ LET c == job.coll
           ids == ChangedSince(remote, pullCursor[c], RemoteClock) \cap Of(c)
       IN  job' = [job EXCEPT !.pc = "pulled", !.rows = Sub(remote, ids),
                              !.time = RemoteClock]
    /\ UNCHANGED <<now, remoteVars, phoneVars, cursors, emitted, bounds, history>>

NextPullRemembers(j) ==
    IF j.coll = NColls THEN [j EXCEPT !.pc = "wait"]
    ELSE [j EXCEPT !.pc = "pull", !.coll = @ + 1]

NextPull(j) ==
    IF j.coll = NColls THEN NoJob
    ELSE [j EXCEPT !.pc = "pull", !.rows = Sub(Empty, {}), !.coll = @ + 1]

PullRefusedMoves ==
    /\ job.pc = "pulling"
    /\ pullCursor' = [pullCursor EXCEPT ![job.coll] = Larger(@, RemoteClock)]
    /\ job' = NextPull(job)
    /\ UNCHANGED <<now, remoteVars, phoneVars, pushCursor, emitted, bounds, history>>

PullRefused ==
    /\ job.pc = "pulling"
    /\ job' = NextPull(job)
    /\ UNCHANGED <<now, remoteVars, phoneVars, cursors, emitted, bounds, history>>

StorePulled ==
    /\ job.pc = "pulled"
    /\ UpsertRecords(job.rows)
    /\ lost' = lost \cup WentBack
    /\ job' = [job EXCEPT !.pc = "stored"]
    /\ UNCHANGED <<now, remoteVars, cursors, emitted, bounds, fresh, skipped, late>>

(* The server's clock has moved on since the last pull, though `now` may   *)
(* not show it: then the preferences change.                               *)
SetPullCursor ==
    /\ job.pc = "stored" /\ ~(job.cancelled /\ AwaitsPreferences)
    /\ pullCursor' = [pullCursor EXCEPT ![job.coll] = Larger(@, job.time)]
    /\ emitted' \in IF job.time > pullCursor[job.coll] THEN {TRUE} ELSE {emitted, TRUE}
    /\ job' = NextPull(job)
    /\ UNCHANGED <<now, remoteVars, phoneVars, pushCursor, bounds, history>>

Records == [at : 1..MaxTime + Ahead, val : Vals]

ForwarderStep ==
    \/ StartRun \/ Push \/ PushConfirmed \/ SetPushCursor
    \/ Pull \/ StorePulled \/ SetPullCursor \/ EndCancelled

(* What happens while the server can be reached. *)
Answered ==
    \/ Tick \/ Kill \/ ChangeSettings \/ ApplySettings
    \/ \E id \in Ids, rec \in Records : StoreLocal(id, rec) \/ OthersPost(id, rec)
    \/ ForwarderStep
    \/ HandlePush \/ HandlePull

Next == Answered \/ PushRefused \/ PullRefused \/ RunFails

Spec == Init /\ [][Next]_vars

(* The coroutines run on, and a request is answered. *)
Fairness ==
    /\ WF_vars(ForwarderStep) /\ WF_vars(ApplySettings)
    /\ WF_vars(HandlePush) /\ WF_vars(HandlePull)

AnsweredSpec == Init /\ [][Answered]_vars /\ Fairness

-----------------------------------------------------------------------------

(* At least as new, by the stamps the server would store. *)
Holds(held, rec) == held # NoRec /\ held.at >= ClampStamp(rec.at, RemoteClock)

(* Or it had one, until a slow POST took the record back. *)
Reached(id, rec) ==
    Holds(remote[id], rec) \/ ClampStamp(rec.at, RemoteClock) <= undone[id]

(* The push cursor passes over a record that the server never had only     *)
(* if the record was stored with an older stamp, or after its collection   *)
(* was read, or if the server refused its collection and took another:     *)
(* one cursor serves all four collections (RemoteForwarder.kt:22-30).      *)
ForwardedOrSkipped ==
    \A id \in Ids :
        /\ mem[id] # NoRec /\ StampOf(mem[id], now) <= pushCursor
        /\ ~Reached(id, mem[id])
        => id \in skipped

(* The pull cursor passes over nothing but what reached the server late,   *)
(* what a restart of the phone lost after the cursor had moved and what    *)
(* the phone itself replaced while its clock was behind.                   *)
PulledOrLate ==
    \A id \in Ids :
        /\ remote[id] # NoRec /\ remote[id].at <= pullCursor[Coll[id]]
        /\ ~(mem[id] # NoRec /\ mem[id].at >= remote[id].at)
        => id \in late \cup lost

(* What the memory holds and the file does not is what a failed write, or  *)
(* an upsert that reported no change, left out: no other record is gone    *)
(* after a restart of the phone.                                           *)
FileInStep == \A id \in Ids \ unfiled : mem[id] = file[id]

(* A forwarder whose requests are all answered pulls every collection in   *)
(* the end ("Pull remote deltas per collection", RemoteForwarder.kt:32).   *)
EveryCollectionPulled == \A c \in Colls : <>(pullCursor[c] > 0)
=============================================================================
