----------------------------- MODULE SyncServer -----------------------------
(***************************************************************************)
(* The sync server (server/server.js): one process with an in-memory       *)
(* database, a debounced save of all of it to one file, and requests whose *)
(* handler reads the clock before it awaits the body.                      *)
(*                                                                         *)
(* The four collections have the same handlers, so the collection is part  *)
(* of a record's id.  A request in flight is the clock value its handler   *)
(* captured: nothing else is read before the body is complete.  The body   *)
(* is chosen when it is complete, from all bodies a device can send.       *)
(***************************************************************************)
EXTENDS Lww

CONSTANTS
    Ids,        \* record ids, of all collections
    Reqs,       \* requests that can be in flight at once
    Idle,       \* a request slot with no request
    NoFile,     \* the data file is absent or not JSON
    NoConfig,   \* the config of an empty server: null
    MaxTime,    \* bound of the server's clock
    MaxStamp    \* bound of the stamps devices send; above MaxTime, so that a
                \* device's clock can be ahead of the server's

ASSUME ServerAssumption ==
    /\ Idle \notin Nat
    /\ NoConfig \in Vals
    /\ MaxTime \in Nat
    /\ MaxStamp \in Nat
    /\ NoFile \notin [recs : [Ids -> Record \cup {NoRec}], config : Record]

VARIABLES
    now,        \* Date.now() of the server; never set back
    up,         \* the process runs
    bootNow,    \* the clock when it started
    db,         \* db.stops, db.production, db.sessions, db.handovers
    config,     \* db.config
    disk,       \* the data file
    saveTimer,  \* no save is scheduled, one is waiting, or its time has come
    saveFailed, \* the last save attempt of this process failed
    reqs        \* the `now` each request in flight captured, or Idle

vars == <<now, up, bootNow, db, config, disk, saveTimer, saveFailed, reqs>>

Store == [Ids -> Record \cup {NoRec}]
Image == [recs : Store, config : Record]

(* What devices can send: any stamp of theirs, any content. *)
Sent == [at : 0..MaxStamp, val : Vals]
SentStore == [Ids -> Sent \cup {NoRec}]
Batches == UNION {[S -> Sent] : S \in SUBSET Ids}

emptyCollections == [id \in Ids |-> NoRec]
emptyConfig == [at |-> 0, val |-> NoConfig]

TypeOK ==
    /\ now \in Nat
    /\ up \in BOOLEAN
    /\ bootNow \in Nat
    /\ db \in Store
    /\ config \in Record
    /\ disk \in Image \cup {NoFile}
    /\ saveTimer \in {"none", "waiting", "due"}
    /\ saveFailed \in BOOLEAN
    /\ reqs \in [Reqs -> Nat \cup {Idle}]

(* The process is down; its data file may be one an older version wrote, *)
(* with stamps ahead of the clock.                                       *)
Init ==
    /\ now = 0
    /\ up = FALSE
    /\ bootNow = 0
    /\ db = emptyCollections
    /\ config = emptyConfig
    /\ disk \in [recs : SentStore, config : Sent] \cup {NoFile}
    /\ saveTimer = "none"
    /\ saveFailed = FALSE
    /\ reqs = [q \in Reqs |-> Idle]

Tick ==
    /\ now < MaxTime
    /\ now' = now + 1
    /\ UNCHANGED <<up, bootNow, db, config, disk, saveTimer, saveFailed, reqs>>

(* Load the file, pulling stamps ahead of the clock back to it. *)
Repair(recs, t) ==
    [id \in Ids |->
        IF recs[id] = NoRec THEN NoRec ELSE NormalizeStamp(recs[id], t)]

Boot ==
    /\ ~up
    /\ up' = TRUE
    /\ bootNow' = now
    /\ IF disk = NoFile
       THEN /\ db' = emptyCollections
            /\ config' = emptyConfig
       ELSE /\ db' = Repair(disk.recs, now)
            /\ config' = NormalizeStamp(disk.config, now)
    /\ saveFailed' = FALSE
    /\ UNCHANGED <<now, disk, saveTimer, reqs>>

(* The process dies: memory, timer and connections are gone. *)
Crash ==
    /\ up
    /\ up' = FALSE
    /\ db' = emptyCollections
    /\ config' = emptyConfig
    /\ saveTimer' = "none"
    /\ saveFailed' = FALSE
    /\ reqs' = [q \in Reqs |-> Idle]
    /\ UNCHANGED <<now, bootNow, disk>>

(* Debounced: a timer already running is kept. *)
PersistPushedBack == saveTimer' = "waiting"
Persist == saveTimer' = IF saveTimer = "none" THEN "waiting" ELSE saveTimer

(* The 150 ms are over. *)
Elapse ==
    /\ saveTimer = "waiting"
    /\ saveTimer' = "due"
    /\ UNCHANGED <<now, up, bootNow, db, config, disk, saveFailed, reqs>>

(* A request passed the rate limit and the token check; the handler has    *)
(* captured the clock and awaits the body.                                 *)
Arrive(q) ==
    /\ up
    /\ reqs[q] = Idle
    /\ reqs' = [reqs EXCEPT ![q] = now]
    /\ UNCHANGED <<now, up, bootNow, db, config, disk, saveTimer, saveFailed>>

(* The body is too large, not JSON or the client went away: 400. *)
Abort(q) ==
    /\ reqs[q] # Idle
    /\ reqs' = [reqs EXCEPT ![q] = Idle]
    /\ UNCHANGED <<now, up, bootNow, db, config, disk, saveTimer, saveFailed>>

(* POST /stops, /production, /sessions, /handovers. *)
PostRecordsUnsaved(q, batch) ==
    /\ reqs[q] # Idle
    /\ db' = UpsertAll(db, batch, reqs[q])
    /\ reqs' = [reqs EXCEPT ![q] = Idle]
    /\ UNCHANGED <<now, up, bootNow, config, disk, saveTimer, saveFailed>>

PostRecords(q, batch) ==
    /\ reqs[q] # Idle
    /\ db' = UpsertAll(db, batch, reqs[q])
    /\ Persist
    /\ reqs' = [reqs EXCEPT ![q] = Idle]
    /\ UNCHANGED <<now, up, bootNow, config, disk, saveFailed>>

(* PUT /config: saved only when it was applied. *)
PutConfig(q, body) ==
    /\ reqs[q] # Idle
    /\ config' = Upsert(config, body, reqs[q])
    /\ IF Accepts(config, body, reqs[q]) THEN Persist ELSE UNCHANGED saveTimer
    /\ reqs' = [reqs EXCEPT ![q] = Idle]
    /\ UNCHANGED <<now, up, bootNow, db, disk, saveFailed>>

(* The timer fires: the whole database to a temporary file, then renamed.  *)
Save ==
    /\ saveTimer = "due"
    /\ saveTimer' = "none"
    /\ disk' = [recs |-> db, config |-> config]
    /\ saveFailed' = FALSE
    /\ UNCHANGED <<now, up, bootNow, db, config, reqs>>

(* Writing or renaming fails: it is logged, and not tried again. *)
SaveFails ==
    /\ saveTimer = "due"
    /\ saveTimer' = "none"
    /\ saveFailed' = TRUE
    /\ UNCHANGED <<now, up, bootNow, db, config, disk, reqs>>

Next ==
    \/ Tick
    \/ Boot
    \/ Crash
    \/ \E q \in Reqs : Arrive(q)
    \/ \E q \in Reqs : Abort(q)
    \/ \E q \in Reqs : \E batch \in Batches : PostRecords(q, batch)
    \/ \E q \in Reqs : \E body \in Sent : PutConfig(q, body)
    \/ Elapse
    \/ Save
    \/ SaveFails

(* Node lets a timer run out, and runs a due one, while the process lives; *)
(* nothing else is owed.                                                   *)
Fairness == WF_vars(Elapse) /\ WF_vars(Save \/ SaveFails)

Spec == Init /\ [][Next]_vars /\ Fairness

-----------------------------------------------------------------------------

(* No stored record and no stored config is stamped ahead of the server's  *)
(* clock, whatever the device sent and whatever the data file held: a      *)
(* device whose clock is wrong cannot outrank later writes for ever        *)
(* (clampStamp, normalizeStamp and the repair of the data file).           *)
NoFutureStamp ==
    /\ \A id \in Ids : db[id] # NoRec => db[id].at <= now
    /\ config.at <= now

(* A record or config never vanishes while the process lives, and its      *)
(* stamp goes back only to the clock value captured by a handler that      *)
(* then waited for its body: what a slow upload can undo is bounded by     *)
(* how long it took (the `now` of the request handler).                    *)
AnsweredAt(t) == \E q \in Reqs : reqs[q] = t /\ reqs'[q] = Idle

RegressOnlyToArrival ==
    [][up /\ up' =>
        /\ \A id \in Ids : db[id] # NoRec =>
              /\ db'[id] # NoRec
              /\ db'[id].at >= db[id].at \/ AnsweredAt(db'[id].at)
        /\ config'.at >= config.at \/ AnsweredAt(config'.at)]_vars

(* An edit stamped by a clock that is not behind the server's is never     *)
(* refused, by a request just arrived or by one whose body took long: no   *)
(* stored stamp, however far ahead the clock it came from, shuts out       *)
(* honest edits of a record or of the config.                              *)
HonestEditWins ==
    \A q \in Reqs : reqs[q] # Idle =>
        \A val \in Vals, stamp \in now..MaxStamp :
            LET edit == [at |-> stamp, val |-> val] IN
            /\ \A id \in Ids : Upsert(db[id], edit, reqs[q]).val = val
            /\ Upsert(config, edit, reqs[q]).val = val

(* Memory and data file agree, up to the repair made when the file was     *)
(* read: what a restart would load is what the process serves.             *)
Loaded(stored, served) ==
    served = stored \/ (stored # NoRec /\ served = NormalizeStamp(stored, bootNow))

Synced ==
    IF disk = NoFile
    THEN db = emptyCollections /\ config = emptyConfig
    ELSE /\ \A id \in Ids : Loaded(disk.recs[id], db[id])
         /\ Loaded(disk.config, config)

(* A write that was answered and is not in the data file has a save        *)
(* scheduled, unless the last save failed: no path through the handlers    *)
(* changes the database and forgets persist().                             *)
UnsavedIsScheduled == up => saveTimer # "none" \/ saveFailed \/ Synced

(* The inductive invariant behind the safety properties: with them, no    *)
(* clock value the process remembers is ahead of its clock.                *)
ClocksInOrder ==
    /\ bootNow <= now
    /\ \A q \in Reqs : reqs[q] # Idle => reqs[q] <= now

Inv == TypeOK /\ NoFutureStamp /\ ClocksInOrder /\ UnsavedIsScheduled

(* However many writes keep coming, the data file catches up with memory   *)
(* again and again, as long as the process lives and saves do not fail:    *)
(* the debounce keeps a running timer instead of pushing it back.          *)
SavesKeepUp == []<>(~up \/ saveFailed \/ Synced)
=============================================================================
