------------------------------ MODULE WebSync ------------------------------
(***************************************************************************)
(* Web devices (StopTrack.tsx: api and useSync) synchronising records      *)
(* through the server.                                                     *)
(*                                                                         *)
(* A step is what one device does without awaiting the network: localStorage*)
(* answers at once, so only a request to the server lets something else    *)
(* happen in between.  A request is handled, or lost, or handled after the  *)
(* device gave up on it.  The server reads its clock when a request arrives *)
(* (server.js:305) and changes its records when the body is in, an await   *)
(* later (:358): a push is handled at any clock it read since it was sent.  *)
(* The server's saves and crashes are in SyncServer.                       *)
(*                                                                         *)
(* The content of a record is who wrote it and when in real time, which no *)
(* device knows if its clock is off.                                       *)
(***************************************************************************)
EXTENDS Integers, FiniteSets

CONSTANTS
    Devices,
    Ids,         \* record ids
    NoRec,
    Owner,       \* Owner[id]: the device that creates the record
    Coll,        \* Coll[id] \in 1..NColls: the collection it belongs to
    NColls,      \* stops, production, sessions, handovers, in push order
    ByHand,      \* devices used before sync is set up on them, and where it
                 \* is turned on and off; elsewhere it is on
    Skew,        \* Skew[d]: how far the device's clock is ahead
    MaxTime,     \* bound of real time, which is the server's clock
    MaxStray,    \* bound of the pushes given up on and still under way
    MaxKills     \* bound of the reloads, the kills and the times sync is
                 \* turned off

ASSUME SyncAssumption ==
    /\ Owner \in [Ids -> Devices]
    /\ NColls \in Nat \ {0}
    /\ Coll \in [Ids -> 1..NColls]
    /\ Skew \in [Devices -> Nat]
    /\ MaxTime \in Nat \ {0}
    /\ ByHand \subseteq Devices
    /\ MaxStray \in Nat
    /\ MaxKills \in Nat

Writes == [by : Devices, when : Nat]

INSTANCE Lww WITH Vals <- Writes

ASSUME NoRecIsNoRecord == NoRec \notin Record

VARIABLES
    now,      \* real time
    db,       \* the server's records
    undone,   \* undone[id]: the newest stamp a slow push has taken the record
              \* back from (history)
    late,     \* late[d]: ids whose record reached the server too late for the
              \* cursor of device d (history)
    on,       \* on[d]: sync is configured and enabled (syncEnabled)
    store,    \* store[d]: localStorage, by record id
    outbox,   \* outbox[d]: ids to push
    skipped,  \* skipped[d]: ids stored without a key in the outbox, or whose
              \* key was taken out for an older copy (history, of ByHand)
    cursor,   \* cursor[d][c]: where the next pull of collection c starts
    queued,   \* queued[d]: React state with the updates not rendered yet
    shown,    \* shown[d]: the rendered state, which stopsRef & co. hold
    sync,     \* sync[d]: where the flush of device d is
    stray,    \* pushes whose device gave up, that may still be handled, with
              \* when they were sent
    kills     \* reloads and kills so far

vars ==
    <<now, db, undone, late, on, store, outbox, skipped, cursor, queued, shown,
      sync, stray, kills>>
dbVars == <<db, undone, late>>
serverVars == <<dbVars, stray>>
outVars == <<outbox, skipped>>
deviceVars == <<on, store, outVars, cursor, queued, shown, sync>>

Colls == 1..NColls
Store == [Ids -> Record \cup {NoRec}]
Rows == UNION {[S -> Record] : S \in SUBSET Ids}
NoRows == [id \in {} |-> NoRec]
Phases == {"idle", "push", "pushed", "pull", "pulled"}

(* rows: what is being pushed, or what the pull returned; time: when the    *)
(* push of the collection was sent, or the serverTime of the pull's reply.  *)
Flush == [pc : Phases, coll : Colls, rows : Rows, time : Nat]
IdleFlush == [pc |-> "idle", coll |-> 1, rows |-> NoRows, time |-> 0]

Clock(d) == now + Skew[d]
Sub(f, S) == [id \in S |-> f[id]]
InColl(rows, c) == Sub(rows, {id \in DOMAIN rows : Coll[id] = c})
Empty == [id \in Ids |-> NoRec]

TypeOK ==
    /\ now \in 0..MaxTime
    /\ db \in Store
    /\ undone \in [Ids -> 0..MaxTime]
    /\ late \in [Devices -> SUBSET Ids]
    /\ store \in [Devices -> Store]
    /\ on \in [Devices -> BOOLEAN]
    /\ outbox \in [Devices -> SUBSET Ids]
    /\ skipped \in [Devices -> SUBSET Ids]
    /\ cursor \in [Devices -> [Colls -> Nat]]
    /\ queued \in [Devices -> Store]
    /\ shown \in [Devices -> Store]
    /\ \A d \in Devices :
          /\ sync[d].pc \in Phases /\ sync[d].coll \in Colls
          /\ sync[d].time \in Nat /\ DOMAIN sync[d].rows \subseteq Ids
          /\ \A id \in DOMAIN sync[d].rows : sync[d].rows[id] \in Record
    /\ Cardinality(stray) <= MaxStray
    /\ kills \in 0..MaxKills

(* No clock ever reads 0, the cursor of a device that has not pulled yet.  *)
Init ==
    /\ now = 1
    /\ db = Empty
    /\ undone = [id \in Ids |-> 0]
    /\ late = [d \in Devices |-> {}]
    /\ store = [d \in Devices |-> Empty]
    /\ on = [d \in Devices |-> d \notin ByHand]
    /\ outbox = [d \in Devices |-> {}]
    /\ skipped = [d \in Devices |-> {}]
    /\ cursor = [d \in Devices |-> [c \in Colls |-> 0]]
    /\ queued = [d \in Devices |-> Empty]
    /\ shown = [d \in Devices |-> Empty]
    /\ sync = [d \in Devices |-> IdleFlush]
    /\ stray = {}
    /\ kills = 0

Tick ==
    /\ now < MaxTime
    /\ now' = now + 1
    /\ UNCHANGED <<kills, serverVars, deviceVars>>

-----------------------------------------------------------------------------
(* The user of a device. *)

New(d) == [at |-> Clock(d), val |-> [by |-> d, when |-> now]]

CanWrite(d, id) ==
    \/ Owner[id] = d /\ store[d][id] = NoRec
    \/ shown[d][id] # NoRec

Skip(d, ids, kept) ==
    skipped' = IF d \in ByHand THEN [skipped EXCEPT ![d] = (@ \ kept) \cup ids]
               ELSE skipped

(* _enqueue: a no-op until sync is enabled. *)
Enqueue(d, id) ==
    /\ outbox' = [outbox EXCEPT ![d] = IF on[d] THEN @ \cup {id} ELSE @]
    /\ IF on[d] THEN Skip(d, {}, {id}) ELSE Skip(d, {id}, {})

(* saveStop, updateStop, deleteStop, saveProduction...: the record, its    *)
(* key in the outbox, the React state.                                     *)
Write(d, id) ==
    /\ CanWrite(d, id)
    /\ store' = [store EXCEPT ![d][id] = New(d)]
    /\ Enqueue(d, id)
    /\ queued' = [queued EXCEPT ![d][id] = New(d)]
    /\ UNCHANGED <<now, kills, on, serverVars, cursor, shown, sync>>

(* switchMachine closes one session and opens another without awaiting:    *)
(* both _enqueue calls read the outbox before either writes it, and the    *)
(* second write leaves out the key of the first.                           *)
SwitchMachine(d, closed, opened) ==
    /\ closed # opened /\ Coll[closed] = Coll[opened]
    /\ shown[d][closed] # NoRec
    /\ Owner[closed] = d /\ Owner[opened] = d /\ store[d][opened] = NoRec
    /\ store' = [store EXCEPT ![d][closed] = New(d), ![d][opened] = New(d)]
    /\ outbox' = [outbox EXCEPT ![d] = IF on[d] THEN @ \cup {opened} ELSE @]
    /\ IF on[d] THEN Skip(d, {closed}, {opened}) ELSE Skip(d, {opened, closed}, {})
    /\ queued' = [queued EXCEPT ![d][closed] = New(d), ![d][opened] = New(d)]
    /\ UNCHANGED <<now, kills, on, serverVars, cursor, shown, sync>>

(* updateSyncConfig: while nothing was ever pulled, enabling queues all    *)
(* there is.                                                               *)
NotSeeded(d) ==
    /\ ~on[d]
    /\ on' = [on EXCEPT ![d] = TRUE]
    /\ IF cursor[d][1] = 0 THEN Skip(d, {}, Ids) ELSE UNCHANGED skipped
    /\ UNCHANGED <<now, kills, serverVars, store, outbox, cursor, queued, shown, sync>>

EnableSync(d) ==
    /\ ~on[d]
    /\ on' = [on EXCEPT ![d] = TRUE]
    /\ IF cursor[d][1] = 0
       THEN /\ outbox' = [outbox EXCEPT ![d] = {id \in Ids : store[d][id] # NoRec}]
            /\ Skip(d, {}, Ids)
       ELSE UNCHANGED outVars
    /\ UNCHANGED <<now, kills, serverVars, store, cursor, queued, shown, sync>>

(* A flush under way goes on. *)
DisableSync(d) ==
    /\ d \in ByHand /\ on[d] /\ kills < MaxKills
    /\ on' = [on EXCEPT ![d] = FALSE]
    /\ kills' = kills + 1
    /\ UNCHANGED <<now, serverVars, store, outVars, cursor, queued, shown, sync>>

Render(d) ==
    /\ shown[d] # queued[d]
    /\ shown' = [shown EXCEPT ![d] = queued[d]]
    /\ UNCHANGED <<now, kills, on, serverVars, store, outVars, cursor, queued, sync>>

PushOf(d) == [rows |-> InColl(sync[d].rows, sync[d].coll), sent |-> sync[d].time]

(* A push the device gives up on may be on its way to the server. *)
Abandon(d) ==
    IF sync[d].pc = "push" THEN stray' \in {stray, stray \cup {PushOf(d)}}
                           ELSE UNCHANGED stray

(* The page is reloaded, or killed and opened again. *)
Restart(d, stored) ==
    /\ kills < MaxKills
    /\ kills' = kills + 1
    /\ queued' = [queued EXCEPT ![d] = stored]
    /\ shown' = [shown EXCEPT ![d] = stored]
    /\ sync' = [sync EXCEPT ![d] = IdleFlush]
    /\ Abandon(d)
    /\ Cardinality(stray') <= MaxStray

Reload(d) ==
    /\ Restart(d, store[d])
    /\ UNCHANGED <<now, dbVars, on, store, outVars, cursor>>

(* It is killed between storing a record and queueing its key. *)
DieWhileSaving(d, id) ==
    /\ CanWrite(d, id)
    /\ store' = [store EXCEPT ![d][id] = New(d)]
    /\ Restart(d, store'[d])
    /\ Skip(d, {id}, {})
    /\ UNCHANGED <<now, dbVars, on, outbox, cursor>>

-----------------------------------------------------------------------------
(* flush(): push the outbox, then pull each collection. *)

Pulling(c) == [pc |-> "pull", coll |-> c, rows |-> NoRows, time |-> 0]
AfterPullOneTooMany(c) == IF c > NColls THEN IdleFlush ELSE Pulling(c + 1)
AfterPull(c) == IF c = NColls THEN IdleFlush ELSE Pulling(c + 1)

(* Push the first collection from c on that has rows; when none is left,   *)
(* empty the outbox, whatever it holds by now, and pull.                   *)
Unpushed(rows, c) == {Coll[id] : id \in DOMAIN rows} \cap c..NColls
First(C) == CHOOSE c \in C : \A e \in C : c <= e

NeverCleared(d, rows, c) ==
    /\ UNCHANGED outVars
    /\ sync' = [sync EXCEPT ![d] =
          IF Unpushed(rows, c) # {}
          THEN [pc |-> "push", coll |-> First(Unpushed(rows, c)),
                rows |-> rows, time |-> now]
          ELSE Pulling(1)]

PushFrom(d, rows, c) ==
    IF Unpushed(rows, c) # {}
    THEN /\ sync' = [sync EXCEPT ![d] =
              [pc |-> "push", coll |-> First(Unpushed(rows, c)),
               rows |-> rows, time |-> now]]
         /\ UNCHANGED outVars
    ELSE /\ sync' = [sync EXCEPT ![d] = Pulling(1)]
         /\ outbox' = [outbox EXCEPT ![d] = {}]
         /\ Skip(d, {id \in outbox[d] :
                        id \notin DOMAIN rows \/ rows[id] # store[d][id]}, {})

StartFlush(d) ==
    /\ on[d] /\ sync[d].pc = "idle"
    /\ PushFrom(d, Sub(store[d], outbox[d]), 1)
    /\ UNCHANGED <<now, kills, on, serverVars, store, cursor, queued, shown>>

(* The serverTime of the last pull of a collection that was answered. *)
AnsweredUpTo(d, c) ==
    IF sync[d].pc = "pulled" /\ sync[d].coll = c THEN sync[d].time
                                                ELSE cursor[d][c]

Taken(rows, t) == {id \in DOMAIN rows : Accepts(db[id], rows[id], t)}

(* The stamp a record is taken back from, and 0 when it is not. *)
TakenBackFrom(id) ==
    IF db[id] # NoRec /\ db'[id].at < db[id].at THEN db[id].at ELSE 0

(* POST of one collection at the server, which arrived when its clock read  *)
(* t.                                                                      *)
Receive(rows, t) ==
    /\ db' = UpsertAll(db, rows, t)
    /\ undone' = [id \in Ids |-> LET from == TakenBackFrom(id)
                                 IN  IF from > undone[id] THEN from ELSE undone[id]]
    /\ late' = [d \in Devices |->
          (late[d] \ Taken(rows, t)) \cup {id \in Taken(rows, t) :
              StampOf(rows[id], t) <= AnsweredUpTo(d, Coll[id])}]

(* The clock the server read when the request arrived is one since it was   *)
(* sent.                                                                   *)
Handle(push) == \E t \in push.sent..now : Receive(push.rows, t)

HandlePush(d) ==
    /\ sync[d].pc = "push"
    /\ Handle(PushOf(d))
    /\ sync' = [sync EXCEPT ![d].pc = "pushed", ![d].time = 0]
    /\ UNCHANGED <<now, kills, on, store, outVars, cursor, queued, shown, stray>>

PushAnswered(d) ==
    /\ sync[d].pc = "pushed"
    /\ PushFrom(d, sync[d].rows, sync[d].coll + 1)
    /\ UNCHANGED <<now, kills, on, serverVars, store, cursor, queued, shown>>

(* The request or its answer is lost, or took longer than the timeout.     *)
(* The flush ends, with the outbox as it is.                               *)
ClearOnFailure(d) ==
    /\ sync[d].pc \in {"push", "pushed"}
    /\ sync' = [sync EXCEPT ![d] = IdleFlush]
    /\ outbox' = [outbox EXCEPT ![d] = {}]
    /\ Abandon(d)
    /\ Cardinality(stray') <= MaxStray
    /\ UNCHANGED <<now, kills, on, dbVars, store, skipped, cursor, queued, shown>>

PushFails(d) ==
    /\ sync[d].pc \in {"push", "pushed"}
    /\ sync' = [sync EXCEPT ![d] = IdleFlush]
    /\ Abandon(d)
    /\ Cardinality(stray') <= MaxStray
    /\ UNCHANGED <<now, kills, on, dbVars, store, outVars, cursor, queued, shown>>

HandleStray(push) ==
    /\ Handle(push)
    /\ stray' = stray \ {push}
    /\ UNCHANGED <<now, kills, deviceVars>>

LoseStray(push) ==
    /\ stray' = stray \ {push}
    /\ UNCHANGED <<now, kills, dbVars, deviceVars>>

(* GET ...?since= of one collection at the server. *)
HandlePull(d) ==
    /\ sync[d].pc = "pull"
    /\ LET c == sync[d].coll
           ids == {id \in ChangedSince(db, cursor[d][c], now) : Coll[id] = c}
       IN  sync' = [sync EXCEPT ![d].pc = "pulled",
                                ![d].rows = Sub(db, ids),
                                ![d].time = now]
    /\ UNCHANGED <<now, kills, on, serverVars, store, outVars, cursor, queued, shown>>

(* applyRemoteStops & co.: what is newer than the rendered copy is stored  *)
(* and replaces the React state; then the cursor moves.                    *)
Newer(d, rows) ==
    {id \in DOMAIN rows :
        \/ shown[d][id] = NoRec
        \/ StampOf(rows[id], Clock(d)) > StampOf(shown[d][id], Clock(d))}

Overlay(f, rows, S) == [id \in Ids |-> IF id \in S THEN rows[id] ELSE f[id]]

CursorIsOwnClock(d) ==
    /\ sync[d].pc = "pulled"
    /\ LET rows == sync[d].rows
           newer == Newer(d, rows)
       IN  /\ store' = [store EXCEPT ![d] = Overlay(@, rows, newer)]
           /\ queued' = [queued EXCEPT ![d] =
                IF newer = {} THEN @ ELSE Overlay(shown[d], rows, newer)]
    /\ cursor' = [cursor EXCEPT ![d][sync[d].coll] = Clock(d)]
    /\ sync' = [sync EXCEPT ![d] = AfterPull(sync[d].coll)]
    /\ UNCHANGED <<now, kills, on, serverVars, outVars, shown>>

PullAnswered(d) ==
    /\ sync[d].pc = "pulled"
    /\ LET rows == sync[d].rows
           newer == Newer(d, rows)
       IN  /\ store' = [store EXCEPT ![d] = Overlay(@, rows, newer)]
           /\ queued' = [queued EXCEPT ![d] =
                IF newer = {} THEN @ ELSE Overlay(shown[d], rows, newer)]
    /\ cursor' = [cursor EXCEPT ![d][sync[d].coll] = sync[d].time]
    /\ sync' = [sync EXCEPT ![d] = AfterPull(sync[d].coll)]
    /\ UNCHANGED <<now, kills, on, serverVars, outVars, shown>>

(* This collection is skipped until the next flush; the others are pulled. *)
PullFails(d) ==
    /\ sync[d].pc \in {"pull", "pulled"}
    /\ sync' = [sync EXCEPT ![d] = AfterPull(sync[d].coll)]
    /\ UNCHANGED <<now, kills, on, serverVars, store, outVars, cursor, queued, shown>>

FlushStep(d) ==
    \/ StartFlush(d)
    \/ HandlePush(d) \/ PushAnswered(d)
    \/ HandlePull(d) \/ PullAnswered(d)

Next ==
    \/ Tick
    \/ \E d \in Devices, id \in Ids : Write(d, id) \/ DieWhileSaving(d, id)
    \/ \E d \in Devices, closed, opened \in Ids : SwitchMachine(d, closed, opened)
    \/ \E d \in Devices : Render(d) \/ Reload(d) \/ EnableSync(d) \/ DisableSync(d)
    \/ \E d \in Devices : FlushStep(d) \/ PushFails(d) \/ PullFails(d)
    \/ \E push \in stray : HandleStray(push) \/ LoseStray(push)

(* A flush runs every 25 s while the page is open.  A pull is answered or   *)
(* fails, in its timeout at the latest.  The network delivers and answers  *)
(* the pushes of each collection now and then, not always.                 *)
For(d, c) == sync[d].coll = c

Fairness ==
    \A d \in Devices :
        /\ WF_vars(StartFlush(d))
        /\ WF_vars(HandlePull(d) \/ PullAnswered(d) \/ PullFails(d))
        /\ \A c \in Colls :
              /\ SF_vars(For(d, c) /\ HandlePush(d))
              /\ SF_vars(For(d, c) /\ PushAnswered(d))

Spec == Init /\ [][Next]_vars /\ Fairness

-----------------------------------------------------------------------------

(* What the server holds is no older than the write of rec, in real time,   *)
(* however far ahead the clock was that stamped it.                        *)
Holds(held, rec) == held # NoRec /\ held.at >= rec.val.when

(* It does, unless a slow push has taken the record back from a stamp no   *)
(* older than that write.                                                  *)
Reached(id, rec) == Holds(db[id], rec) \/ rec.val.when <= undone[id]

PushesUnderWay == stray \cup {PushOf(d) : d \in {e \in Devices : sync[e].pc = "push"}}

(* Pushes that are repeated, slow, or handled after their device gave up on *)
(* them (flush's retry of a failed push, fetchJSON's timeout, the await of  *)
(* the body at server.js:358) take a record back to an older stamp in one   *)
(* way only: to a moment since the push was sent, when the pushed record is *)
(* stamped no earlier than that moment.  A record stamped before it was    *)
(* sent undoes nothing.                                                    *)
SlowPushUndoesOnlyLater ==
    [][\A id \in Ids : db[id] # NoRec =>
          /\ db'[id] # NoRec
          /\ db'[id].at < db[id].at =>
                \E push \in PushesUnderWay :
                    /\ id \in DOMAIN push.rows
                    /\ db'[id].val = push.rows[id].val
                    /\ push.sent <= db'[id].at
                    /\ db'[id].at <= push.rows[id].at]_vars

(* A key that was in the outbox when a push began leaves it only when the  *)
(* server has had that record, or a newer one; a push that fails half way  *)
(* through the collections, or is cut short by a reload, takes nothing out *)
(* of the outbox (flush: setOutbox([]) after the last push).  Had, for a    *)
(* slow push may have taken the record back since.                         *)
PushedBeforeForgotten ==
    [][\A d \in Devices : \A id \in outbox[d] \ outbox'[d] :
          id \in DOMAIN sync[d].rows => Reached(id, sync[d].rows[id])]_vars

(* A record on a device that syncs reaches the server or has its key in the *)
(* outbox, through every failed push, reload and turning off and on, except *)
(* in four ways: it was stored while sync was off and something had been    *)
(* pulled before, its page died before its key was queued, a switch of     *)
(* machines queued another key over its own, or a push of the copy before  *)
(* it emptied the outbox (_enqueue, seedOutboxWithAll, updateSyncConfig).  *)
UploadedOrSkipped ==
    \A d \in ByHand, id \in Ids :
        on[d] /\ store[d][id] # NoRec =>
            \/ Reached(id, store[d][id])
            \/ id \in outbox[d] \cup skipped[d]

(* The only records a pull passes over for good are those that reach the   *)
(* server with a stamp its last answer already covered: any other record   *)
(* the cursor excludes is on the device, or a newer one is, through every  *)
(* failed pull, reload and stale rendering.                                *)
PullMissesOnlyLateArrivals ==
    \A d \in Devices, id \in Ids :
        /\ db[id] # NoRec
        /\ db[id].at <= cursor[d][Coll[id]]
        /\ ~(store[d][id] # NoRec /\ store[d][id].at >= db[id].at)
        => id \in late[d]

(* Every outbox is emptied again and again while sync is on and the network *)
(* recovers now and then: no order of failures, reloads, writes and turning *)
(* off jams the flush (runningRef is released on every path).              *)
OutboxDrains == \A d \in Devices : []<>(outbox[d] = {} \/ ~on[d])

(* StopTrack.tsx:1516 "clear only after every push confirmed": a key       *)
(* leaves the outbox only when the server holds what the device stored.    *)
ClearedOnlyIfConfirmed ==
    [][\A d \in Devices : \A id \in outbox[d] \ outbox'[d] :
          Reached(id, store[d][id])]_vars
=============================================================================
