--------------------------- MODULE WebSyncProofs ---------------------------
(***************************************************************************)
(* What the flush and the pulls of WebSync keep true for any devices,      *)
(* records and collections, however far ahead the devices' clocks are and  *)
(* however many pushes are still under way.                                *)
(***************************************************************************)
EXTENDS WebSync, FiniteSetTheorems, WellFoundedInduction, TLAPS

Pushes == [rows : Rows, sent : Nat]

(* TypeOK, with the types of what is on its way.                           *)
Typed ==
    /\ TypeOK
    /\ sync \in [Devices -> Flush]
    /\ stray \subseteq Pushes /\ IsFiniteSet(stray)

(* A stamp is no earlier than the write in real time.                      *)
Dated(r) == r.val.when <= now /\ r.val.when <= r.at

NoNewer(r, s) == r # NoRec => s # NoRec /\ r.at <= s.at

\* Rows that were all written by t, a time that has come.
WrittenBy(rows, t) ==
    t <= now /\ \A id \in DOMAIN rows : Dated(rows[id]) /\ rows[id].val.when <= t

RecordsAreDated ==
    /\ \A id \in Ids : db[id] # NoRec => Dated(db[id]) /\ db[id].at <= now
    /\ \A id \in Ids : undone[id] <= now
    /\ \A d \in Devices, id \in Ids :
          store[d][id] # NoRec => Dated(store[d][id]) /\ store[d][id].at <= Clock(d)
    /\ \A d \in Devices : \A id \in DOMAIN sync[d].rows : Dated(sync[d].rows[id])
    /\ \A d \in Devices : sync[d].pc = "push" => WrittenBy(sync[d].rows, sync[d].time)
    /\ \A push \in stray : WrittenBy(push.rows, push.sent)

(* The server has had a stamp as new as s for the record.                  *)
Known(id, s) == s <= undone[id] \/ (db[id] # NoRec /\ s <= db[id].at)

(* What is rendered, or about to be, is no newer than what is stored, and  *)
(* what is queued for the server is stored.                                *)
StoreIsAhead ==
    \A d \in Devices, id \in Ids :
        /\ NoNewer(shown[d][id], store[d][id])
        /\ NoNewer(queued[d][id], store[d][id])
        /\ id \in outbox[d] => store[d][id] # NoRec

(* The server has had the collections that a push is done with.            *)
PushedSoFar(d) ==
    {id \in DOMAIN sync[d].rows :
        \/ sync[d].pc = "push" /\ Coll[id] < sync[d].coll
        \/ sync[d].pc = "pushed" /\ Coll[id] <= sync[d].coll}

PushedIsHeld ==
    \A d \in Devices : \A id \in PushedSoFar(d) : Reached(id, sync[d].rows[id])

(* The answer to a pull: rows that are new to the cursor, and all that the *)
(* server had by then but for what arrived late.                           *)
PulledFromServer(d) ==
    LET c == sync[d].coll
        rows == sync[d].rows
    IN  /\ cursor[d][c] <= sync[d].time /\ sync[d].time <= now
        /\ \A id \in DOMAIN rows :
              /\ Coll[id] = c /\ cursor[d][c] < rows[id].at
              /\ Known(id, rows[id].at)
        /\ \A id \in Ids :
              Coll[id] = c /\ db[id] # NoRec /\ db[id].at <= sync[d].time =>
                  \/ id \in late[d]
                  \/ db[id].at <= cursor[d][c]
                  \/ id \in DOMAIN rows /\ rows[id].at = db[id].at

PullsAreFromServer ==
    /\ \A d \in Devices, c \in Colls : cursor[d][c] <= now
    /\ \A d \in Devices : sync[d].pc = "pulled" => PulledFromServer(d)

(* UploadedOrSkipped, while sync is off as well.                           *)
AlwaysUploadedOrSkipped ==
    \A d \in ByHand, id \in Ids :
        store[d][id] # NoRec =>
            Reached(id, store[d][id]) \/ id \in outbox[d] \cup skipped[d]

Inv ==
    /\ Typed
    /\ RecordsAreDated
    /\ StoreIsAhead
    /\ PushedIsHeld
    /\ PullsAreFromServer
    /\ AlwaysUploadedOrSkipped
    /\ PullMissesOnlyLateArrivals

-----------------------------------------------------------------------------
(* The last-write-wins rule and the rows of a request. *)

(* A record carries natural numbers and a device.                          *)
LEMMA RecordFacts ==
    ASSUME NEW r \in Record
    PROVE  /\ r.at \in Nat /\ r.val \in Writes /\ r.val.when \in Nat
           /\ r # NoRec
  BY NoRecIsNoRecord DEF Record, Writes

(* A clamped stamp is no later than the stamp and than the clock.          *)
LEMMA ClampFacts ==
    ASSUME NEW s \in Nat, NEW t \in Nat
    PROVE  /\ ClampStamp(s, t) \in Nat
           /\ ClampStamp(s, t) <= t
           /\ ClampStamp(s, t) <= s
           /\ s <= t => ClampStamp(s, t) = s
  BY DEF ClampStamp

(* What an upsert stores is no older than the incoming write, nor than what *)
(* was there, unless the incoming record is stamped no earlier than the     *)
(* clock it is compared by: then it is stored at that clock.                *)
LEMMA UpsertFacts ==
    ASSUME NEW cur \in Record \cup {NoRec}, NEW inc \in Record, NEW t \in Nat,
           cur # NoRec => cur.val.when <= cur.at,
           inc.val.when <= t, inc.val.when <= inc.at
    PROVE  LET new == Upsert(cur, inc, t) IN
           /\ new \in Record
           /\ new.val.when <= new.at /\ new.at >= inc.val.when
           /\ new.at <= t \/ new = cur
           /\ cur # NoRec => \/ new.at >= cur.at
                            \/ (new.val = inc.val /\ new.at = t /\ t <= inc.at)
           /\ IF Accepts(cur, inc, t) THEN new.at = StampOf(inc, t) ELSE new = cur
<1>1. PICK pinned : pinned = NormalizeStamp(inc, t)
  OBVIOUS
<1>2. /\ inc.at \in Nat /\ inc.val \in Writes /\ inc.val.when \in Nat
      /\ cur # NoRec => cur \in Record /\ cur.at \in Nat /\ cur.val.when \in Nat
  BY RecordFacts
<1>3. pinned \in Record /\ pinned.at = ClampStamp(inc.at, t) /\ pinned.val = inc.val
  BY <1>1, <1>2, ClampFacts DEF NormalizeStamp, Record
<1>4. pinned.at <= t /\ pinned.val.when <= pinned.at /\ pinned.at \in Nat
  BY <1>2, <1>3 DEF ClampStamp
<1>5. CASE Accepts(cur, inc, t)
  <2>1. Upsert(cur, inc, t) = pinned
    BY <1>1, <1>5 DEF Upsert
  <2>2. ASSUME cur # NoRec, ~(pinned.at >= cur.at)
        PROVE  pinned.at = t /\ t <= inc.at
    <3>1. ClampStamp(inc.at, t) >= ClampStamp(cur.at, t)
      BY <1>5, <2>2 DEF Accepts, StampOf, RawStampOf
    <3> QED BY <1>2, <1>3, <2>2, <3>1 DEF ClampStamp
  <2>3. pinned.at = StampOf(inc, t) /\ pinned.at >= inc.val.when
    BY <1>3, <1>4 DEF StampOf, RawStampOf
  <2> QED BY <1>3, <1>4, <1>5, <2>1, <2>2, <2>3
<1>6. CASE ~Accepts(cur, inc, t)
  <2>1. Upsert(cur, inc, t) = cur /\ cur # NoRec
    BY <1>6 DEF Upsert, Accepts
  <2>2. ClampStamp(inc.at, t) < ClampStamp(cur.at, t)
    BY <1>2, <1>6, <2>1 DEF Accepts, StampOf, RawStampOf, ClampStamp
  <2>3. inc.val.when <= cur.at /\ cur.at >= cur.at
    BY <1>2, <2>1, <2>2 DEF ClampStamp
  <2> QED BY <1>2, <1>6, <2>1, <2>3
<1> QED BY <1>5, <1>6

(* Rows are records by id, and stay so when some are taken out.            *)
LEMMA RowsFacts ==
    /\ \A rows \in Rows :
          DOMAIN rows \subseteq Ids /\ \A id \in DOMAIN rows : rows[id] \in Record
    /\ NoRows \in Rows /\ DOMAIN NoRows = {}
    /\ \A f, S : S \subseteq Ids /\ (\A id \in S : f[id] \in Record)
                    => Sub(f, S) \in Rows /\ DOMAIN Sub(f, S) = S
                       /\ \A id \in S : Sub(f, S)[id] = f[id]
  BY DEF Rows, NoRows, Sub

(* The rows of one collection are rows, as they were.                      *)
LEMMA InCollFacts ==
    ASSUME NEW rows \in Rows, NEW c
    PROVE  /\ InColl(rows, c) \in Rows
           /\ DOMAIN InColl(rows, c) = {id \in DOMAIN rows : Coll[id] = c}
           /\ \A id \in DOMAIN InColl(rows, c) : InColl(rows, c)[id] = rows[id]
  BY RowsFacts DEF InColl

(* There is a first collection left to push while any is.                  *)
LEMMA FirstFacts ==
    ASSUME NEW C \in SUBSET Nat, C # {}
    PROVE  First(C) \in C /\ \A e \in C : First(C) <= e
<1> DEFINE Less == {ss \in Nat \X Nat : ss[1] < ss[2]}
<1>1. IsWellFoundedOn(Less, Nat)
  BY NatLessThanWellFounded DEF OpToRel
<1> HIDE DEF Less
<1>2. PICK c \in C : \A e \in C : ~(<<e, c>> \in Less)
  BY <1>1, WFMin
<1>3. \A e \in C : c <= e
  <2>1. \A e \in Nat : e < c => <<e, c>> \in Less
    BY DEF Less
  <2> TAKE e \in C
  <2>2. ~(e < c)
    BY <1>2, <2>1
  <2> QED BY <2>2
<1> QED BY <1>3 DEF First

-----------------------------------------------------------------------------
(* The server. *)

(* The facts about a server's record that the steps below keep asking for. *)
LEMMA HeldFacts ==
    ASSUME Inv, NEW id \in Ids
    PROVE  /\ now \in Nat
           /\ db[id] \in Record \cup {NoRec}
           /\ db[id] # NoRec =>
                /\ db[id] \in Record
                /\ db[id].at \in Nat /\ db[id].val.when \in Nat
                /\ Dated(db[id]) /\ db[id].at <= now
<1>1. db[id] \in Record \cup {NoRec} /\ now \in Nat
  BY SyncAssumption DEF Inv, Typed, TypeOK, Store
<1> QED BY <1>1, RecordFacts DEF Inv, RecordsAreDated

(* And about a device's records. *)
LEMMA DeviceFacts ==
    ASSUME Inv, NEW d \in Devices, NEW id \in Ids
    PROVE  /\ store[d][id] \in Record \cup {NoRec}
           /\ shown[d][id] \in Record \cup {NoRec}
           /\ queued[d][id] \in Record \cup {NoRec}
           /\ Clock(d) \in Nat /\ now <= Clock(d)
           /\ store[d][id] # NoRec =>
                /\ store[d][id] \in Record
                /\ store[d][id].at \in Nat /\ store[d][id].val.when \in Nat
                /\ Dated(store[d][id]) /\ store[d][id].at <= Clock(d)
<1>1. /\ store[d][id] \in Record \cup {NoRec}
      /\ shown[d][id] \in Record \cup {NoRec}
      /\ queued[d][id] \in Record \cup {NoRec}
  BY DEF Inv, Typed, TypeOK, Store
<1>2. Clock(d) \in Nat /\ now <= Clock(d)
  BY SyncAssumption DEF Clock, Inv, Typed, TypeOK
<1> QED BY <1>1, <1>2, RecordFacts DEF Inv, RecordsAreDated

(* And about a flush under way. *)
LEMMA FlushFacts ==
    ASSUME Inv, NEW d \in Devices
    PROVE  /\ sync[d] \in Flush
           /\ sync[d].pc \in Phases /\ sync[d].coll \in Colls
           /\ sync[d].rows \in Rows /\ sync[d].time \in Nat
           /\ DOMAIN sync[d].rows \subseteq Ids
           /\ \A id \in DOMAIN sync[d].rows :
                sync[d].rows[id] \in Record /\ Dated(sync[d].rows[id])
<1>1. sync[d] \in Flush
  BY DEF Inv, Typed
<1>2. sync[d].rows \in Rows
  BY <1>1 DEF Flush
<1> QED BY <1>1, <1>2, RowsFacts DEF Flush, Inv, RecordsAreDated

(* A POST leaves every record as new as what was sent and, unless what was *)
(* sent is stamped no earlier than the POST arrived, as new as it was; it  *)
(* notes what it takes back and what came too late for a device's cursor.  *)
LEMMA ReceiveFacts ==
    ASSUME Inv, NEW rows \in Rows, NEW t \in Nat, WrittenBy(rows, t), Receive(rows, t)
    PROVE  /\ db' \in Store /\ late' \in [Devices -> SUBSET Ids]
           /\ undone' \in [Ids -> 0..MaxTime]
           /\ \A id \in Ids :
                /\ db'[id] # NoRec =>
                     /\ db'[id] \in Record /\ db'[id].at \in Nat
                     /\ Dated(db'[id]) /\ db'[id].at <= now
                /\ db[id] # NoRec =>
                     /\ db'[id] # NoRec
                     /\ \/ db'[id].at >= db[id].at
                        \/ /\ id \in DOMAIN rows /\ db'[id].val = rows[id].val
                           /\ db'[id].at = t /\ t <= rows[id].at
                     /\ db[id].at <= db'[id].at \/ db[id].at <= undone'[id]
                /\ undone[id] <= undone'[id] /\ undone'[id] <= now
                /\ id \in DOMAIN rows => Holds(db'[id], rows[id])
                /\ \/ /\ db'[id] = db[id]
                      /\ \A d \in Devices : id \in late[d] => id \in late'[d]
                   \/ \A d \in Devices :
                        db'[id].at <= AnsweredUpTo(d, Coll[id]) => id \in late'[d]
<1>1. /\ db \in Store /\ DOMAIN db = Ids /\ now \in 0..MaxTime /\ MaxTime \in Nat
      /\ late \in [Devices -> SUBSET Ids] /\ undone \in [Ids -> 0..MaxTime]
      /\ t <= now
  BY SyncAssumption DEF Inv, Typed, TypeOK, Store, WrittenBy
<1>2. /\ DOMAIN rows \subseteq Ids
      /\ \A id \in DOMAIN rows :
           rows[id] \in Record /\ Dated(rows[id]) /\ rows[id].val.when <= t
  BY RowsFacts DEF WrittenBy
<1>3. Taken(rows, t) \subseteq Ids
  BY <1>2 DEF Taken
<1>4. late' \in [Devices -> SUBSET Ids]
  BY <1>1, <1>3 DEF Receive
<1>5. /\ db' = [id \in Ids |-> db'[id]]
      /\ \A id \in Ids : db'[id] = IF id \in DOMAIN rows THEN Upsert(db[id], rows[id], t)
                                                         ELSE db[id]
  BY <1>1 DEF Receive, UpsertAll
<1>6. ASSUME NEW id \in Ids
      PROVE  /\ db'[id] \in Record \cup {NoRec}
             /\ db'[id] # NoRec =>
                  /\ db'[id] \in Record /\ db'[id].at \in Nat
                  /\ Dated(db'[id]) /\ db'[id].at <= now
             /\ db[id] # NoRec =>
                  /\ db'[id] # NoRec
                  /\ \/ db'[id].at >= db[id].at
                     \/ /\ id \in DOMAIN rows /\ db'[id].val = rows[id].val
                        /\ db'[id].at = t /\ t <= rows[id].at
             /\ id \in DOMAIN rows => Holds(db'[id], rows[id])
             /\ \/ /\ db'[id] = db[id]
                   /\ \A d \in Devices : id \in late[d] => id \in late'[d]
                \/ \A d \in Devices :
                     db'[id].at <= AnsweredUpTo(d, Coll[id]) => id \in late'[d]
  <2>1. /\ db[id] \in Record \cup {NoRec}
        /\ db[id] # NoRec => /\ db[id] \in Record
                             /\ db[id].at \in Nat /\ db[id].val.when \in Nat
                             /\ Dated(db[id]) /\ db[id].at <= now
    BY HeldFacts
  <2>2. CASE id \notin DOMAIN rows
    <3>1. db'[id] = db[id] /\ id \notin Taken(rows, t)
      BY <1>5, <2>2 DEF Taken
    <3>2. \A d \in Devices : id \in late[d] => id \in late'[d]
      BY <3>1 DEF Receive
    <3>3. db[id] # NoRec => db[id].at >= db[id].at
      BY <2>1
    <3> QED BY <2>1, <2>2, <3>1, <3>2, <3>3
  <2>3. CASE id \in DOMAIN rows
    <3>1. db'[id] = Upsert(db[id], rows[id], t)
      BY <1>5, <2>3
    <3>2. /\ rows[id] \in Record /\ rows[id].val.when <= t
          /\ rows[id].val.when <= rows[id].at
          /\ db[id] # NoRec => db[id].val.when <= db[id].at
      BY <1>2, <2>1, <2>3 DEF Dated
    <3>3. /\ db'[id] \in Record
          /\ db'[id].val.when <= db'[id].at /\ db'[id].at >= rows[id].val.when
          /\ db'[id].at <= t \/ db'[id] = db[id]
          /\ db[id] # NoRec => \/ db'[id].at >= db[id].at
                               \/ (db'[id].val = rows[id].val /\ db'[id].at = t /\ t <= rows[id].at)
          /\ IF Accepts(db[id], rows[id], t)
               THEN db'[id].at = StampOf(rows[id], t) ELSE db'[id] = db[id]
      BY <2>1, <3>1, <3>2, UpsertFacts
    <3>4. db'[id].at \in Nat /\ db'[id].val.when \in Nat /\ db'[id] # NoRec
      BY <3>3, RecordFacts
    <3>5. Dated(db'[id]) /\ db'[id].at <= now /\ Holds(db'[id], rows[id])
      BY <1>1, <2>1, <3>3, <3>4 DEF Dated, Holds
    <3>6. CASE Accepts(db[id], rows[id], t)
      <4>1. id \in Taken(rows, t)
        BY <2>3, <3>6 DEF Taken
      <4>2. \A d \in Devices :
              db'[id].at <= AnsweredUpTo(d, Coll[id]) => id \in late'[d]
        BY <3>3, <3>6, <4>1 DEF Receive
      <4> QED BY <2>3, <3>3, <3>4, <3>5, <4>2
    <3>7. CASE ~Accepts(db[id], rows[id], t)
      <4>1. id \notin Taken(rows, t)
        BY <3>7 DEF Taken
      <4>2. \A d \in Devices : id \in late[d] => id \in late'[d]
        BY <4>1 DEF Receive
      <4> QED BY <2>3, <3>3, <3>4, <3>5, <3>7, <4>2
    <3> QED BY <3>6, <3>7
  <2> QED BY <2>2, <2>3
<1>7. db' \in Store
  BY <1>5, <1>6 DEF Store
<1>8. ASSUME NEW id \in Ids
      PROVE  /\ undone'[id] \in 0..MaxTime
             /\ undone[id] <= undone'[id] /\ undone'[id] <= now
             /\ db[id] # NoRec => db[id].at <= db'[id].at \/ db[id].at <= undone'[id]
  <2>1. undone[id] \in 0..MaxTime /\ undone[id] <= now
    BY <1>1 DEF Inv, RecordsAreDated
  <2>2. db[id] # NoRec => db[id].at \in Nat /\ db[id].at <= now /\ db'[id].at \in Nat
    BY <1>6, HeldFacts
  <2>3. PICK from : from = TakenBackFrom(id)
    OBVIOUS
  <2>4. undone'[id] = IF from > undone[id] THEN from ELSE undone[id]
    BY <2>3 DEF Receive
  <2>5. from = IF db[id] # NoRec /\ db'[id].at < db[id].at THEN db[id].at ELSE 0
    BY <2>3 DEF TakenBackFrom
  <2> QED BY <1>1, <2>1, <2>2, <2>4, <2>5
<1>9. undone' \in [Ids -> 0..MaxTime]
  <2>1. undone' = [id \in Ids |-> undone'[id]]
    BY DEF Receive
  <2> QED BY <1>8, <2>1
<1> QED BY <1>4, <1>6, <1>7, <1>8, <1>9

(* What a device was told of and what a pull has seen stays known when     *)
(* another push arrives.                                                   *)
LEMMA ReceiveInv ==
    ASSUME Inv, NEW rows \in Rows, NEW t \in Nat, WrittenBy(rows, t), Receive(rows, t),
           UNCHANGED <<now, store, outVars, cursor>>
    PROVE  /\ \A id \in Ids : (db[id] # NoRec => Dated(db[id]) /\ db[id].at <= now)'
           /\ \A id \in Ids : undone'[id] <= now'
           /\ \A id \in Ids, s \in Nat : Known(id, s) => Known(id, s)'
           /\ \A d \in Devices :
                sync[d].pc = "pulled" /\ sync'[d] = sync[d] => PulledFromServer(d)'
           /\ AlwaysUploadedOrSkipped' /\ PullMissesOnlyLateArrivals'
<1>1. \A id \in Ids :
        /\ db'[id] # NoRec =>
             /\ db'[id] \in Record /\ db'[id].at \in Nat
             /\ Dated(db'[id]) /\ db'[id].at <= now
        /\ db[id] # NoRec =>
             /\ db'[id] # NoRec
             /\ db[id].at <= db'[id].at \/ db[id].at <= undone'[id]
        /\ undone[id] <= undone'[id] /\ undone'[id] <= now
        /\ undone[id] \in Nat /\ undone'[id] \in Nat
        /\ \/ /\ db'[id] = db[id]
              /\ \A d \in Devices : id \in late[d] => id \in late'[d]
           \/ \A d \in Devices :
                db'[id].at <= AnsweredUpTo(d, Coll[id]) => id \in late'[d]
  <2>1. \A id \in Ids : undone[id] \in Nat
    BY SyncAssumption DEF Inv, Typed, TypeOK
  <2>2. \A id \in Ids : undone'[id] \in Nat
    BY SyncAssumption, ReceiveFacts
  <2> QED BY <2>1, <2>2, ReceiveFacts
<1>2. UNCHANGED <<now, store, outbox, skipped, cursor>>
  BY DEF outVars
<1>3. \A id \in Ids : (db[id] # NoRec => Dated(db[id]) /\ db[id].at <= now)'
  BY <1>1, <1>2 DEF Dated
<1>4. ASSUME NEW id \in Ids, NEW s \in Nat, Known(id, s)
      PROVE  Known(id, s)'
  <2>1. CASE s <= undone[id]
    BY <1>1, <2>1 DEF Known
  <2>2. CASE db[id] # NoRec /\ s <= db[id].at
    <3>1. db[id].at \in Nat /\ db'[id] # NoRec /\ db'[id].at \in Nat
      BY <1>1, <2>2, HeldFacts
    <3> QED BY <1>1, <2>2, <3>1 DEF Known
  <2> QED BY <1>4, <2>1, <2>2 DEF Known
<1>5. AlwaysUploadedOrSkipped'
  <2> SUFFICES ASSUME NEW d \in ByHand, NEW id \in Ids, store[d][id] # NoRec
               PROVE  Known(id, store[d][id].val.when)' \/ id \in outbox[d] \cup skipped[d]
    <3>1. store' = store /\ outbox' = outbox /\ skipped' = skipped
      BY <1>2
    <3> QED BY <3>1 DEF AlwaysUploadedOrSkipped, Reached, Holds, Known
  <2>1. d \in Devices
    BY SyncAssumption
  <2>2. PICK w \in Nat : w = store[d][id].val.when
    BY <2>1, DeviceFacts
  <2>3. Known(id, w) \/ id \in outbox[d] \cup skipped[d]
    BY <2>2 DEF Inv, AlwaysUploadedOrSkipped, Reached, Holds, Known
  <2>4. Known(id, w)' => Known(id, store[d][id].val.when)'
    BY <1>2, <2>2 DEF Known
  <2> QED BY <1>4, <2>3, <2>4
<1>6. PullMissesOnlyLateArrivals'
  <2> SUFFICES ASSUME NEW d \in Devices, NEW id \in Ids,
                      db'[id] # NoRec, db'[id].at <= cursor[d][Coll[id]],
                      ~(store[d][id] # NoRec /\ store[d][id].at >= db'[id].at)
               PROVE  id \in late'[d]
    BY <1>2 DEF PullMissesOnlyLateArrivals
  <2>1. CASE db'[id] = db[id] /\ (id \in late[d] => id \in late'[d])
    BY <2>1 DEF Inv, PullMissesOnlyLateArrivals
  <2>2. CASE db'[id].at <= AnsweredUpTo(d, Coll[id]) => id \in late'[d]
    <3>1. /\ Coll[id] \in Colls /\ cursor[d][Coll[id]] \in Nat
          /\ db'[id].at \in Nat /\ sync[d].time \in Nat
      BY <1>1, SyncAssumption, FlushFacts DEF Inv, Typed, TypeOK, Colls
    <3>2. cursor[d][Coll[id]] <= AnsweredUpTo(d, Coll[id]) /\ AnsweredUpTo(d, Coll[id]) \in Nat
      BY <3>1 DEF AnsweredUpTo, Inv, PullsAreFromServer, PulledFromServer
    <3> QED BY <2>2, <3>1, <3>2
  <2> QED BY <1>1, <2>1, <2>2
<1>7. ASSUME NEW d \in Devices, sync[d].pc = "pulled", sync'[d] = sync[d]
      PROVE  PulledFromServer(d)'
  <2> DEFINE c == sync[d].coll
             got == sync[d].rows
  <2>1. /\ cursor[d][c] <= sync[d].time /\ sync[d].time <= now
        /\ \A id \in DOMAIN got :
             Coll[id] = c /\ cursor[d][c] < got[id].at /\ Known(id, got[id].at)
        /\ \A id \in Ids :
             Coll[id] = c /\ db[id] # NoRec /\ db[id].at <= sync[d].time =>
                 \/ id \in late[d]
                 \/ db[id].at <= cursor[d][c]
                 \/ id \in DOMAIN got /\ got[id].at = db[id].at
    BY <1>7 DEF Inv, PullsAreFromServer, PulledFromServer
  <2>2. ASSUME NEW id \in DOMAIN got
        PROVE  Known(id, sync[d].rows[id].at)'
    <3>1. PICK s \in Nat : s = got[id].at
      BY FlushFacts, RecordFacts
    <3>2. Known(id, s)'
      BY <1>4, <2>1, <3>1, FlushFacts
    <3> QED BY <1>7, <3>1, <3>2 DEF Known
  <2>3. ASSUME NEW id \in Ids, Coll[id] = c, db'[id] # NoRec, db'[id].at <= sync[d].time
        PROVE  \/ id \in late'[d]
               \/ db'[id].at <= cursor[d][c]
               \/ id \in DOMAIN got /\ got[id].at = db'[id].at
    <3>1. CASE db'[id] = db[id] /\ (id \in late[d] => id \in late'[d])
      BY <2>1, <2>3, <3>1
    <3>2. CASE db'[id].at <= AnsweredUpTo(d, Coll[id]) => id \in late'[d]
      BY <1>7, <2>3, <3>2 DEF AnsweredUpTo
    <3> QED BY <1>1, <3>1, <3>2
  <2> QED BY <1>2, <1>7, <2>1, <2>2, <2>3 DEF PulledFromServer
<1> QED BY <1>1, <1>2, <1>3, <1>4, <1>5, <1>6, <1>7

(* The clock a push is handled at is no earlier than its rows.             *)
LEMMA HandleFacts ==
    ASSUME Inv, NEW push \in Pushes, WrittenBy(push.rows, push.sent), Handle(push)
    PROVE  \E t \in Nat : /\ push.sent <= t
                          /\ WrittenBy(push.rows, t) /\ Receive(push.rows, t)
<1>1. now \in Nat /\ push.sent \in Nat /\ push.rows \in Rows
  BY SyncAssumption DEF Pushes, Inv, Typed, TypeOK
<1>2. PICK t \in push.sent..now : Receive(push.rows, t)
  BY DEF Handle
<1>3. t \in Nat /\ push.sent <= t /\ t <= now
  BY <1>1, <1>2
<1>4. \A id \in DOMAIN push.rows : push.rows[id].val.when \in Nat
  BY <1>1, RowsFacts, RecordFacts
<1> QED BY <1>1, <1>2, <1>3, <1>4 DEF WrittenBy

(* What a device that waits for its push has sent.                         *)
LEMMA PushOfFacts ==
    ASSUME Inv, NEW d \in Devices, sync[d].pc = "push"
    PROVE  /\ PushOf(d) \in Pushes /\ WrittenBy(PushOf(d).rows, PushOf(d).sent)
           /\ PushOf(d).sent = sync[d].time
           /\ DOMAIN PushOf(d).rows = {id \in DOMAIN sync[d].rows : Coll[id] = sync[d].coll}
           /\ \A id \in DOMAIN PushOf(d).rows : PushOf(d).rows[id] = sync[d].rows[id]
<1>1. sync[d].rows \in Rows /\ sync[d].time \in Nat
  BY FlushFacts
<1>2. PICK rows : rows = InColl(sync[d].rows, sync[d].coll)
  OBVIOUS
<1>3. /\ rows \in Rows
      /\ DOMAIN rows = {id \in DOMAIN sync[d].rows : Coll[id] = sync[d].coll}
      /\ \A id \in DOMAIN rows : rows[id] = sync[d].rows[id]
  BY <1>1, <1>2, InCollFacts
<1>4. PushOf(d) = [rows |-> rows, sent |-> sync[d].time]
  BY <1>2 DEF PushOf
<1>5. WrittenBy(sync[d].rows, sync[d].time)
  BY DEF Inv, RecordsAreDated
<1> QED BY <1>1, <1>3, <1>4, <1>5 DEF Pushes, WrittenBy

(* A push is handled while its device waits, or after it gave up.          *)
LEMMA HandlePushInv ==
    ASSUME Inv, NEW d \in Devices, HandlePush(d)
    PROVE  Inv'
<1>1. /\ sync[d].pc = "push" /\ Handle(PushOf(d))
      /\ sync' = [sync EXCEPT ![d].pc = "pushed", ![d].time = 0]
      /\ UNCHANGED <<now, kills, on, store, outVars, cursor, queued, shown, stray>>
  BY DEF HandlePush
<1>2. /\ sync[d] \in Flush /\ sync[d].rows \in Rows
      /\ DOMAIN sync[d].rows \subseteq Ids
      /\ \A id \in DOMAIN sync[d].rows :
           sync[d].rows[id] \in Record /\ Dated(sync[d].rows[id])
  BY FlushFacts
<1>3. PICK push \in Pushes :
         /\ push = PushOf(d) /\ WrittenBy(push.rows, push.sent)
         /\ DOMAIN push.rows = {id \in DOMAIN sync[d].rows : Coll[id] = sync[d].coll}
         /\ \A id \in DOMAIN push.rows : push.rows[id] = sync[d].rows[id]
  BY <1>1, PushOfFacts
<1>4. PICK t \in Nat, rows \in Rows :
         rows = push.rows /\ WrittenBy(rows, t) /\ Receive(rows, t)
  BY <1>1, <1>3, HandleFacts DEF Pushes
<1>5. /\ db' \in Store /\ late' \in [Devices -> SUBSET Ids]
      /\ undone' \in [Ids -> 0..MaxTime]
      /\ \A id \in DOMAIN rows : Holds(db'[id], rows[id])
  <2>1. DOMAIN rows \subseteq Ids
    BY <1>2, <1>3, <1>4
  <2> QED BY <1>4, <2>1, ReceiveFacts
<1>6. /\ \A id \in Ids : (db[id] # NoRec => Dated(db[id]) /\ db[id].at <= now)'
      /\ \A id \in Ids : undone'[id] <= now'
      /\ \A id \in Ids, s \in Nat : Known(id, s) => Known(id, s)'
      /\ \A e \in Devices :
           sync[e].pc = "pulled" /\ sync'[e] = sync[e] => PulledFromServer(e)'
      /\ AlwaysUploadedOrSkipped' /\ PullMissesOnlyLateArrivals'
  BY <1>1, <1>4, ReceiveInv
<1>7. /\ sync' \in [Devices -> Flush]
      /\ sync'[d] = [sync[d] EXCEPT !.pc = "pushed", !.time = 0]
      /\ \A e \in Devices \ {d} : sync'[e] = sync[e]
      /\ \A e \in Devices : sync'[e].rows = sync[e].rows
  BY <1>1, <1>2 DEF Inv, Typed, Flush, Phases
<1>8. Typed'
  <2>1. \A e \in Devices :
          /\ sync'[e].pc \in Phases /\ sync'[e].coll \in Colls
          /\ sync'[e].time \in Nat /\ DOMAIN sync'[e].rows \subseteq Ids
          /\ \A id \in DOMAIN sync'[e].rows : sync'[e].rows[id] \in Record
    BY <1>7, FlushFacts DEF Flush
  <2> QED BY <1>1, <1>5, <1>7, <2>1 DEF Inv, Typed, TypeOK, outVars
<1>9. RecordsAreDated'
  <2>1. \A e \in Devices :
          sync'[e].pc = "push" => WrittenBy(sync'[e].rows, sync'[e].time)
    BY <1>2, <1>7 DEF Inv, RecordsAreDated, Flush
  <2> QED BY <1>1, <1>6, <1>7, <2>1 DEF Inv, RecordsAreDated, WrittenBy, Dated, Clock
<1>10. StoreIsAhead'
  BY <1>1 DEF Inv, StoreIsAhead, outVars
<1>11. PushedIsHeld'
  <2> SUFFICES ASSUME NEW e \in Devices, NEW id \in PushedSoFar(e)'
               PROVE  Known(id, sync[e].rows[id].val.when)'
    BY DEF PushedIsHeld, Reached, Holds, Known
  <2>1. id \in DOMAIN sync[e].rows /\ id \in Ids /\ sync[e].rows[id] \in Record
    BY <1>7, FlushFacts DEF PushedSoFar
  <2>2. PICK w \in Nat : w = sync[e].rows[id].val.when
    BY <2>1, RecordFacts
  <2>3. CASE id \in PushedSoFar(e)
    <3>1. Known(id, w)
      BY <2>2, <2>3 DEF Inv, PushedIsHeld, Reached, Holds, Known
    <3>2. Known(id, w)'
      BY <1>6, <2>1, <3>1
    <3> QED BY <1>7, <2>2, <3>2 DEF Known
  <2>4. CASE id \notin PushedSoFar(e)
    <3>1. e = d /\ Coll[id] <= sync[d].coll /\ ~(Coll[id] < sync[d].coll)
      BY <1>1, <1>2, <1>7, <2>4 DEF PushedSoFar, Flush
    <3>2. Coll[id] = sync[d].coll
      BY <1>2, <2>1, <3>1, SyncAssumption DEF Flush, Colls
    <3>3. Holds(db'[id], sync[e].rows[id])
      BY <1>3, <1>4, <1>5, <2>1, <3>1, <3>2
    <3> QED BY <1>7, <3>3 DEF Known, Holds
  <2> QED BY <2>3, <2>4
<1>12. PullsAreFromServer'
  <2>1. \A e \in Devices : sync'[e].pc = "pulled" => sync[e].pc = "pulled" /\ sync'[e] = sync[e]
    BY <1>2, <1>7 DEF Flush
  <2> QED BY <1>1, <1>6, <2>1 DEF Inv, PullsAreFromServer
<1> QED BY <1>6, <1>8, <1>9, <1>10, <1>11, <1>12 DEF Inv

(* A push its device gave up on is handled, or lost.                       *)
LEMMA StrayInv ==
    ASSUME Inv, NEW push \in stray, HandleStray(push) \/ LoseStray(push)
    PROVE  Inv'
<1>1. stray' = stray \ {push} /\ UNCHANGED <<now, kills, deviceVars>>
  BY DEF HandleStray, LoseStray, dbVars
<1>2. /\ stray' \subseteq Pushes /\ IsFiniteSet(stray') /\ Cardinality(stray') <= MaxStray
  <2>1. IsFiniteSet(stray) /\ Cardinality(stray) \in Nat /\ Cardinality(stray) <= MaxStray
    BY FS_CardinalityType DEF Inv, Typed, TypeOK
  <2>2. IsFiniteSet(stray') /\ Cardinality(stray') = Cardinality(stray) - 1
    BY <1>1, <2>1, FS_RemoveElement
  <2> QED BY <1>1, <2>1, <2>2, SyncAssumption DEF Inv, Typed
<1>3. \A p \in stray' : WrittenBy(p.rows, p.sent)
  BY <1>1 DEF Inv, RecordsAreDated
<1>4. CASE LoseStray(push)
  <2>1. UNCHANGED <<now, kills, db, undone, late, on, store, outbox, skipped, cursor, queued, shown, sync>>
    BY <1>4 DEF LoseStray, deviceVars, outVars, dbVars
  <2>2. Typed'
    BY <1>2, <2>1 DEF Inv, Typed, TypeOK
  <2>3. RecordsAreDated'
    BY <1>3, <2>1 DEF Inv, RecordsAreDated, WrittenBy, Dated, Clock
  <2> QED BY <2>1, <2>2, <2>3
          DEF Inv, StoreIsAhead, PushedIsHeld, PushedSoFar, PullsAreFromServer,
              PulledFromServer, AlwaysUploadedOrSkipped, PullMissesOnlyLateArrivals, Reached,
              Holds, Known
<1>5. CASE HandleStray(push)
  <2>1. Handle(push) /\ UNCHANGED <<now, kills, on, store, outVars, outbox, skipped, cursor, queued, shown, sync>>
    BY <1>5 DEF HandleStray, deviceVars, outVars
  <2>2. push \in Pushes /\ WrittenBy(push.rows, push.sent)
    BY DEF Inv, Typed, RecordsAreDated
  <2>3. PICK t \in Nat, rows \in Rows : WrittenBy(rows, t) /\ Receive(rows, t)
    BY <2>1, <2>2, HandleFacts DEF Pushes
  <2>4. /\ db' \in Store /\ late' \in [Devices -> SUBSET Ids]
        /\ undone' \in [Ids -> 0..MaxTime]
    BY <2>3, ReceiveFacts
  <2>5. /\ \A id \in Ids : (db[id] # NoRec => Dated(db[id]) /\ db[id].at <= now)'
        /\ \A id \in Ids : undone'[id] <= now'
        /\ \A id \in Ids, s \in Nat : Known(id, s) => Known(id, s)'
        /\ \A e \in Devices :
             sync[e].pc = "pulled" /\ sync'[e] = sync[e] => PulledFromServer(e)'
        /\ AlwaysUploadedOrSkipped' /\ PullMissesOnlyLateArrivals'
    BY <2>1, <2>3, ReceiveInv
  <2>6. Typed'
    BY <1>2, <2>1, <2>4 DEF Inv, Typed, TypeOK
  <2>7. RecordsAreDated'
    BY <1>3, <2>1, <2>5 DEF Inv, RecordsAreDated, WrittenBy, Dated, Clock
  <2>8. StoreIsAhead'
    BY <2>1 DEF Inv, StoreIsAhead
  <2>9. PushedIsHeld'
    <3> SUFFICES ASSUME NEW e \in Devices, NEW id \in PushedSoFar(e)
                 PROVE  Known(id, sync[e].rows[id].val.when)'
      BY <2>1 DEF PushedIsHeld, PushedSoFar, Reached, Holds, Known
    <3>1. id \in Ids /\ sync[e].rows[id] \in Record
      BY FlushFacts DEF PushedSoFar
    <3>2. PICK w \in Nat : w = sync[e].rows[id].val.when
      BY <3>1, RecordFacts
    <3>3. Known(id, w)
      BY <3>2 DEF Inv, PushedIsHeld, Reached, Holds, Known
    <3>4. Known(id, w)'
      BY <2>5, <3>1, <3>3
    <3> QED BY <2>1, <3>2, <3>4 DEF Known
  <2>10. PullsAreFromServer'
    BY <2>1, <2>5 DEF Inv, PullsAreFromServer
  <2> QED BY <2>5, <2>6, <2>7, <2>8, <2>9, <2>10 DEF Inv
<1> QED BY <1>4, <1>5

-----------------------------------------------------------------------------
(* The devices. *)

(* The clocks move on.                                                     *)
LEMMA TickInv == ASSUME Inv, Tick PROVE Inv'
<1>1. /\ now \in Nat /\ now' = now + 1 /\ now' \in 0..MaxTime
      /\ UNCHANGED <<kills, db, undone, late, stray, on, store, outbox, skipped, cursor, queued, shown, sync>>
  BY SyncAssumption DEF Tick, Inv, Typed, TypeOK, serverVars, dbVars, deviceVars, outVars
<1>2. Typed'
  BY <1>1 DEF Inv, Typed, TypeOK
<1>3. \A r \in Record : Dated(r) => Dated(r)'
  BY <1>1, RecordFacts DEF Dated
<1>4. RecordsAreDated'
  <2>1. ASSUME NEW id \in Ids, db[id] # NoRec
        PROVE  Dated(db[id])' /\ db[id].at <= now'
    BY <1>1, <1>3, <2>1, HeldFacts DEF Dated
  <2>2. ASSUME NEW d \in Devices, NEW id \in Ids, store[d][id] # NoRec
        PROVE  Dated(store[d][id])' /\ store[d][id].at <= Clock(d)'
    <3>1. Clock(d)' = Clock(d) + 1
      BY <1>1, SyncAssumption DEF Clock
    <3> QED BY <1>1, <1>3, <2>2, <3>1, DeviceFacts DEF Dated
  <2>3. ASSUME NEW d \in Devices, NEW id \in DOMAIN sync[d].rows
        PROVE  Dated(sync[d].rows[id])'
    BY <1>1, <1>3, FlushFacts DEF Dated
  <2>4. ASSUME NEW rows \in Rows, NEW t \in Nat, WrittenBy(rows, t)
        PROVE  WrittenBy(rows, t)'
    <3>1. \A id \in DOMAIN rows : rows[id] \in Record
      BY RowsFacts
    <3> QED BY <1>1, <1>3, <2>4, <3>1 DEF WrittenBy
  <2>5. ASSUME NEW d \in Devices, sync[d].pc = "push"
        PROVE  WrittenBy(sync[d].rows, sync[d].time)'
    <3>1. PICK rows \in Rows, t \in Nat : rows = sync[d].rows /\ t = sync[d].time
      BY FlushFacts
    <3>2. WrittenBy(rows, t)'
      BY <2>4, <2>5, <3>1 DEF Inv, RecordsAreDated
    <3> QED BY <1>1, <3>1, <3>2 DEF WrittenBy
  <2>6. \A push \in stray : WrittenBy(push.rows, push.sent)'
    BY <2>4 DEF Inv, Typed, Pushes, RecordsAreDated
  <2>7. \A id \in Ids : undone[id] <= now'
    BY <1>1, SyncAssumption DEF Inv, RecordsAreDated, Typed, TypeOK
  <2> QED BY <1>1, <2>1, <2>2, <2>3, <2>5, <2>6, <2>7 DEF RecordsAreDated, WrittenBy, Dated
<1>5. StoreIsAhead' /\ PushedIsHeld' /\ AlwaysUploadedOrSkipped' /\ PullMissesOnlyLateArrivals'
  BY <1>1 DEF Inv, StoreIsAhead, PushedIsHeld, PushedSoFar, AlwaysUploadedOrSkipped,
     PullMissesOnlyLateArrivals, Reached, Holds
<1>6. PullsAreFromServer'
  <2>1. ASSUME NEW d \in Devices, NEW c \in Colls PROVE cursor[d][c] <= now'
    BY <1>1 DEF Inv, PullsAreFromServer, Typed, TypeOK
  <2>2. ASSUME NEW d \in Devices, sync[d].pc = "pulled" PROVE PulledFromServer(d)'
    <3>1. PulledFromServer(d) /\ sync[d].time \in Nat
      BY <2>2, FlushFacts DEF Inv, PullsAreFromServer
    <3>2. sync[d].time <= now'
      BY <1>1, <3>1 DEF PulledFromServer
    <3> QED BY <1>1, <3>1, <3>2 DEF PulledFromServer, Known
  <2> QED BY <1>1, <2>1, <2>2 DEF PullsAreFromServer
<1> QED BY <1>2, <1>4, <1>5, <1>6 DEF Inv

\* A flush that holds no rows.
Quiet(f) == f \in Flush /\ f.pc \in {"idle", "pull"} /\ f.rows = NoRows

(* A flush that is idle, or about to pull, holds no rows.                  *)
LEMMA QuietFlushes ==
    /\ Quiet(IdleFlush) /\ Quiet(Pulling(1))
    /\ \A c \in Colls : Quiet(AfterPull(c))
<1>1. NColls \in Nat \ {0} /\ 1 \in Colls
  BY SyncAssumption DEF Colls
<1>2. NoRows \in Rows
  BY RowsFacts
<1>3. Quiet(IdleFlush)
  BY <1>1, <1>2 DEF Quiet, IdleFlush, Flush, Phases
<1>4. \A c \in Colls : Quiet(Pulling(c))
  BY <1>2 DEF Quiet, Pulling, Flush, Phases
<1>5. \A c \in Colls : c # NColls => c + 1 \in Colls
  BY <1>1 DEF Colls
<1> QED BY <1>1, <1>3, <1>4, <1>5 DEF AfterPull

(* What a flush without rows leaves of the invariant.                      *)
LEMMA QuietInv ==
    ASSUME Inv, NEW d \in Devices, NEW f, Quiet(f),
           sync' = [sync EXCEPT ![d] = f],
           UNCHANGED <<now, db, undone, late>>,
           \A e \in Devices \ {d} : cursor'[e] = cursor[e]
    PROVE  /\ sync' \in [Devices -> Flush]
           /\ \A e \in Devices :
                /\ sync'[e].pc \in Phases /\ sync'[e].coll \in Colls
                /\ sync'[e].time \in Nat /\ DOMAIN sync'[e].rows \subseteq Ids
                /\ \A id \in DOMAIN sync'[e].rows :
                     sync'[e].rows[id] \in Record /\ Dated(sync[e].rows[id])'
                /\ sync'[e].pc = "push" => WrittenBy(sync[e].rows, sync[e].time)'
           /\ PushedIsHeld'
           /\ \A e \in Devices : sync'[e].pc = "pulled" => PulledFromServer(e)'
<1>1. /\ sync' \in [Devices -> Flush] /\ sync'[d] = f
      /\ \A e \in Devices \ {d} : sync'[e] = sync[e]
  BY DEF Inv, Typed, Quiet
<1>2. DOMAIN sync'[d].rows = {} /\ sync'[d].pc \notin {"push", "pushed", "pulled"}
  BY <1>1, RowsFacts DEF Quiet
<1>3. ASSUME NEW e \in Devices
      PROVE  /\ sync'[e].pc \in Phases /\ sync'[e].coll \in Colls
             /\ sync'[e].time \in Nat /\ DOMAIN sync'[e].rows \subseteq Ids
             /\ \A id \in DOMAIN sync'[e].rows :
                  sync'[e].rows[id] \in Record /\ Dated(sync[e].rows[id])'
             /\ sync'[e].pc = "push" => WrittenBy(sync[e].rows, sync[e].time)'
  <2>1. CASE e = d
    BY <1>1, <1>2, <2>1 DEF Flush
  <2>2. CASE e # d
    <3>1. sync[e].pc = "push" => WrittenBy(sync[e].rows, sync[e].time)
      BY DEF Inv, RecordsAreDated
    <3> QED BY <1>1, <2>2, <3>1, FlushFacts DEF Dated, WrittenBy
  <2> QED BY <2>1, <2>2
<1>4. PushedIsHeld'
  <2> SUFFICES ASSUME NEW e \in Devices, NEW id \in PushedSoFar(e)'
               PROVE  Reached(id, sync[e].rows[id])'
    BY DEF PushedIsHeld, Reached, Holds
  <2>1. e # d
    BY <1>2 DEF PushedSoFar
  <2> QED BY <1>1, <2>1 DEF Inv, PushedIsHeld, PushedSoFar, Reached, Holds
<1>5. ASSUME NEW e \in Devices, sync'[e].pc = "pulled" PROVE PulledFromServer(e)'
  <2>1. e # d
    BY <1>2, <1>5
  <2>2. sync'[e] = sync[e] /\ cursor'[e] = cursor[e] /\ PulledFromServer(e)
    BY <1>1, <1>5, <2>1 DEF Inv, PullsAreFromServer
  <2> QED BY <2>2 DEF PulledFromServer, Known
<1> QED BY <1>1, <1>3, <1>4, <1>5

\* Device d stores what its user wrote under the ids of W.
Stores(d, W) ==
    store' = [store EXCEPT ![d] =
                 [id \in Ids |-> IF id \in W THEN New(d) ELSE store[d][id]]]

(* A record the user stores is the newest of the device and of the server. *)
LEMMA StoresFacts ==
    ASSUME Inv, NEW d \in Devices, NEW W \in SUBSET Ids, Stores(d, W)
    PROVE  /\ New(d) \in Record /\ New(d) # NoRec
           /\ store' \in [Devices -> Store]
           /\ \A e \in Devices, id \in Ids :
                store'[e][id] = IF e = d /\ id \in W THEN New(d) ELSE store[e][id]
           /\ \A e \in Devices, id \in Ids : store'[e][id] # NoRec =>
                Dated(store'[e][id]) /\ store'[e][id].at <= Clock(e)
           /\ \A id \in W : db[id] # NoRec => db[id].at <= New(d).at
           /\ \A e \in Devices, id \in Ids :
                /\ NoNewer(shown[e][id], store'[e][id])
                /\ NoNewer(queued[e][id], store'[e][id])
                /\ NoNewer(store[e][id], store'[e][id])
<1>1. Clock(d) \in Nat /\ now \in Nat /\ now <= Clock(d)
  BY SyncAssumption DEF Clock, Inv, Typed, TypeOK
<1>2. New(d) \in Record /\ New(d).at = Clock(d) /\ New(d).val.when = now
  BY <1>1 DEF New, Record, Writes
<1>3. New(d) # NoRec
  BY <1>2, RecordFacts
<1>4. store' \in [Devices -> Store]
      /\ \A e \in Devices, id \in Ids :
           store'[e][id] = IF e = d /\ id \in W THEN New(d) ELSE store[e][id]
  BY <1>2 DEF Stores, Store, Inv, Typed, TypeOK
<1>5. Dated(New(d)) /\ New(d).at <= Clock(d)
  BY <1>1, <1>2 DEF Dated
<1>6. ASSUME NEW e \in Devices, NEW id \in Ids, store'[e][id] # NoRec
      PROVE  Dated(store'[e][id]) /\ store'[e][id].at <= Clock(e)
  BY <1>4, <1>5, <1>6 DEF Inv, RecordsAreDated
<1>7. ASSUME NEW id \in W, db[id] # NoRec PROVE db[id].at <= New(d).at
  BY <1>1, <1>2, <1>7, HeldFacts
<1>8. ASSUME NEW e \in Devices, NEW id \in Ids
      PROVE  /\ NoNewer(shown[e][id], store'[e][id])
             /\ NoNewer(queued[e][id], store'[e][id])
             /\ NoNewer(store[e][id], store'[e][id])
  <2>1. NoNewer(shown[e][id], store[e][id]) /\ NoNewer(queued[e][id], store[e][id])
    BY DEF Inv, StoreIsAhead
  <2>2. /\ shown[e][id] \in Record \cup {NoRec} /\ queued[e][id] \in Record \cup {NoRec}
        /\ store[e][id] # NoRec => store[e][id].at \in Nat /\ store[e][id].at <= Clock(e)
    BY DeviceFacts
  <2>3. CASE e = d /\ id \in W
    <3>1. store'[e][id] = New(d)
      BY <1>4, <2>3
    <3>2. ASSUME NEW r \in Record \cup {NoRec}, NoNewer(r, store[e][id])
          PROVE  NoNewer(r, New(d))
      <4> SUFFICES ASSUME r # NoRec PROVE r.at <= New(d).at
        BY <1>3 DEF NoNewer
      <4>1. r.at \in Nat /\ r.at <= store[e][id].at /\ store[e][id] # NoRec
        BY <3>2, RecordFacts DEF NoNewer
      <4> QED BY <1>1, <1>2, <2>2, <2>3, <4>1
    <3>3. NoNewer(store[e][id], New(d))
      BY <1>2, <1>3, <2>2, <2>3 DEF NoNewer
    <3> QED BY <2>1, <2>2, <3>1, <3>2, <3>3
  <2>4. CASE ~(e = d /\ id \in W)
    <3>1. store'[e][id] = store[e][id]
      BY <1>4, <2>4
    <3>2. NoNewer(store[e][id], store[e][id])
      BY <2>2 DEF NoNewer
    <3> QED BY <2>1, <3>1, <3>2
  <2> QED BY <2>3, <2>4
<1> QED BY <1>2, <1>3, <1>4, <1>6, <1>7, <1>8

(* So no pull is missed by it.                                             *)
LEMMA StoresMissNothing ==
    ASSUME Inv, NEW d \in Devices, NEW W \in SUBSET Ids, Stores(d, W),
           UNCHANGED <<db, undone, late, cursor>>
    PROVE  PullMissesOnlyLateArrivals'
<1> SUFFICES ASSUME NEW e \in Devices, NEW id \in Ids,
                    db[id] # NoRec, db[id].at <= cursor[e][Coll[id]],
                    ~(store'[e][id] # NoRec /\ store'[e][id].at >= db[id].at)
             PROVE  id \in late[e]
  BY DEF PullMissesOnlyLateArrivals
<1>1. ~(e = d /\ id \in W)
  <2> SUFFICES ASSUME e = d, id \in W PROVE FALSE
    OBVIOUS
  <2>1. store'[e][id] = New(d) /\ New(d) # NoRec /\ db[id].at <= New(d).at
        /\ New(d) \in Record
    BY StoresFacts
  <2>2. New(d).at \in Nat /\ db[id].at \in Nat
    BY <2>1, RecordFacts, HeldFacts
  <2> QED BY <2>1, <2>2
<1>2. store'[e][id] = store[e][id]
  BY <1>1, StoresFacts
<1> QED BY <1>2 DEF Inv, PullMissesOnlyLateArrivals

\* What the outbox of d and its history become.
Outboxes(d, out, skip) ==
    /\ outbox' = [outbox EXCEPT ![d] = out]
    /\ skipped' = IF d \in ByHand THEN [skipped EXCEPT ![d] = skip] ELSE skipped

(* The user stores records and queues keys: what is stored and not queued  *)
(* is in the history.                                                      *)
LEMMA UserWrites ==
    ASSUME Inv, NEW d \in Devices, NEW W \in SUBSET Ids, Stores(d, W),
           NEW out \in SUBSET Ids, NEW skip \in SUBSET Ids,
           Outboxes(d, out, skip),
           out \subseteq outbox[d] \cup W,
           \A id \in Ids : id \in outbox[d] \cup skipped[d] \cup W => id \in out \cup skip,
           UNCHANGED <<db, undone>>
    PROVE  /\ outbox' \in [Devices -> SUBSET Ids] /\ skipped' \in [Devices -> SUBSET Ids]
           /\ \A e \in Devices, id \in Ids : id \in outbox'[e] => store'[e][id] # NoRec
           /\ AlwaysUploadedOrSkipped'
<1>1. /\ outbox \in [Devices -> SUBSET Ids] /\ skipped \in [Devices -> SUBSET Ids]
  BY DEF Inv, Typed, TypeOK
<1>2. /\ outbox' \in [Devices -> SUBSET Ids] /\ skipped' \in [Devices -> SUBSET Ids]
      /\ outbox'[d] = out /\ \A e \in Devices \ {d} : outbox'[e] = outbox[e]
      /\ d \in ByHand => skipped'[d] = skip
      /\ \A e \in Devices \ {d} : skipped'[e] = skipped[e]
  BY <1>1 DEF Outboxes
<1>3. /\ New(d) # NoRec
      /\ \A e \in Devices, id \in Ids :
           store'[e][id] = IF e = d /\ id \in W THEN New(d) ELSE store[e][id]
  BY StoresFacts
<1>4. ASSUME NEW e \in Devices, NEW id \in Ids, id \in outbox'[e]
      PROVE  store'[e][id] # NoRec
  <2>1. id \in outbox[e] \/ (e = d /\ id \in W)
    BY <1>2, <1>4
  <2>2. id \in outbox[e] => store[e][id] # NoRec
    BY DEF Inv, StoreIsAhead
  <2> QED BY <1>3, <2>1, <2>2
<1>5. AlwaysUploadedOrSkipped'
  <2> SUFFICES ASSUME NEW e \in ByHand, NEW id \in Ids, store'[e][id] # NoRec
               PROVE  Reached(id, store'[e][id]) \/ id \in outbox'[e] \cup skipped'[e]
    BY DEF AlwaysUploadedOrSkipped, Reached, Holds
  <2>1. e \in Devices
    BY SyncAssumption
  <2>2. CASE e = d /\ id \in W
    BY <1>2, <2>2
  <2>3. CASE ~(e = d /\ id \in W)
    <3>1. store'[e][id] = store[e][id]
      BY <1>3, <2>1, <2>3
    <3>2. Reached(id, store[e][id]) \/ id \in outbox[e] \cup skipped[e]
      BY <3>1 DEF Inv, AlwaysUploadedOrSkipped
    <3> QED BY <1>2, <2>1, <3>1, <3>2
  <2> QED BY <2>2, <2>3
<1> QED BY <1>2, <1>4, <1>5

(* Nothing about a flush or the server depends on what is stored, queued   *)
(* or shown meanwhile.                                                     *)
LEMMA FlushUntouched ==
    ASSUME Inv, UNCHANGED <<now, db, undone, late, cursor, sync>>
    PROVE  /\ PushedIsHeld' /\ PullsAreFromServer'
           /\ \A id \in Ids : (db[id] # NoRec => Dated(db[id]) /\ db[id].at <= now)'
           /\ \A id \in Ids : undone'[id] <= now'
           /\ \A e \in Devices : \A id \in DOMAIN sync'[e].rows : Dated(sync[e].rows[id])'
           /\ \A e \in Devices :
                sync'[e].pc = "push" => WrittenBy(sync[e].rows, sync[e].time)'
  BY DEF Inv, PushedIsHeld, PushedSoFar, Reached, Holds, Known, PullsAreFromServer,
     PulledFromServer, RecordsAreDated, WrittenBy, Dated

(* One write, or two at once, with what becomes of their keys.             *)
LEMMA UserInv ==
    ASSUME Inv, NEW d \in Devices, NEW W \in SUBSET Ids, Stores(d, W),
           NEW out \in SUBSET Ids, NEW skip \in SUBSET Ids,
           Outboxes(d, out, skip),
           out \subseteq outbox[d] \cup W,
           \A id \in Ids : id \in outbox[d] \cup skipped[d] \cup W => id \in out \cup skip,
           queued' = [queued EXCEPT ![d] =
                         [id \in Ids |-> IF id \in W THEN New(d) ELSE queued[d][id]]],
           UNCHANGED <<now, kills, on, db, undone, late, stray, cursor, shown, sync>>
    PROVE  Inv'
<1>1. /\ New(d) \in Record /\ New(d) # NoRec
      /\ store' \in [Devices -> Store]
      /\ \A e \in Devices, i \in Ids :
           store'[e][i] = IF e = d /\ i \in W THEN New(d) ELSE store[e][i]
      /\ \A e \in Devices, i \in Ids : store'[e][i] # NoRec =>
           Dated(store'[e][i]) /\ store'[e][i].at <= Clock(e)
      /\ \A e \in Devices, i \in Ids :
           NoNewer(shown[e][i], store'[e][i]) /\ NoNewer(queued[e][i], store'[e][i])
  BY StoresFacts
<1>2. /\ outbox' \in [Devices -> SUBSET Ids] /\ skipped' \in [Devices -> SUBSET Ids]
      /\ \A e \in Devices, i \in Ids : i \in outbox'[e] => store'[e][i] # NoRec
      /\ AlwaysUploadedOrSkipped'
  <2>1. UNCHANGED <<db, undone>>
    OBVIOUS
  <2> QED BY <2>1, UserWrites
<1>3. /\ queued' \in [Devices -> Store]
      /\ \A e \in Devices, i \in Ids :
           queued'[e][i] = IF e = d /\ i \in W THEN New(d) ELSE queued[e][i]
  BY <1>1 DEF Store, Inv, Typed, TypeOK
<1>4. Typed'
  BY <1>1, <1>2, <1>3 DEF Inv, Typed, TypeOK
<1>5. RecordsAreDated'
  <2>1. /\ \A i \in Ids : (db[i] # NoRec => Dated(db[i]) /\ db[i].at <= now)'
        /\ \A i \in Ids : undone'[i] <= now'
        /\ \A e \in Devices : \A i \in DOMAIN sync'[e].rows : Dated(sync[e].rows[i])'
        /\ \A e \in Devices : sync'[e].pc = "push" => WrittenBy(sync[e].rows, sync[e].time)'
    BY FlushUntouched
  <2>2. \A push \in stray' : WrittenBy(push.rows, push.sent)'
    BY DEF Inv, RecordsAreDated, WrittenBy, Dated
  <2>3. ASSUME NEW e \in Devices, NEW i \in Ids, store'[e][i] # NoRec
        PROVE  Dated(store[e][i])' /\ store'[e][i].at <= Clock(e)'
    BY <1>1, <2>3 DEF Dated, Clock
  <2> QED BY <2>1, <2>2, <2>3 DEF RecordsAreDated
<1>6. StoreIsAhead'
  <2>1. NoNewer(New(d), New(d))
    BY <1>1, RecordFacts DEF NoNewer
  <2>2. \A e \in Devices, i \in Ids : NoNewer(queued'[e][i], store'[e][i])
    BY <1>1, <1>3, <2>1
  <2> QED BY <1>1, <1>2, <2>2 DEF StoreIsAhead
<1>7. PullMissesOnlyLateArrivals'
  BY StoresMissNothing
<1> QED BY <1>2, <1>4, <1>5, <1>6, <1>7, FlushUntouched DEF Inv

(* The user saves, changes or deletes a record.                            *)
LEMMA WriteInv ==
    ASSUME Inv, NEW d \in Devices, NEW id \in Ids, Write(d, id)
    PROVE  Inv'
<1>1. PICK W \in SUBSET Ids : W = {id}
  OBVIOUS
<1>2. PICK out \in SUBSET Ids : out = IF on[d] THEN outbox[d] \cup {id} ELSE outbox[d]
  BY DEF Inv, Typed, TypeOK
<1>3. PICK skip \in SUBSET Ids :
         skip = IF on[d] THEN skipped[d] \ {id} ELSE skipped[d] \cup {id}
  BY DEF Inv, Typed, TypeOK
<1>4. Stores(d, W)
  BY <1>1 DEF Write, Stores, Inv, Typed, TypeOK, Store
<1>5. Outboxes(d, out, skip)
  BY <1>2, <1>3 DEF Write, Enqueue, Skip, Outboxes
<1>6. /\ out \subseteq outbox[d] \cup W
      /\ \A i \in Ids : i \in outbox[d] \cup skipped[d] \cup W => i \in out \cup skip
  BY <1>1, <1>2, <1>3
<1>7. /\ queued' = [queued EXCEPT ![d] =
                       [i \in Ids |-> IF i \in W THEN New(d) ELSE queued[d][i]]]
      /\ UNCHANGED <<now, kills, on, db, undone, late, stray, cursor, shown, sync>>
  BY <1>1 DEF Write, serverVars, dbVars, Inv, Typed, TypeOK, Store
<1> QED BY <1>4, <1>5, <1>6, <1>7, UserInv

(* Two sessions at once: the key of the one closed is in the history.      *)
LEMMA SwitchMachineInv ==
    ASSUME Inv, NEW d \in Devices, NEW closed \in Ids, NEW opened \in Ids,
           SwitchMachine(d, closed, opened)
    PROVE  Inv'
<1>1. PICK W \in SUBSET Ids : W = {closed, opened}
  OBVIOUS
<1>2. PICK out \in SUBSET Ids : out = IF on[d] THEN outbox[d] \cup {opened} ELSE outbox[d]
  BY DEF Inv, Typed, TypeOK
<1>3. PICK skip \in SUBSET Ids :
         skip = IF on[d] THEN (skipped[d] \ {opened}) \cup {closed}
                         ELSE skipped[d] \cup {opened, closed}
  BY DEF Inv, Typed, TypeOK
<1>4. Stores(d, W)
  BY <1>1 DEF SwitchMachine, Stores, Inv, Typed, TypeOK, Store
<1>5. Outboxes(d, out, skip)
  BY <1>2, <1>3 DEF SwitchMachine, Skip, Outboxes
<1>6. /\ out \subseteq outbox[d] \cup W
      /\ \A i \in Ids : i \in outbox[d] \cup skipped[d] \cup W => i \in out \cup skip
  BY <1>1, <1>2, <1>3
<1>7. /\ queued' = [queued EXCEPT ![d] =
                       [i \in Ids |-> IF i \in W THEN New(d) ELSE queued[d][i]]]
      /\ UNCHANGED <<now, kills, on, db, undone, late, stray, cursor, shown, sync>>
  BY <1>1 DEF SwitchMachine, serverVars, dbVars, Inv, Typed, TypeOK, Store
<1> QED BY <1>4, <1>5, <1>6, <1>7, UserInv

(* Sync is turned on, with all that is stored queued if nothing was ever   *)
(* pulled, or turned off; the page renders.                                *)
LEMMA SettingsInv ==
    ASSUME Inv, NEW d \in Devices, EnableSync(d) \/ DisableSync(d) \/ Render(d)
    PROVE  Inv'
<1>1. UNCHANGED <<now, db, undone, late, stray, store, cursor, queued, sync>>
  BY DEF EnableSync, DisableSync, Render, serverVars, dbVars
<1>2. /\ kills' \in 0..MaxKills /\ on' \in [Devices -> BOOLEAN]
      /\ outbox \in [Devices -> SUBSET Ids] /\ skipped \in [Devices -> SUBSET Ids]
      /\ store \in [Devices -> Store]
      /\ shown \in [Devices -> Store] /\ queued \in [Devices -> Store]
  <2>1. /\ kills \in 0..MaxKills /\ on \in [Devices -> BOOLEAN]
        /\ outbox \in [Devices -> SUBSET Ids] /\ skipped \in [Devices -> SUBSET Ids]
        /\ store \in [Devices -> Store]
        /\ shown \in [Devices -> Store] /\ queued \in [Devices -> Store]
    BY DEF Inv, Typed, TypeOK
  <2>2. kills' = kills \/ (kills < MaxKills /\ kills' = kills + 1)
    BY DEF EnableSync, DisableSync, Render
  <2>3. kills' \in 0..MaxKills
    BY <2>1, <2>2, SyncAssumption
  <2>4. on' = on \/ on' = [on EXCEPT ![d] = TRUE] \/ on' = [on EXCEPT ![d] = FALSE]
    BY DEF EnableSync, DisableSync, Render
  <2>5. on' \in [Devices -> BOOLEAN]
    BY <2>1, <2>4
  <2> QED BY <2>1, <2>3, <2>5
<1>3. RecordsAreDated'
  BY <1>1, FlushUntouched DEF Inv, RecordsAreDated, WrittenBy, Dated, Clock
<1>4. PullMissesOnlyLateArrivals'
  BY <1>1 DEF Inv, PullMissesOnlyLateArrivals
<1>5. CASE UNCHANGED outVars
  <2>1. shown' \in [Devices -> Store]
        /\ \A e \in Devices : shown'[e] = shown[e] \/ shown'[e] = queued[e]
    BY <1>2 DEF EnableSync, DisableSync, Render
  <2>2. Typed'
    BY <1>1, <1>2, <1>5, <2>1 DEF Inv, Typed, TypeOK, outVars
  <2>3. StoreIsAhead'
    BY <1>1, <1>5, <2>1 DEF Inv, StoreIsAhead, outVars, NoNewer
  <2>4. AlwaysUploadedOrSkipped'
    BY <1>1, <1>5 DEF Inv, AlwaysUploadedOrSkipped, Reached, Holds, outVars
  <2> QED BY <1>1, <1>3, <1>4, <2>2, <2>3, <2>4, FlushUntouched DEF Inv
<1>6. CASE /\ UNCHANGED shown
           /\ outbox' = [outbox EXCEPT ![d] = {id \in Ids : store[d][id] # NoRec}]
           /\ Skip(d, {}, Ids)
  <2>1. /\ outbox' \in [Devices -> SUBSET Ids] /\ skipped' \in [Devices -> SUBSET Ids]
        /\ outbox'[d] = {id \in Ids : store[d][id] # NoRec}
        /\ \A e \in Devices \ {d} : outbox'[e] = outbox[e] /\ skipped'[e] = skipped[e]
    BY <1>2, <1>6 DEF Skip
  <2>2. Typed'
    BY <1>1, <1>2, <1>6, <2>1 DEF Inv, Typed, TypeOK
  <2>3. StoreIsAhead'
    BY <1>1, <1>6, <2>1 DEF Inv, StoreIsAhead, NoNewer
  <2>4. AlwaysUploadedOrSkipped'
    BY <1>1, <2>1, SyncAssumption DEF Inv, AlwaysUploadedOrSkipped, Reached, Holds
  <2> QED BY <1>1, <1>3, <1>4, <2>2, <2>3, <2>4, FlushUntouched DEF Inv
<1> QED BY <1>5, <1>6 DEF EnableSync, DisableSync, Render
-----------------------------------------------------------------------------
(* Reloads, kills and failures. *)

(* What is under way when a push is given up on was written before it was  *)
(* sent.                                                                   *)
LEMMA AbandonFacts ==
    ASSUME Inv, NEW d \in Devices, Abandon(d)
    PROVE  /\ stray' \subseteq Pushes /\ IsFiniteSet(stray')
           /\ \A push \in stray' : WrittenBy(push.rows, push.sent)
<1>1. /\ stray \subseteq Pushes /\ IsFiniteSet(stray)
      /\ \A push \in stray : WrittenBy(push.rows, push.sent)
  BY DEF Inv, Typed, RecordsAreDated
<1>2. CASE UNCHANGED stray
  BY <1>1, <1>2
<1>3. CASE ~UNCHANGED stray
  <2>1. sync[d].pc = "push"
    BY <1>3 DEF Abandon
  <2>2. PICK push \in Pushes : push = PushOf(d) /\ WrittenBy(push.rows, push.sent)
    BY <2>1, PushOfFacts
  <2>3. stray' = stray \cup {push}
    BY <1>3, <2>1, <2>2 DEF Abandon
  <2>4. IsFiniteSet(stray \cup {push})
    BY <1>1, FS_AddElement
  <2> QED BY <1>1, <2>2, <2>3, <2>4
<1> QED BY <1>2, <1>3

(* The records of a device and what is under way, after its flush ended    *)
(* without rows.                                                           *)
LEMMA EndOfFlush ==
    ASSUME Inv, NEW d \in Devices, NEW f, Quiet(f),
           sync' = [sync EXCEPT ![d] = f],
           (Abandon(d) /\ Cardinality(stray') <= MaxStray) \/ UNCHANGED stray,
           UNCHANGED <<now, db, undone, late>>,
           \/ UNCHANGED cursor
           \/ /\ cursor' \in [Devices -> [Colls -> Nat]]
              /\ \A e \in Devices \ {d} : cursor'[e] = cursor[e]
              /\ \A c \in Colls : cursor'[d][c] <= now,
           store' \in [Devices -> Store],
           \A e \in Devices, id \in Ids : store'[e][id] # NoRec =>
              Dated(store'[e][id]) /\ store'[e][id].at <= Clock(e),
           kills' \in 0..MaxKills,
           on' \in [Devices -> BOOLEAN],
           outbox' \in [Devices -> SUBSET Ids], skipped' \in [Devices -> SUBSET Ids],
           queued' \in [Devices -> Store], shown' \in [Devices -> Store]
    PROVE  Typed' /\ RecordsAreDated' /\ PushedIsHeld' /\ PullsAreFromServer'
<1>1. /\ sync' \in [Devices -> Flush]
      /\ \A e \in Devices :
           /\ sync'[e].pc \in Phases /\ sync'[e].coll \in Colls
           /\ sync'[e].time \in Nat /\ DOMAIN sync'[e].rows \subseteq Ids
           /\ \A id \in DOMAIN sync'[e].rows :
                sync'[e].rows[id] \in Record /\ Dated(sync[e].rows[id])'
           /\ sync'[e].pc = "push" => WrittenBy(sync[e].rows, sync[e].time)'
      /\ PushedIsHeld'
      /\ \A e \in Devices : sync'[e].pc = "pulled" => PulledFromServer(e)'
  <2>1. \A e \in Devices \ {d} : cursor'[e] = cursor[e]
    OBVIOUS
  <2> QED BY <2>1, QuietInv
<1>2. /\ stray' \subseteq Pushes /\ IsFiniteSet(stray') /\ Cardinality(stray') <= MaxStray
      /\ \A push \in stray' : WrittenBy(push.rows, push.sent)
  BY AbandonFacts DEF Inv, Typed, TypeOK, RecordsAreDated
<1>3. Typed'
  BY <1>1, <1>2 DEF Inv, Typed, TypeOK
<1>4. RecordsAreDated'
  BY <1>1, <1>2 DEF Inv, RecordsAreDated, WrittenBy, Dated, Clock
<1>5. PullsAreFromServer'
  BY <1>1 DEF Inv, PullsAreFromServer
<1> QED BY <1>1, <1>3, <1>4, <1>5

(* What only the flush can disturb is left alone by all else.              *)
LEMMA RecordsUntouched ==
    ASSUME Inv, UNCHANGED <<now, db, undone, late, store, outVars, cursor, queued, shown>>
    PROVE  StoreIsAhead' /\ AlwaysUploadedOrSkipped' /\ PullMissesOnlyLateArrivals'
  BY DEF Inv, StoreIsAhead, AlwaysUploadedOrSkipped, PullMissesOnlyLateArrivals, Reached, Holds, outVars

(* The flush ends, or goes on with the next collection.                    *)
LEMMA FailureInv ==
    ASSUME Inv, NEW d \in Devices, PushFails(d) \/ PullFails(d)
    PROVE  Inv'
<1>1. UNCHANGED <<now, kills, on, db, undone, late, store, outVars, outbox, skipped, cursor, queued, shown>>
  BY DEF PushFails, PullFails, serverVars, dbVars, outVars
<1>2. PICK f : Quiet(f) /\ sync' = [sync EXCEPT ![d] = f]
  BY FlushFacts, QuietFlushes DEF PushFails, PullFails, dbVars
<1>3. (Abandon(d) /\ Cardinality(stray') <= MaxStray) \/ UNCHANGED stray
  BY DEF PushFails, PullFails, serverVars, dbVars
<1>4. /\ store' \in [Devices -> Store]
      /\ kills' \in 0..MaxKills /\ on' \in [Devices -> BOOLEAN]
      /\ outbox' \in [Devices -> SUBSET Ids] /\ skipped' \in [Devices -> SUBSET Ids]
      /\ queued' \in [Devices -> Store] /\ shown' \in [Devices -> Store]
  BY <1>1 DEF Inv, Typed, TypeOK
<1>5. \A e \in Devices, id \in Ids : store'[e][id] # NoRec =>
         Dated(store'[e][id]) /\ store'[e][id].at <= Clock(e)
  BY <1>1 DEF Inv, RecordsAreDated
<1>6. UNCHANGED <<now, db, undone, late, cursor>>
  BY <1>1
<1>7. Typed' /\ RecordsAreDated' /\ PushedIsHeld' /\ PullsAreFromServer'
  BY <1>2, <1>3, <1>4, <1>5, <1>6, EndOfFlush
<1> QED BY <1>1, <1>7, RecordsUntouched DEF Inv

(* A page is opened again with what was stored, which a kill between the   *)
(* record and its key leaves without the key.                              *)
LEMMA RestartInv ==
    ASSUME Inv, NEW d \in Devices, NEW W \in SUBSET Ids, Stores(d, W),
           NEW skip \in SUBSET Ids, Outboxes(d, outbox[d], skip),
           skipped[d] \cup W \subseteq skip,
           Restart(d, store'[d]),
           UNCHANGED <<now, db, undone, late, on, cursor>>
    PROVE  Inv'
<1>1. /\ store' \in [Devices -> Store]
      /\ \A e \in Devices, id \in Ids : store'[e][id] # NoRec =>
           Dated(store'[e][id]) /\ store'[e][id].at <= Clock(e)
      /\ \A e \in Devices, id \in Ids :
           NoNewer(shown[e][id], store'[e][id]) /\ NoNewer(queued[e][id], store'[e][id])
  BY StoresFacts
<1>2. /\ outbox' \in [Devices -> SUBSET Ids] /\ skipped' \in [Devices -> SUBSET Ids]
      /\ \A e \in Devices, id \in Ids : id \in outbox'[e] => store'[e][id] # NoRec
      /\ AlwaysUploadedOrSkipped'
  <2>1. PICK out \in SUBSET Ids : out = outbox[d]
    BY DEF Inv, Typed, TypeOK
  <2>2. /\ Outboxes(d, out, skip) /\ out \subseteq outbox[d] \cup W
        /\ \A id \in Ids : id \in outbox[d] \cup skipped[d] \cup W => id \in out \cup skip
        /\ UNCHANGED <<db, undone>>
    BY <2>1
  <2> QED BY <2>2, UserWrites
<1>3. /\ kills' \in 0..MaxKills
      /\ queued' = [queued EXCEPT ![d] = store'[d]]
      /\ shown' = [shown EXCEPT ![d] = store'[d]]
      /\ sync' = [sync EXCEPT ![d] = IdleFlush]
      /\ Abandon(d) /\ Cardinality(stray') <= MaxStray
  BY SyncAssumption DEF Restart, Inv, Typed, TypeOK
<1>4. /\ queued' \in [Devices -> Store] /\ shown' \in [Devices -> Store]
      /\ on' \in [Devices -> BOOLEAN]
  BY <1>1, <1>3 DEF Inv, Typed, TypeOK
<1>5. UNCHANGED <<now, db, undone, late, cursor>>
  OBVIOUS
<1>6. Quiet(IdleFlush)
  BY QuietFlushes
<1>7. Typed' /\ RecordsAreDated' /\ PushedIsHeld' /\ PullsAreFromServer'
  BY <1>1, <1>2, <1>3, <1>4, <1>5, <1>6, EndOfFlush
<1>8. StoreIsAhead'
  <2>1. ASSUME NEW id \in Ids PROVE NoNewer(store'[d][id], store'[d][id])
    <3>1. store'[d][id] \in Record \cup {NoRec}
      BY <1>1 DEF Store
    <3> QED BY <3>1, RecordFacts DEF NoNewer
  <2>2. \A e \in Devices, id \in Ids :
          NoNewer(shown'[e][id], store'[e][id]) /\ NoNewer(queued'[e][id], store'[e][id])
    BY <1>1, <1>3, <2>1 DEF Inv, Typed, TypeOK
  <2> QED BY <1>2, <2>2 DEF StoreIsAhead
<1>9. PullMissesOnlyLateArrivals'
  BY StoresMissNothing
<1> QED BY <1>2, <1>7, <1>8, <1>9 DEF Inv

(* A reload gives up the flush and keeps what is stored.                   *)
LEMMA ReloadInv ==
    ASSUME Inv, NEW d \in Devices, Reload(d)
    PROVE  Inv'
<1>1. /\ store \in [Devices -> Store]
      /\ outbox \in [Devices -> SUBSET Ids] /\ skipped \in [Devices -> SUBSET Ids]
  BY DEF Inv, Typed, TypeOK
<1>2. UNCHANGED <<now, db, undone, late, on, store, outbox, skipped, cursor>>
  BY DEF Reload, outVars, dbVars
<1>3. PICK W \in SUBSET Ids : W = {}
  OBVIOUS
<1>4. PICK skip \in SUBSET Ids : skip = skipped[d]
  BY <1>1
<1>5. Stores(d, W)
  BY <1>1, <1>2, <1>3 DEF Stores, Store
<1>6. Outboxes(d, outbox[d], skip)
  BY <1>1, <1>2, <1>4 DEF Outboxes
<1>7. Restart(d, store'[d])
  BY <1>2 DEF Reload, Restart, dbVars
<1>8. skipped[d] \cup W \subseteq skip /\ UNCHANGED <<now, db, undone, late, on, cursor>>
  BY <1>2, <1>3, <1>4
<1> QED BY <1>5, <1>6, <1>7, <1>8, RestartInv

(* A save whose page dies stores the record and leaves it out of the outbox. *)
LEMMA DieWhileSavingInv ==
    ASSUME Inv, NEW d \in Devices, NEW id \in Ids, DieWhileSaving(d, id)
    PROVE  Inv'
<1>1. PICK W \in SUBSET Ids : W = {id}
  OBVIOUS
<1>2. PICK skip \in SUBSET Ids : skip = skipped[d] \cup {id}
  BY DEF Inv, Typed, TypeOK
<1>3. Stores(d, W)
  BY <1>1 DEF DieWhileSaving, Stores, Inv, Typed, TypeOK, Store, dbVars
<1>4. Outboxes(d, outbox[d], skip)
  BY <1>2 DEF DieWhileSaving, Skip, Outboxes, Inv, Typed, TypeOK, dbVars
<1>5. /\ Restart(d, store'[d]) /\ skipped[d] \cup W \subseteq skip
      /\ UNCHANGED <<now, db, undone, late, on, cursor>>
  BY <1>1, <1>2 DEF DieWhileSaving, dbVars
<1> QED BY <1>3, <1>4, <1>5, RestartInv

-----------------------------------------------------------------------------
(* The flush. *)

(* A push goes on with the first collection left, the server holding those *)
(* before it; when none is left, whatever is still in the outbox was       *)
(* pushed, or its key is taken out for an older copy.                      *)
LEMMA PushFromInv ==
    ASSUME Inv, NEW d \in Devices, NEW rows \in Rows, NEW c \in Nat, 1 <= c,
           WrittenBy(rows, now),
           \A id \in DOMAIN rows : Coll[id] < c => Reached(id, rows[id]),
           PushFrom(d, rows, c),
           UNCHANGED <<now, kills, on, serverVars, store, cursor, queued, shown>>
    PROVE  Inv'
<1>1. UNCHANGED <<now, kills, on, db, undone, late, stray, store, cursor, queued, shown>>
  BY DEF serverVars, dbVars
<1>2. /\ DOMAIN rows \subseteq Ids
      /\ \A id \in DOMAIN rows : rows[id] \in Record /\ Coll[id] \in 1..NColls
      /\ \A id \in DOMAIN rows : Dated(rows[id])
      /\ NColls \in Nat /\ now \in Nat
  BY RowsFacts, SyncAssumption DEF WrittenBy, Inv, Typed, TypeOK
<1>3. /\ outbox \in [Devices -> SUBSET Ids] /\ skipped \in [Devices -> SUBSET Ids]
      /\ sync \in [Devices -> Flush]
  BY DEF Inv, Typed, TypeOK
<1>4. PullMissesOnlyLateArrivals'
  BY <1>1 DEF Inv, PullMissesOnlyLateArrivals
<1>5. CASE Unpushed(rows, c) # {}
  <2>1. PICK first \in Unpushed(rows, c) :
           first = First(Unpushed(rows, c)) /\ \A x \in Unpushed(rows, c) : first <= x
    <3>1. Unpushed(rows, c) \in SUBSET Nat
      BY DEF Unpushed
    <3> QED BY <1>5, <3>1, FirstFacts
  <2>2. PICK f : f = [pc |-> "push", coll |-> first, rows |-> rows, time |-> now]
    OBVIOUS
  <2>3. /\ f \in Flush /\ f.pc = "push" /\ f.coll = first /\ f.rows = rows
        /\ f.time = now
    BY <1>2, <2>2 DEF Flush, Phases, Colls, Unpushed
  <2>4. sync' = [sync EXCEPT ![d] = f] /\ UNCHANGED outVars
    BY <1>5, <2>1, <2>2 DEF PushFrom
  <2>5. /\ sync' \in [Devices -> Flush] /\ sync'[d] = f
        /\ \A e \in Devices \ {d} : sync'[e] = sync[e]
    BY <1>3, <2>3, <2>4
  <2>6. \A e \in Devices :
          /\ sync'[e].pc \in Phases /\ sync'[e].coll \in Colls
          /\ sync'[e].time \in Nat /\ DOMAIN sync'[e].rows \subseteq Ids
          /\ \A id \in DOMAIN sync'[e].rows :
               sync'[e].rows[id] \in Record /\ Dated(sync'[e].rows[id])
          /\ sync'[e].pc = "push" => WrittenBy(sync'[e].rows, sync'[e].time)
    <3> TAKE e \in Devices
    <3>1. CASE e = d
      BY <1>2, <2>3, <2>5, <3>1 DEF Flush
    <3>2. CASE e # d
      BY <2>5, <3>2, FlushFacts DEF Inv, RecordsAreDated
    <3> QED BY <3>1, <3>2
  <2>7. Typed'
    BY <1>1, <2>4, <2>5, <2>6 DEF Inv, Typed, TypeOK, outVars
  <2>8. RecordsAreDated'
    BY <1>1, <2>6 DEF Inv, RecordsAreDated, WrittenBy, Dated, Clock
  <2>9. PushedIsHeld'
    <3> SUFFICES ASSUME NEW e \in Devices, NEW id \in PushedSoFar(e)'
                 PROVE  Reached(id, sync'[e].rows[id])
      BY <1>1 DEF PushedIsHeld, Reached, Holds
    <3>1. CASE e # d
      BY <2>5, <3>1 DEF Inv, PushedIsHeld, PushedSoFar
    <3>2. CASE e = d
      <4>1. id \in DOMAIN rows /\ Coll[id] < first
        BY <2>3, <2>5, <3>2 DEF PushedSoFar
      <4>2. Coll[id] \in Unpushed(rows, c) => first <= Coll[id]
        BY <2>1
      <4>3. Coll[id] \in c..NColls => Coll[id] \in Unpushed(rows, c)
        BY <4>1 DEF Unpushed
      <4>4. first \in Nat
        BY DEF Unpushed
      <4>5. Coll[id] < c
        BY <1>2, <4>1, <4>2, <4>3, <4>4
      <4> QED BY <2>3, <2>5, <3>2, <4>1, <4>5
    <3> QED BY <3>1, <3>2
  <2>10. PullsAreFromServer'
    <3> SUFFICES ASSUME NEW e \in Devices, sync'[e].pc = "pulled"
                 PROVE  PulledFromServer(e)'
      BY <1>1 DEF Inv, PullsAreFromServer
    <3>1. sync'[e] = sync[e]
      BY <2>3, <2>5
    <3> QED BY <1>1, <3>1 DEF Inv, PullsAreFromServer, PulledFromServer, Known
  <2>11. StoreIsAhead' /\ AlwaysUploadedOrSkipped'
    BY <1>1, <2>4, RecordsUntouched
  <2> QED BY <1>4, <2>7, <2>8, <2>9, <2>10, <2>11 DEF Inv
<1>6. CASE Unpushed(rows, c) = {}
  <2>1. \A id \in DOMAIN rows : Reached(id, rows[id])
    BY <1>2, <1>6 DEF Unpushed
  <2>2. PICK gone \in SUBSET Ids :
           gone = {id \in outbox[d] : id \notin DOMAIN rows \/ rows[id] # store[d][id]}
    BY <1>3
  <2>3. /\ sync' = [sync EXCEPT ![d] = Pulling(1)]
        /\ outbox' = [outbox EXCEPT ![d] = {}]
        /\ Skip(d, gone, {})
    BY <1>6, <2>2 DEF PushFrom
  <2>4. /\ outbox' \in [Devices -> SUBSET Ids] /\ skipped' \in [Devices -> SUBSET Ids]
        /\ outbox'[d] = {} /\ \A e \in Devices \ {d} : outbox'[e] = outbox[e]
        /\ \A e \in Devices \ {d} : skipped'[e] = skipped[e]
        /\ d \in ByHand => skipped'[d] = skipped[d] \cup gone
    BY <1>3, <2>3 DEF Skip
  <2>5. /\ store' \in [Devices -> Store]
        /\ \A e \in Devices, id \in Ids : store'[e][id] # NoRec =>
             Dated(store'[e][id]) /\ store'[e][id].at <= Clock(e)
        /\ kills' \in 0..MaxKills /\ on' \in [Devices -> BOOLEAN]
        /\ queued' \in [Devices -> Store] /\ shown' \in [Devices -> Store]
    BY <1>1 DEF Inv, Typed, TypeOK, RecordsAreDated
  <2>6. Quiet(Pulling(1)) /\ UNCHANGED <<now, db, undone, late, cursor>> /\ UNCHANGED stray
    BY <1>1, QuietFlushes
  <2>7. Typed' /\ RecordsAreDated' /\ PushedIsHeld' /\ PullsAreFromServer'
    BY <2>3, <2>4, <2>5, <2>6, EndOfFlush
  <2>8. StoreIsAhead'
    BY <1>1, <2>4 DEF Inv, StoreIsAhead, NoNewer
  <2>9. AlwaysUploadedOrSkipped'
    <3> SUFFICES ASSUME NEW e \in ByHand, NEW id \in Ids, store[e][id] # NoRec
                 PROVE  Reached(id, store[e][id]) \/ id \in outbox'[e] \cup skipped'[e]
      BY <1>1 DEF AlwaysUploadedOrSkipped, Reached, Holds
    <3>1. e \in Devices
      BY SyncAssumption
    <3>2. Reached(id, store[e][id]) \/ id \in outbox[e] \cup skipped[e]
      BY DEF Inv, AlwaysUploadedOrSkipped
    <3>3. CASE e # d
      BY <2>4, <3>1, <3>2, <3>3
    <3>4. CASE e = d
      BY <2>1, <2>2, <2>4, <3>2, <3>4
    <3> QED BY <3>3, <3>4
  <2> QED BY <1>4, <2>7, <2>8, <2>9 DEF Inv
<1> QED BY <1>5, <1>6

(* A flush starts with the rows of all keys in the outbox.                 *)
LEMMA StartFlushInv ==
    ASSUME Inv, NEW d \in Devices, StartFlush(d)
    PROVE  Inv'
<1>1. outbox[d] \subseteq Ids /\ \A id \in outbox[d] : store[d][id] # NoRec
  BY DEF Inv, Typed, TypeOK, StoreIsAhead
<1>2. \A id \in outbox[d] : store[d][id] \in Record /\ Dated(store[d][id])
  BY <1>1, DeviceFacts
<1>3. PICK rows \in Rows :
         /\ rows = Sub(store[d], outbox[d]) /\ DOMAIN rows = outbox[d]
         /\ \A id \in outbox[d] : rows[id] = store[d][id]
  BY <1>1, <1>2, RowsFacts
<1>4. /\ WrittenBy(rows, now)
      /\ \A id \in DOMAIN rows : ~(Coll[id] < 1)
  BY <1>1, <1>2, <1>3, SyncAssumption DEF WrittenBy, Dated, Inv, Typed, TypeOK
<1>5. /\ PushFrom(d, rows, 1)
      /\ UNCHANGED <<now, kills, on, serverVars, store, cursor, queued, shown>>
  BY <1>3 DEF StartFlush
<1> QED BY <1>4, <1>5, PushFromInv

(* It goes on when a push is answered.                                     *)
LEMMA PushAnsweredInv ==
    ASSUME Inv, NEW d \in Devices, PushAnswered(d)
    PROVE  Inv'
<1>1. /\ sync[d].rows \in Rows /\ sync[d].coll \in Nat /\ 1 <= sync[d].coll
      /\ sync[d].coll + 1 \in Nat /\ 1 <= sync[d].coll + 1
  BY FlushFacts DEF Colls
<1>4. WrittenBy(sync[d].rows, now)
  BY FlushFacts, SyncAssumption DEF WrittenBy, Dated, Inv, Typed, TypeOK
<1>2. \A id \in DOMAIN sync[d].rows :
         Coll[id] < sync[d].coll + 1 => Reached(id, sync[d].rows[id])
  <2>1. \A id \in DOMAIN sync[d].rows :
          Coll[id] \in Nat /\ (Coll[id] < sync[d].coll + 1 => Coll[id] <= sync[d].coll)
    BY <1>1, FlushFacts, SyncAssumption
  <2> QED BY <2>1 DEF PushAnswered, Inv, PushedIsHeld, PushedSoFar
<1>3. /\ PushFrom(d, sync[d].rows, sync[d].coll + 1)
      /\ UNCHANGED <<now, kills, on, serverVars, store, cursor, queued, shown>>
  BY DEF PushAnswered
<1> QED BY <1>1, <1>2, <1>3, <1>4, PushFromInv

(* The server answers a pull from what it holds.                           *)
LEMMA HandlePullInv ==
    ASSUME Inv, NEW d \in Devices, HandlePull(d)
    PROVE  Inv'
<1>1. PICK c \in Colls : c = sync[d].coll
  BY FlushFacts
<1>2. PICK ids \in SUBSET Ids :
         ids = {id \in ChangedSince(db, cursor[d][c], now) : Coll[id] = c}
  <2>1. ChangedSince(db, cursor[d][c], now) \subseteq Ids
    BY DEF ChangedSince, Inv, Typed, TypeOK, Store
  <2> QED BY <2>1
<1>3. \A id \in ids : /\ Coll[id] = c /\ db[id] # NoRec /\ db[id] \in Record
                      /\ StampOf(db[id], now) > cursor[d][c]
  BY <1>2, HeldFacts DEF ChangedSince
<1>4. \A id \in Ids : db[id] # NoRec => StampOf(db[id], now) = db[id].at
  BY HeldFacts DEF StampOf, RawStampOf, ClampStamp
<1>5. PICK rows \in Rows :
         rows = Sub(db, ids) /\ DOMAIN rows = ids /\ \A id \in ids : rows[id] = db[id]
  BY <1>3, RowsFacts
<1>6. PICK f : f = [sync[d] EXCEPT !.pc = "pulled", !.rows = rows, !.time = now]
  OBVIOUS
<1>7. /\ f \in Flush
      /\ f.pc = "pulled" /\ f.coll = c /\ f.time = now
      /\ DOMAIN f.rows = ids /\ \A id \in ids : f.rows[id] = db[id]
  <2>1. sync[d] \in Flush /\ sync[d].coll = c
    BY <1>1, FlushFacts
  <2>2. now \in Nat /\ "pulled" \in Phases
    BY SyncAssumption DEF Phases, Inv, Typed, TypeOK
  <2> QED BY <1>5, <1>6, <2>1, <2>2 DEF Flush
<1>8. sync' = [sync EXCEPT ![d] = f]
  <2>1. sync' = [sync EXCEPT ![d].pc = "pulled", ![d].rows = rows, ![d].time = now]
    BY <1>1, <1>2, <1>5 DEF HandlePull
  <2> QED BY <1>6, <2>1 DEF Inv, Typed
<1>9. UNCHANGED <<now, kills, on, db, undone, late, stray, store, outVars, outbox, skipped, cursor, queued, shown>>
  BY DEF HandlePull, serverVars, dbVars, outVars
<1>10. /\ sync' \in [Devices -> Flush] /\ sync'[d] = f
       /\ \A e \in Devices \ {d} : sync'[e] = sync[e]
  BY <1>7, <1>8 DEF Inv, Typed
<1>11. \A e \in Devices :
          /\ sync'[e].pc \in Phases /\ sync'[e].coll \in Colls
          /\ sync'[e].time \in Nat /\ DOMAIN sync'[e].rows \subseteq Ids
          /\ \A id \in DOMAIN sync'[e].rows :
               sync'[e].rows[id] \in Record /\ Dated(sync'[e].rows[id])
          /\ sync'[e].pc = "push" => WrittenBy(sync'[e].rows, sync'[e].time)
  <2> TAKE e \in Devices
  <2>1. CASE e = d
    BY <1>3, <1>7, <1>10, <2>1, HeldFacts DEF Flush
  <2>2. CASE e # d
    BY <1>10, <2>2, FlushFacts DEF Inv, RecordsAreDated
  <2> QED BY <2>1, <2>2
<1>12. Typed'
  BY <1>9, <1>10, <1>11 DEF Inv, Typed, TypeOK
<1>13. RecordsAreDated'
  BY <1>9, <1>11 DEF Inv, RecordsAreDated, WrittenBy, Dated, Clock
<1>14. PushedIsHeld'
  <2> SUFFICES ASSUME NEW e \in Devices, NEW id \in PushedSoFar(e)'
               PROVE  Reached(id, sync'[e].rows[id])
    BY <1>9 DEF PushedIsHeld, Reached, Holds
  <2>1. e # d
    BY <1>7, <1>10 DEF PushedSoFar
  <2> QED BY <1>10, <2>1 DEF Inv, PushedIsHeld, PushedSoFar
<1>15. PullsAreFromServer'
  <2> SUFFICES ASSUME NEW e \in Devices, sync'[e].pc = "pulled"
               PROVE  PulledFromServer(e)'
    BY <1>9 DEF Inv, PullsAreFromServer
  <2>1. CASE e # d
    BY <1>9, <1>10, <2>1 DEF Inv, PullsAreFromServer, PulledFromServer, Known
  <2>2. CASE e = d
    <3>1. cursor[d][c] <= now /\ now <= now /\ now \in Nat /\ cursor[d][c] \in Nat
      BY <1>1, SyncAssumption DEF Inv, PullsAreFromServer, Typed, TypeOK
    <3>2. ASSUME NEW id \in ids
          PROVE  Coll[id] = c /\ cursor[d][c] < f.rows[id].at /\ Known(id, f.rows[id].at)
      BY <1>3, <1>4, <1>7, <3>1, HeldFacts DEF Known
    <3>3. ASSUME NEW id \in Ids, Coll[id] = c, db[id] # NoRec, db[id].at <= now
          PROVE  db[id].at <= cursor[d][c] \/ (id \in ids /\ f.rows[id].at = db[id].at)
      <4>1. db[id].at \in Nat /\ StampOf(db[id], now) = db[id].at
        BY <1>4, <3>3, HeldFacts
      <4>2. db[id].at > cursor[d][c] => id \in ids
        BY <1>2, <3>3, <4>1 DEF ChangedSince, Inv, Typed, TypeOK, Store
      <4> QED BY <1>7, <3>1, <4>1, <4>2
    <3> QED BY <1>7, <1>9, <1>10, <2>2, <3>1, <3>2, <3>3 DEF PulledFromServer, Known
  <2> QED BY <2>1, <2>2
<1>16. StoreIsAhead' /\ AlwaysUploadedOrSkipped' /\ PullMissesOnlyLateArrivals'
  BY <1>9, RecordsUntouched
<1> QED BY <1>12, <1>13, <1>14, <1>15, <1>16 DEF Inv

(* What is newer than the rendered copies is stored, and the cursor moves  *)
(* to the time of the answer.                                              *)
LEMMA PullAnsweredInv ==
    ASSUME Inv, NEW d \in Devices, PullAnswered(d)
    PROVE  Inv'
<1>1. PICK c \in Colls, rows \in Rows, t \in Nat :
         /\ c = sync[d].coll /\ rows = sync[d].rows /\ t = sync[d].time
         /\ \A id \in DOMAIN rows : id \in Ids /\ rows[id] \in Record /\ Dated(rows[id])
  BY FlushFacts
<1>2. PICK newer \in SUBSET Ids : newer = Newer(d, rows)
  BY <1>1 DEF Newer
<1>3. /\ store' = [store EXCEPT ![d] = Overlay(@, rows, newer)]
      /\ queued' = [queued EXCEPT ![d] =
                       IF newer = {} THEN @ ELSE Overlay(shown[d], rows, newer)]
      /\ cursor' = [cursor EXCEPT ![d][c] = t]
      /\ sync' = [sync EXCEPT ![d] = AfterPull(c)]
      /\ UNCHANGED <<now, kills, on, db, undone, late, stray, outbox, skipped, shown>>
  BY <1>1, <1>2 DEF PullAnswered, serverVars, dbVars, outVars
<1>4. /\ cursor[d][c] <= t /\ t <= now
      /\ \A id \in DOMAIN rows :
           Coll[id] = c /\ cursor[d][c] < rows[id].at /\ Known(id, rows[id].at)
      /\ \A id \in Ids :
           Coll[id] = c /\ db[id] # NoRec /\ db[id].at <= t =>
               \/ id \in late[d]
               \/ db[id].at <= cursor[d][c]
               \/ id \in DOMAIN rows /\ rows[id].at = db[id].at
  BY <1>1 DEF PullAnswered, Inv, PullsAreFromServer, PulledFromServer
<1>5. /\ store \in [Devices -> Store] /\ shown \in [Devices -> Store]
      /\ queued \in [Devices -> Store]
      /\ cursor \in [Devices -> [Colls -> Nat]]
  BY DEF Inv, Typed, TypeOK
<1>6. /\ newer \subseteq DOMAIN rows
      /\ \A id \in newer : rows[id] \in Record /\ rows[id] # NoRec
  BY <1>1, <1>2, RecordFacts DEF Newer
\* No stamp that is compared is ahead of the device's clock.
<1>7. ASSUME NEW id \in DOMAIN rows
      PROVE  /\ rows[id].at \in Nat /\ rows[id].at <= now /\ rows[id].at <= Clock(d)
             /\ Reached(id, rows[id])
  <2>1. id \in Ids /\ rows[id] # NoRec /\ rows[id].at \in Nat /\ rows[id].val.when \in Nat
        /\ rows[id].val.when <= rows[id].at
    BY <1>1, RecordFacts DEF Dated
  <2>2. Known(id, rows[id].at)
    BY <1>4
  <2>3. /\ db[id] # NoRec => db[id].at \in Nat /\ db[id].at <= now
        /\ undone[id] \in Nat /\ undone[id] <= now /\ now \in Nat
    BY <2>1, HeldFacts, SyncAssumption DEF Inv, RecordsAreDated, Typed, TypeOK
  <2>4. Clock(d) \in Nat /\ now <= Clock(d)
    BY <2>1, DeviceFacts
  <2>5. rows[id].at <= now
    BY <2>1, <2>2, <2>3 DEF Known
  <2>6. Reached(id, rows[id])
    BY <2>1, <2>2, <2>3 DEF Known, Reached, Holds
  <2> QED BY <2>1, <2>3, <2>4, <2>5, <2>6
<1>8. ASSUME NEW id \in Ids, shown[d][id] # NoRec
      PROVE  /\ shown[d][id].at \in Nat /\ shown[d][id].at <= Clock(d)
             /\ store[d][id] # NoRec /\ shown[d][id].at <= store[d][id].at
             /\ store[d][id].at \in Nat
  <2>1. shown[d][id] \in Record /\ Clock(d) \in Nat
    BY <1>8, DeviceFacts
  <2>2. store[d][id] # NoRec /\ shown[d][id].at <= store[d][id].at
    BY <1>8 DEF Inv, StoreIsAhead, NoNewer
  <2>3. store[d][id].at \in Nat /\ store[d][id].at <= Clock(d)
    BY <2>2, DeviceFacts
  <2> QED BY <2>1, <2>2, <2>3, RecordFacts
<1>9. ASSUME NEW id \in DOMAIN rows
      PROVE  id \in newer <=> shown[d][id] = NoRec \/ rows[id].at > shown[d][id].at
  <2>1. id \in Ids
    BY <1>1
  <2>2. StampOf(rows[id], Clock(d)) = rows[id].at
    BY <1>7 DEF StampOf, RawStampOf, ClampStamp
  <2>3. shown[d][id] # NoRec => StampOf(shown[d][id], Clock(d)) = shown[d][id].at
    BY <1>8, <2>1 DEF StampOf, RawStampOf, ClampStamp
  <2> QED BY <1>2, <2>2, <2>3 DEF Newer
<1>10. /\ store' \in [Devices -> Store] /\ queued' \in [Devices -> Store]
       /\ \A e \in Devices \ {d} : store'[e] = store[e] /\ queued'[e] = queued[e]
       /\ \A id \in Ids : store'[d][id] = IF id \in newer THEN rows[id] ELSE store[d][id]
       /\ \A id \in Ids :
            queued'[d][id] = IF newer = {} THEN queued[d][id]
                             ELSE IF id \in newer THEN rows[id] ELSE shown[d][id]
  <2>1. \A f \in Store :
          /\ Overlay(f, rows, newer) \in Store
          /\ \A id \in Ids :
               Overlay(f, rows, newer)[id] = IF id \in newer THEN rows[id] ELSE f[id]
    BY <1>6 DEF Overlay, Store
  <2>2. PICK s \in Store, q \in Store : s = Overlay(store[d], rows, newer)
                                       /\ q = Overlay(shown[d], rows, newer)
    BY <1>5, <2>1
  <2>3. /\ \A id \in Ids : s[id] = IF id \in newer THEN rows[id] ELSE store[d][id]
        /\ \A id \in Ids : q[id] = IF id \in newer THEN rows[id] ELSE shown[d][id]
    BY <1>5, <2>1, <2>2
  <2>4. /\ store' = [store EXCEPT ![d] = s]
        /\ queued' = [queued EXCEPT ![d] = IF newer = {} THEN queued[d] ELSE q]
    BY <1>3, <2>2
  <2> QED BY <1>5, <2>3, <2>4
<1>11. /\ cursor' \in [Devices -> [Colls -> Nat]]
       /\ \A e \in Devices \ {d} : cursor'[e] = cursor[e]
       /\ cursor'[d][c] = t /\ \A k \in Colls \ {c} : cursor'[d][k] = cursor[d][k]
  BY <1>3, <1>5
<1>12. Typed' /\ RecordsAreDated' /\ PushedIsHeld' /\ PullsAreFromServer'
  <2>1. /\ kills' \in 0..MaxKills /\ on' \in [Devices -> BOOLEAN]
        /\ outbox' \in [Devices -> SUBSET Ids] /\ skipped' \in [Devices -> SUBSET Ids]
        /\ shown' \in [Devices -> Store]
    BY <1>3 DEF Inv, Typed, TypeOK
  <2>2. ASSUME NEW e \in Devices, NEW id \in Ids, store'[e][id] # NoRec
        PROVE  Dated(store'[e][id]) /\ store'[e][id].at <= Clock(e)
    <3>1. CASE e = d /\ id \in newer
      BY <1>1, <1>6, <1>7, <1>10, <3>1
    <3>2. CASE ~(e = d /\ id \in newer)
      BY <1>10, <2>2, <3>2, DeviceFacts
    <3> QED BY <3>1, <3>2
  <2>3. \A k \in Colls : cursor'[d][k] <= now
    BY <1>4, <1>11 DEF Inv, PullsAreFromServer
  <2>4. PICK f : Quiet(f) /\ sync' = [sync EXCEPT ![d] = f]
    BY <1>3, QuietFlushes
  <2>5. UNCHANGED <<now, db, undone, late>> /\ UNCHANGED stray
    BY <1>3
  <2> QED BY <1>10, <1>11, <2>1, <2>2, <2>3, <2>4, <2>5, EndOfFlush
<1>13. StoreIsAhead'
  <2> SUFFICES ASSUME NEW e \in Devices, NEW id \in Ids
               PROVE  /\ NoNewer(shown[e][id], store'[e][id])
                      /\ NoNewer(queued'[e][id], store'[e][id])
                      /\ id \in outbox[e] => store'[e][id] # NoRec
    BY <1>3 DEF StoreIsAhead
  <2>1. /\ NoNewer(shown[e][id], store[e][id]) /\ NoNewer(queued[e][id], store[e][id])
        /\ id \in outbox[e] => store[e][id] # NoRec
    BY DEF Inv, StoreIsAhead
  <2>2. CASE e # d
    BY <1>10, <2>1, <2>2
  <2>3. CASE e = d /\ id \in newer
    <3>1. store'[d][id] = rows[id] /\ queued'[d][id] = rows[id] /\ rows[id] # NoRec
      BY <1>6, <1>10, <2>3
    <3>2. rows[id].at \in Nat /\ (shown[d][id] = NoRec \/ rows[id].at > shown[d][id].at)
      BY <1>6, <1>7, <1>9, <2>3
    <3>3. NoNewer(shown[d][id], rows[id]) /\ NoNewer(rows[id], rows[id])
      BY <1>8, <3>1, <3>2 DEF NoNewer
    <3> QED BY <2>3, <3>1, <3>3
  <2>4. CASE e = d /\ id \notin newer
    BY <1>10, <2>1, <2>4
  <2> QED BY <2>2, <2>3, <2>4
<1>14. AlwaysUploadedOrSkipped'
  <2> SUFFICES ASSUME NEW e \in ByHand, NEW id \in Ids, store'[e][id] # NoRec
               PROVE  Reached(id, store'[e][id]) \/ id \in outbox[e] \cup skipped[e]
    BY <1>3 DEF AlwaysUploadedOrSkipped, Reached, Holds
  <2>1. e \in Devices
    BY SyncAssumption
  <2>2. CASE e = d /\ id \in newer
    BY <1>6, <1>7, <1>10, <2>2
  <2>3. CASE ~(e = d /\ id \in newer)
    BY <1>10, <2>1, <2>3 DEF Inv, AlwaysUploadedOrSkipped
  <2> QED BY <2>2, <2>3
<1>15. PullMissesOnlyLateArrivals'
  <2> SUFFICES ASSUME NEW e \in Devices, NEW id \in Ids,
                      db[id] # NoRec, db[id].at <= cursor'[e][Coll[id]],
                      ~(store'[e][id] # NoRec /\ store'[e][id].at >= db[id].at)
               PROVE  id \in late[e]
    BY <1>3 DEF PullMissesOnlyLateArrivals
  <2>1. Coll[id] \in Colls /\ db[id].at \in Nat
    BY SyncAssumption, HeldFacts DEF Colls
  <2>2. CASE e # d
    BY <1>10, <1>11, <2>2 DEF Inv, PullMissesOnlyLateArrivals
  <2>3. CASE e = d /\ Coll[id] # c
    <3>1. store'[d][id] = store[d][id] /\ cursor'[d][Coll[id]] = cursor[d][Coll[id]]
      BY <1>4, <1>6, <1>10, <1>11, <2>1, <2>3
    <3> QED BY <2>3, <3>1 DEF Inv, PullMissesOnlyLateArrivals
  <2>4. CASE e = d /\ Coll[id] = c
    <3>1. db[id].at <= t
      BY <1>11, <2>4
    <3>2. CASE db[id].at <= cursor[d][c]
      <4>1. id \notin newer
        <5> SUFFICES ASSUME id \in newer PROVE FALSE
          OBVIOUS
        <5>1. /\ cursor[d][c] < rows[id].at
              /\ rows[id].at \in Nat /\ cursor[d][c] \in Nat
          BY <1>4, <1>5, <1>6, <1>7
        <5>2. store'[d][id] = rows[id] /\ rows[id] # NoRec
          BY <1>6, <1>10
        <5>3. rows[id].at >= db[id].at
          BY <2>1, <3>2, <5>1
        <5> QED BY <2>4, <5>2, <5>3
      <4> QED BY <1>10, <2>4, <3>2, <4>1 DEF Inv, PullMissesOnlyLateArrivals
    <3>3. CASE id \in DOMAIN rows /\ rows[id].at = db[id].at
      <4>1. id \notin newer
        BY <1>6, <1>10, <2>1, <2>4, <3>3
      <4>2. shown[d][id] # NoRec /\ ~(rows[id].at > shown[d][id].at)
        BY <1>9, <3>3, <4>1
      <4>3. store[d][id] # NoRec /\ store[d][id].at >= db[id].at
        BY <1>8, <2>1, <3>3, <4>2
      <4> QED BY <1>10, <2>4, <4>1, <4>3
    <3> QED BY <1>4, <2>4, <3>1, <3>2, <3>3
  <2> QED BY <2>2, <2>3, <2>4
<1> QED BY <1>12, <1>13, <1>14, <1>15 DEF Inv

-----------------------------------------------------------------------------
(* Nothing is stored, pushed or pulled at first.                           *)
LEMMA InitInv == Init => Inv
<1> SUFFICES ASSUME Init PROVE Inv
  OBVIOUS
<1>1. /\ NColls \in Nat \ {0} /\ 1 \in Colls /\ MaxTime \in Nat \ {0}
      /\ MaxKills \in Nat /\ MaxStray \in Nat
  BY SyncAssumption DEF Colls
<1>2. Quiet(IdleFlush) /\ DOMAIN NoRows = {} /\ IdleFlush \in Flush
  BY QuietFlushes, RowsFacts DEF Quiet
<1>3. Empty \in Store /\ \A id \in Ids : Empty[id] = NoRec
  BY DEF Empty, Store
<1>4. IsFiniteSet(stray) /\ Cardinality(stray) = 0 /\ stray = {}
  BY FS_EmptySet DEF Init
<1>5. /\ \A d \in Devices : sync[d] = IdleFlush /\ DOMAIN sync[d].rows = {}
      /\ \A d \in Devices : sync[d].pc = "idle"
      /\ sync \in [Devices -> Flush]
  BY <1>2 DEF Init, IdleFlush, Quiet
<1>6. Typed
  <2>1. /\ now \in 0..MaxTime /\ kills \in 0..MaxKills /\ db \in Store
        /\ Cardinality(stray) <= MaxStray /\ undone \in [Ids -> 0..MaxTime]
    BY <1>1, <1>3, <1>4 DEF Init
  <2>2. /\ late \in [Devices -> SUBSET Ids] /\ store \in [Devices -> Store]
        /\ on \in [Devices -> BOOLEAN] /\ outbox \in [Devices -> SUBSET Ids]
        /\ skipped \in [Devices -> SUBSET Ids] /\ cursor \in [Devices -> [Colls -> Nat]]
        /\ queued \in [Devices -> Store] /\ shown \in [Devices -> Store]
    BY <1>3 DEF Init
  <2>3. \A d \in Devices :
          /\ sync[d].pc \in Phases /\ sync[d].coll \in Colls
          /\ sync[d].time \in Nat /\ DOMAIN sync[d].rows \subseteq Ids
          /\ \A id \in DOMAIN sync[d].rows : sync[d].rows[id] \in Record
    BY <1>5 DEF Flush
  <2> QED BY <1>4, <1>5, <2>1, <2>2, <2>3 DEF Typed, TypeOK
<1>7. RecordsAreDated
  BY <1>3, <1>4, <1>5 DEF Init, RecordsAreDated
<1>8. StoreIsAhead
  BY <1>3 DEF Init, StoreIsAhead, NoNewer
<1>9. PushedIsHeld
  BY <1>5 DEF PushedIsHeld, PushedSoFar
<1>10. PullsAreFromServer
  BY <1>5 DEF Init, PullsAreFromServer
<1>11. AlwaysUploadedOrSkipped /\ PullMissesOnlyLateArrivals
  BY <1>3, SyncAssumption DEF Init, AlwaysUploadedOrSkipped, PullMissesOnlyLateArrivals
<1> QED BY <1>6, <1>7, <1>8, <1>9, <1>10, <1>11 DEF Inv

(* Every step keeps it.                                                    *)
LEMMA StepInv == Inv /\ [Next]_vars => Inv'
<1> SUFFICES ASSUME Inv, [Next]_vars PROVE Inv'
  OBVIOUS
<1>1. CASE Tick
  BY <1>1, TickInv
<1>2. ASSUME NEW d \in Devices, NEW id \in Ids, Write(d, id) \/ DieWhileSaving(d, id)
      PROVE  Inv'
  BY <1>2, WriteInv, DieWhileSavingInv
<1>3. ASSUME NEW d \in Devices, NEW closed \in Ids, NEW opened \in Ids,
             SwitchMachine(d, closed, opened)
      PROVE  Inv'
  BY <1>3, SwitchMachineInv
<1>4. ASSUME NEW d \in Devices, Render(d) \/ Reload(d) \/ EnableSync(d) \/ DisableSync(d)
      PROVE  Inv'
  BY <1>4, SettingsInv, ReloadInv
<1>5. ASSUME NEW d \in Devices, FlushStep(d) \/ PushFails(d) \/ PullFails(d)
      PROVE  Inv'
  BY <1>5, StartFlushInv, HandlePushInv, PushAnsweredInv, HandlePullInv, PullAnsweredInv,
     FailureInv DEF FlushStep
<1>6. ASSUME NEW push \in stray, HandleStray(push) \/ LoseStray(push)
      PROVE  Inv'
  BY <1>6, StrayInv
<1>7. CASE UNCHANGED vars
  <2>1. UNCHANGED <<now, db, undone, late, stray, on, store, outbox, skipped, cursor, queued, shown, sync, kills>>
    BY <1>7 DEF vars
  <2>2. Typed' /\ RecordsAreDated' /\ StoreIsAhead'
    BY <2>1 DEF Inv, Typed, TypeOK, RecordsAreDated, WrittenBy, Dated, Clock, StoreIsAhead
  <2>3. PushedIsHeld' /\ PullsAreFromServer'
    BY <2>1, FlushUntouched
  <2>4. AlwaysUploadedOrSkipped' /\ PullMissesOnlyLateArrivals'
    BY <2>1 DEF Inv, AlwaysUploadedOrSkipped, PullMissesOnlyLateArrivals, Reached, Holds
  <2> QED BY <2>2, <2>3, <2>4 DEF Inv
<1> QED BY <1>1, <1>2, <1>3, <1>4, <1>5, <1>6, <1>7 DEF Next

(* The inductive invariant, for any devices, records and collections.      *)
THEOREM Invariance == Spec => []Inv
<1>1. Init => Inv
  BY InitInv
<1>2. Inv /\ [Next]_vars => Inv'
  BY StepInv
<1> QED BY <1>1, <1>2, PTL DEF Spec

(* Every variable has its type, with finitely many pushes under way.       *)
THEOREM TypeCorrect == Spec => []TypeOK
<1>1. Inv => TypeOK
  BY DEF Inv, Typed
<1> QED BY <1>1, Invariance, PTL

(* What a device stores is on the server, in its outbox, or among the keys *)
(* that one of the four named ways dropped (_enqueue, seedOutboxWithAll).  *)
THEOREM UploadedOrSkippedHolds == Spec => []UploadedOrSkipped
<1>1. Inv => UploadedOrSkipped
  BY DEF Inv, AlwaysUploadedOrSkipped, UploadedOrSkipped
<1> QED BY <1>1, Invariance, PTL

(* The cursor excludes only records that came too late for it, however     *)
(* pulls fail, pages reload and renderings lag (applyRemoteStops & co.).   *)
THEOREM NothingElseIsMissed == Spec => []PullMissesOnlyLateArrivals
<1>1. Inv => PullMissesOnlyLateArrivals
  BY DEF Inv
<1> QED BY <1>1, Invariance, PTL

\* What a push that is handled makes of a record of the server.
NoOlderOrSlow(id, push) ==
    db[id] # NoRec =>
        /\ db'[id] # NoRec
        /\ db'[id].at < db[id].at =>
              /\ id \in DOMAIN push.rows /\ db'[id].val = push.rows[id].val
              /\ push.sent <= db'[id].at /\ db'[id].at <= push.rows[id].at

(* A push handled at any clock since it was sent takes a record back only to *)
(* its own row, stamped no earlier than it was sent.                         *)
LEMMA HandleIsSlow ==
    ASSUME Inv, NEW push \in Pushes, WrittenBy(push.rows, push.sent), Handle(push),
           NEW id \in Ids
    PROVE  NoOlderOrSlow(id, push)
<1> SUFFICES ASSUME db[id] # NoRec PROVE NoOlderOrSlow(id, push)
  BY DEF NoOlderOrSlow
<1>1. PICK t \in Nat, rows \in Rows :
         rows = push.rows /\ push.sent <= t /\ WrittenBy(rows, t) /\ Receive(rows, t)
  BY HandleFacts DEF Pushes
<1>2. /\ db'[id] # NoRec
      /\ \/ db'[id].at >= db[id].at
         \/ /\ id \in DOMAIN rows /\ db'[id].val = rows[id].val
            /\ db'[id].at = t /\ t <= rows[id].at
      /\ db'[id].at \in Nat /\ db[id].at \in Nat
  BY <1>1, ReceiveFacts, HeldFacts
<1> QED BY <1>1, <1>2 DEF NoOlderOrSlow

(* A push, repeated, slow or given up on, takes a record back only to a    *)
(* moment since it was sent, and only with a record stamped no earlier     *)
(* than that moment (upsert, with the clock of server.js:305).             *)
THEOREM SlowPushesUndoOnlyLater == Spec => SlowPushUndoesOnlyLater
<1>1. ASSUME Inv, [Next]_vars, NEW id \in Ids, db[id] # NoRec
      PROVE  /\ db'[id] # NoRec
             /\ db'[id].at < db[id].at =>
                   \E push \in PushesUnderWay :
                       /\ id \in DOMAIN push.rows
                       /\ db'[id].val = push.rows[id].val
                       /\ push.sent <= db'[id].at
                       /\ db'[id].at <= push.rows[id].at
  <2>1. CASE UNCHANGED db
    <3>1. db[id].at \in Nat
      BY <1>1, HeldFacts
    <3> QED BY <1>1, <2>1, <3>1
  <2>2. ASSUME NEW d \in Devices, HandlePush(d)
        PROVE  \E push \in PushesUnderWay : NoOlderOrSlow(id, push)
    <3>1. /\ PushOf(d) \in Pushes /\ WrittenBy(PushOf(d).rows, PushOf(d).sent)
          /\ Handle(PushOf(d)) /\ PushOf(d) \in PushesUnderWay
      BY <1>1, <2>2, PushOfFacts DEF HandlePush, PushesUnderWay
    <3> QED BY <1>1, <3>1, HandleIsSlow
  <2>3. ASSUME NEW push \in stray, HandleStray(push)
        PROVE  \E p \in PushesUnderWay : NoOlderOrSlow(id, p)
    <3>1. /\ push \in Pushes /\ WrittenBy(push.rows, push.sent) /\ Handle(push)
          /\ push \in PushesUnderWay
      BY <1>1, <2>3 DEF HandleStray, PushesUnderWay, Inv, Typed, RecordsAreDated
    <3> QED BY <1>1, <3>1, HandleIsSlow
  <2>4. \/ UNCHANGED db
        \/ \E d \in Devices : HandlePush(d)
        \/ \E push \in stray : HandleStray(push)
    BY <1>1 DEF Next, vars, Tick, Write, DieWhileSaving, SwitchMachine, Render, Reload,
       EnableSync, DisableSync, FlushStep, StartFlush, PushAnswered, HandlePull,
       PullAnswered, PushFails, PullFails, LoseStray, serverVars, dbVars
  <2> QED BY <1>1, <2>1, <2>2, <2>3, <2>4 DEF NoOlderOrSlow
<1>2. Inv /\ [Next]_vars =>
        [\A id \in Ids : db[id] # NoRec =>
            /\ db'[id] # NoRec
            /\ db'[id].at < db[id].at =>
                  \E push \in PushesUnderWay :
                      /\ id \in DOMAIN push.rows
                      /\ db'[id].val = push.rows[id].val
                      /\ push.sent <= db'[id].at
                      /\ db'[id].at <= push.rows[id].at]_vars
  BY <1>1
<1> QED BY <1>2, Invariance, PTL DEF Spec, SlowPushUndoesOnlyLater

\* What a step takes out of an outbox while a push under way covers it is held.
ForgetsOnlyPushed ==
    \A d \in Devices : \A id \in outbox[d] \ outbox'[d] :
        id \in DOMAIN sync[d].rows => Reached(id, sync[d].rows[id])

(* A key leaves the outbox only after the push that carried it (flush).    *)
THEOREM PushedBeforeForgottenHolds == Spec => PushedBeforeForgotten
<1>1. ASSUME Inv, [Next]_vars
      PROVE  ForgetsOnlyPushed
  <2>1. outbox \in [Devices -> SUBSET Ids]
    BY <1>1 DEF Inv, Typed, TypeOK
  <2>2. CASE UNCHANGED outbox
    BY <2>2 DEF ForgetsOnlyPushed
  <2>3. ASSUME NEW d \in Devices, NEW id \in Ids, Enqueue(d, id)
        PROVE  ForgetsOnlyPushed
    BY <2>1, <2>3 DEF Enqueue, ForgetsOnlyPushed
  <2>4. ASSUME NEW d \in Devices, NEW closed \in Ids, NEW opened \in Ids,
               SwitchMachine(d, closed, opened)
        PROVE  ForgetsOnlyPushed
    BY <2>1, <2>4 DEF SwitchMachine, ForgetsOnlyPushed
  <2>5. ASSUME NEW d \in Devices, EnableSync(d)
        PROVE  ForgetsOnlyPushed
    <3>1. outbox' = outbox
          \/ outbox' = [outbox EXCEPT ![d] = {id \in Ids : store[d][id] # NoRec}]
      BY <2>5 DEF EnableSync, outVars
    <3>2. \A id \in outbox[d] : id \in Ids /\ store[d][id] # NoRec
      BY <1>1, <2>1 DEF Inv, StoreIsAhead
    <3> QED BY <2>1, <3>1, <3>2 DEF ForgetsOnlyPushed
  <2>6. ASSUME NEW d \in Devices, StartFlush(d)
        PROVE  ForgetsOnlyPushed
    <3>1. /\ outbox[d] \subseteq Ids /\ DOMAIN Sub(store[d], outbox[d]) = outbox[d]
      BY <2>1 DEF Sub
    <3>2. \A id \in outbox[d] : Coll[id] \in 1..NColls
      BY <3>1, SyncAssumption
    <3>3. UNCHANGED outbox \/ outbox[d] = {}
      BY <2>6, <3>1, <3>2 DEF StartFlush, PushFrom, Unpushed, outVars
    <3>4. \A e \in Devices \ {d} : outbox'[e] = outbox[e]
      BY <2>1, <2>6 DEF StartFlush, PushFrom, outVars
    <3> QED BY <3>3, <3>4 DEF ForgetsOnlyPushed
  <2>7. ASSUME NEW d \in Devices, PushAnswered(d)
        PROVE  ForgetsOnlyPushed
    <3>1. \A e \in Devices \ {d} : outbox'[e] = outbox[e]
      BY <2>1, <2>7 DEF PushAnswered, PushFrom, outVars
    <3>2. UNCHANGED outbox \/ Unpushed(sync[d].rows, sync[d].coll + 1) = {}
      BY <2>7 DEF PushAnswered, PushFrom, outVars
    <3>3. ASSUME Unpushed(sync[d].rows, sync[d].coll + 1) = {}, NEW id \in DOMAIN sync[d].rows
          PROVE  Reached(id, sync[d].rows[id])
      <4>1. id \in Ids /\ Coll[id] \in 1..NColls /\ sync[d].coll \in 1..NColls /\ NColls \in Nat
        BY <1>1, FlushFacts, SyncAssumption DEF Colls
      <4>2. Coll[id] \notin (sync[d].coll + 1)..NColls
        BY <3>3 DEF Unpushed
      <4>3. Coll[id] <= sync[d].coll
        BY <4>1, <4>2
      <4> QED BY <1>1, <2>7, <4>3 DEF PushAnswered, Inv, PushedIsHeld, PushedSoFar
    <3> QED BY <3>1, <3>2, <3>3 DEF ForgetsOnlyPushed
  <2>8. \/ UNCHANGED outbox
        \/ \E d \in Devices, id \in Ids : Enqueue(d, id)
        \/ \E d \in Devices, closed, opened \in Ids : SwitchMachine(d, closed, opened)
        \/ \E d \in Devices : EnableSync(d) \/ StartFlush(d) \/ PushAnswered(d)
    BY <1>1 DEF Next, vars, Tick, Write, DieWhileSaving, Render, Reload,
       DisableSync, FlushStep, HandlePush, HandlePull, HandleStray,
       PullAnswered, PushFails, PullFails, LoseStray, outVars, deviceVars, dbVars
  <2> QED BY <2>2, <2>3, <2>4, <2>5, <2>6, <2>7, <2>8
<1>2. Inv /\ [Next]_vars =>
        [\A d \in Devices : \A id \in outbox[d] \ outbox'[d] :
            id \in DOMAIN sync[d].rows => Reached(id, sync[d].rows[id])]_vars
  BY <1>1 DEF ForgetsOnlyPushed
<1> QED BY <1>2, Invariance, PTL DEF Spec, PushedBeforeForgotten
=============================================================================
