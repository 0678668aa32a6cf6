-------------------------- MODULE SyncServerProofs --------------------------
(***************************************************************************)
(* Theorems about the sync server, for every set of ids, every content,    *)
(* every number of overlapping requests and every bound.                   *)
(***************************************************************************)
EXTENDS SyncServer, TLAPS

-----------------------------------------------------------------------------
(* The last-write-wins rule. *)

(* Lowering a stamp to the clock yields a stamp of the clock or before it. *)
LEMMA ClampFacts ==
    ASSUME NEW s \in Nat, NEW t \in Nat
    PROVE  /\ ClampStamp(s, t) \in Nat
           /\ ClampStamp(s, t) <= t
           /\ ClampStamp(s, t) <= s
           /\ s <= t => ClampStamp(s, t) = s
BY DEF ClampStamp

(* What normalizeStamp returns is a record no newer than the clock, with   *)
(* the content it was given.                                               *)
LEMMA NormalizeFacts ==
    ASSUME NEW r \in Record, NEW t \in Nat
    PROVE  /\ NormalizeStamp(r, t) \in Record
           /\ NormalizeStamp(r, t).at = ClampStamp(r.at, t)
           /\ NormalizeStamp(r, t).val = r.val
BY ClampFacts DEF NormalizeStamp, Record

(* What an upsert leaves under an id: never nothing, never a stamp ahead   *)
(* of both clocks, and either the stored record, a record at least as new, *)
(* or one pinned to the clock the handler captured.                        *)
LEMMA UpsertFacts ==
    ASSUME NEW cur \in Record \cup {NoRec}, NEW inc \in Record,
           NEW t \in Nat, NEW n \in Nat, t <= n,
           cur # NoRec => cur.at <= n
    PROVE  /\ Upsert(cur, inc, t) \in Record
           /\ Upsert(cur, inc, t).at <= n
           /\ cur # NoRec => \/ Upsert(cur, inc, t).at >= cur.at
                             \/ Upsert(cur, inc, t).at = t
<1> DEFINE new == NormalizeStamp(inc, t)
<1>1. new \in Record /\ new.at <= n /\ new.at <= t
  BY NormalizeFacts, ClampFacts DEF Record
<1>2. CASE Accepts(cur, inc, t)
  <2>1. Upsert(cur, inc, t) = new
    BY <1>2 DEF Upsert
  <2>2. ASSUME cur # NoRec
        PROVE  new.at >= cur.at \/ new.at = t
    <3>1. ClampStamp(inc.at, t) >= ClampStamp(cur.at, t)
      BY <1>2, <2>2 DEF Accepts, StampOf, RawStampOf
    <3>2. new.at = ClampStamp(inc.at, t)
      BY NormalizeFacts
    <3>3. inc.at \in Nat /\ cur.at \in Nat
      BY <2>2 DEF Record
    <3>4. QED
      BY <3>1, <3>2, <3>3 DEF ClampStamp
  <2>3. QED
    BY <1>1, <2>1, <2>2
<1>3. CASE ~Accepts(cur, inc, t)
  <2>1. Upsert(cur, inc, t) = cur /\ cur # NoRec
    BY <1>3 DEF Upsert, Accepts
  <2>2. cur.at \in Nat
    BY <2>1 DEF Record
  <2>3. QED
    BY <2>1, <2>2
<1>4. QED
  BY <1>2, <1>3

-----------------------------------------------------------------------------
(* Types. *)

(* Whatever a device sends is a record: its stamp is a natural number. *)
LEMMA SentIsRecord == Sent \subseteq Record
BY ServerAssumption DEF Sent, Record

(* A POST body names ids of the model and carries records. *)
LEMMA BatchFacts ==
    ASSUME NEW batch \in Batches
    PROVE  /\ DOMAIN batch \subseteq Ids
           /\ \A id \in DOMAIN batch : batch[id] \in Record
BY SentIsRecord DEF Batches

(* The empty database and config a server starts with are well typed. *)
LEMMA EmptyFacts ==
    /\ emptyCollections \in Store
    /\ emptyConfig \in Record
    /\ emptyConfig.at = 0
BY ServerAssumption DEF emptyCollections, emptyConfig, Store, Record

(* Loading a data file yields records, none ahead of the clock. *)
LEMMA RepairFacts ==
    ASSUME NEW recs \in Store, NEW t \in Nat
    PROVE  /\ Repair(recs, t) \in Store
           /\ \A id \in Ids :
                /\ Repair(recs, t)[id] # NoRec => Repair(recs, t)[id].at <= t
                /\ Repair(recs, t)[id] =
                      IF recs[id] = NoRec THEN NoRec
                                          ELSE NormalizeStamp(recs[id], t)
<1>1. ASSUME NEW id \in Ids, recs[id] # NoRec
      PROVE  /\ NormalizeStamp(recs[id], t) \in Record
             /\ NormalizeStamp(recs[id], t).at <= t
  <2>1. recs[id] \in Record
    BY <1>1 DEF Store
  <2>2. recs[id].at \in Nat
    BY <2>1 DEF Record
  <2>3. /\ NormalizeStamp(recs[id], t) \in Record
        /\ NormalizeStamp(recs[id], t).at = ClampStamp(recs[id].at, t)
    BY <2>1, NormalizeFacts
  <2>4. ClampStamp(recs[id].at, t) <= t
    BY <2>2, ClampFacts
  <2>5. QED
    BY <2>3, <2>4
<1>2. QED
  BY <1>1 DEF Repair, Store

(* A batch of upserts keeps the store typed and behind the clock, loses  *)
(* no record, and lowers a stamp only to the clock the handler captured.  *)
LEMMA UpsertAllFacts ==
    ASSUME NEW s \in Store, NEW batch \in Batches,
           NEW t \in Nat, NEW n \in Nat, t <= n,
           \A id \in Ids : s[id] # NoRec => s[id].at <= n
    PROVE  /\ UpsertAll(s, batch, t) \in Store
           /\ \A id \in Ids :
                LET new == UpsertAll(s, batch, t)[id] IN
                /\ new # NoRec => new.at <= n
                /\ s[id] # NoRec =>
                      new # NoRec /\ (new.at >= s[id].at \/ new.at = t)
<1> DEFINE new(id) == UpsertAll(s, batch, t)[id]
<1>1. DOMAIN s = Ids
  BY DEF Store
<1>2. ASSUME NEW id \in Ids
      PROVE  /\ new(id) \in Record \cup {NoRec}
             /\ new(id) # NoRec => new(id).at <= n
             /\ s[id] # NoRec =>
                   new(id) # NoRec /\ (new(id).at >= s[id].at \/ new(id).at = t)
  <2>1. s[id] \in Record \cup {NoRec}
    BY DEF Store
  <2>2. CASE id \in DOMAIN batch
    <3>1. new(id) = Upsert(s[id], batch[id], t)
      BY <1>1, <2>2 DEF UpsertAll
    <3>2. batch[id] \in Record
      BY <2>2, BatchFacts
    <3>3. /\ Upsert(s[id], batch[id], t) \in Record
          /\ Upsert(s[id], batch[id], t).at <= n
          /\ s[id] # NoRec => \/ Upsert(s[id], batch[id], t).at >= s[id].at
                              \/ Upsert(s[id], batch[id], t).at = t
      BY <2>1, <3>2, UpsertFacts
    <3>4. QED
      BY <3>1, <3>3, NoRecAssumption
  <2>3. CASE id \notin DOMAIN batch
    <3>1. new(id) = s[id]
      BY <1>1, <2>3 DEF UpsertAll
    <3>2. s[id] # NoRec => s[id].at >= s[id].at
      BY <2>1 DEF Record
    <3>3. QED
      BY <2>1, <3>1, <3>2
  <2>4. QED
    BY <2>2, <2>3
<1>3. UpsertAll(s, batch, t) = [id \in Ids |-> new(id)]
  BY <1>1 DEF UpsertAll
<1>4. QED
  BY <1>2, <1>3 DEF Store

-----------------------------------------------------------------------------
(* The invariant, one lemma per action that can disturb it. *)

(* The invariant holds before the first start. *)
LEMMA InitInv == Init => Inv
<1> SUFFICES ASSUME Init PROVE Inv
  OBVIOUS
<1>1. SentStore \subseteq Store
  BY SentIsRecord DEF SentStore, Store
<1>2. TypeOK
  BY <1>1, SentIsRecord, EmptyFacts DEF Init, TypeOK, Image
<1>3. NoFutureStamp
  BY EmptyFacts DEF Init, NoFutureStamp, emptyCollections
<1>4. QED
  BY <1>2, <1>3 DEF Init, Inv, ClocksInOrder, UnsavedIsScheduled

(* It survives the passing of time. *)
LEMMA TickInv ==
    ASSUME Inv, Tick
    PROVE  Inv'
<1> USE DEF Inv, Tick
<1>1. now \in Nat /\ now' \in Nat /\ now' > now
  BY DEF TypeOK
<1>2. TypeOK'
  BY <1>1 DEF TypeOK
<1>3. NoFutureStamp'
  <2>1. ASSUME NEW id \in Ids, db[id] # NoRec
        PROVE  db[id].at \in Nat
    BY <2>1 DEF TypeOK, Store, Record
  <2>2. config.at \in Nat
    BY DEF TypeOK, Record
  <2>3. QED
    BY <1>1, <2>1, <2>2 DEF NoFutureStamp
<1>4. ClocksInOrder'
  <2>1. ASSUME NEW q \in Reqs, reqs[q] # Idle
        PROVE  reqs[q] \in Nat
    BY <2>1 DEF TypeOK
  <2>2. QED
    BY <1>1, <2>1 DEF ClocksInOrder, TypeOK
<1>5. UnsavedIsScheduled'
  BY DEF UnsavedIsScheduled, Synced, Loaded
<1>6. QED
  BY <1>2, <1>3, <1>4, <1>5

(* A start repairs what the data file holds, and serves it. *)
LEMMA BootInv ==
    ASSUME Inv, Boot
    PROVE  Inv'
<1> USE DEF Inv, Boot
<1>1. now \in Nat
  BY DEF TypeOK
<1>2. CASE disk = NoFile
  <2>1. db' = emptyCollections /\ config' = emptyConfig
    BY <1>2
  <2>2. TypeOK' /\ NoFutureStamp'
    <3>1. TypeOK'
      BY <2>1, EmptyFacts DEF TypeOK
    <3>2. NoFutureStamp'
      BY <1>1, <2>1, EmptyFacts DEF NoFutureStamp, emptyCollections
    <3>3. QED
      BY <3>1, <3>2
  <2>3. ClocksInOrder'
    BY <1>1 DEF ClocksInOrder
  <2>4. UnsavedIsScheduled'
    BY <1>2, <2>1 DEF UnsavedIsScheduled, Synced, emptyCollections, emptyConfig
  <2>5. QED
    BY <2>2, <2>3, <2>4
<1>3. CASE disk # NoFile
  <2>1. disk.recs \in Store /\ disk.config \in Record
    BY <1>3 DEF TypeOK, Image
  <2>2. db' = Repair(disk.recs, now) /\ config' = NormalizeStamp(disk.config, now)
    BY <1>3
  <2>3. /\ db' \in Store
        /\ \A id \in Ids :
              /\ db'[id] # NoRec => db'[id].at <= now
              /\ db'[id] = IF disk.recs[id] = NoRec THEN NoRec
                           ELSE NormalizeStamp(disk.recs[id], now)
    BY <1>1, <2>1, <2>2, RepairFacts
  <2>4. config' \in Record /\ config'.at <= now
    <3>1. disk.config.at \in Nat
      BY <2>1 DEF Record
    <3>2. /\ config' \in Record
          /\ config'.at = ClampStamp(disk.config.at, now)
      BY <1>1, <2>1, <2>2, NormalizeFacts
    <3>3. ClampStamp(disk.config.at, now) <= now
      BY <1>1, <3>1, ClampFacts
    <3>4. QED
      BY <3>2, <3>3
  <2>5. TypeOK' /\ NoFutureStamp'
    BY <1>1, <2>3, <2>4 DEF TypeOK, NoFutureStamp
  <2>6. ClocksInOrder'
    BY <1>1 DEF ClocksInOrder
  <2>7. Synced'
    <3>1. ASSUME NEW id \in Ids
          PROVE  Loaded(disk.recs[id], db[id])'
      BY <2>3 DEF Loaded
    <3>2. disk.config # NoRec
      BY <2>1, NoRecAssumption
    <3>3. Loaded(disk.config, config)'
      BY <2>2, <3>2 DEF Loaded
    <3>4. QED
      BY <1>3, <3>1, <3>3 DEF Synced
  <2>8. QED
    BY <2>5, <2>6, <2>7 DEF UnsavedIsScheduled
<1>4. QED
  BY <1>2, <1>3

(* POST /stops and its three siblings keep it. *)
LEMMA PostRecordsInv ==
    ASSUME Inv, NEW q \in Reqs, NEW batch \in Batches, PostRecords(q, batch)
    PROVE  Inv'
<1> USE DEF Inv, PostRecords
<1>1. reqs[q] \in Nat /\ now \in Nat /\ reqs[q] <= now
  BY DEF TypeOK, ClocksInOrder
<1>2. db \in Store /\ \A id \in Ids : db[id] # NoRec => db[id].at <= now
  BY DEF TypeOK, NoFutureStamp
<1>3. db' \in Store /\ \A id \in Ids : db'[id] # NoRec => db'[id].at <= now
  BY <1>1, <1>2, UpsertAllFacts
<1>4. TypeOK'
  BY <1>3 DEF TypeOK, Persist
<1>5. NoFutureStamp'
  BY <1>3 DEF NoFutureStamp
<1>6. ClocksInOrder'
  BY DEF ClocksInOrder, TypeOK
<1>7. UnsavedIsScheduled'
  BY DEF UnsavedIsScheduled, Persist
<1>8. QED
  BY <1>4, <1>5, <1>6, <1>7

(* PUT /config keeps it, applied or rejected. *)
LEMMA PutConfigInv ==
    ASSUME Inv, NEW q \in Reqs, NEW body \in Sent, PutConfig(q, body)
    PROVE  Inv'
<1> USE DEF Inv, PutConfig
<1>1. reqs[q] \in Nat /\ now \in Nat /\ reqs[q] <= now
  BY DEF TypeOK, ClocksInOrder
<1>2. config \in Record /\ config.at <= now /\ body \in Record
  BY SentIsRecord DEF TypeOK, NoFutureStamp
<1>3. config' \in Record /\ config'.at <= now
  BY <1>1, <1>2, UpsertFacts
<1>4. TypeOK'
  BY <1>3 DEF TypeOK, Persist
<1>5. NoFutureStamp'
  BY <1>3 DEF NoFutureStamp
<1>6. ClocksInOrder'
  BY DEF ClocksInOrder, TypeOK
<1>7. UnsavedIsScheduled'
  <2>1. CASE Accepts(config, body, reqs[q])
    BY <2>1 DEF UnsavedIsScheduled, Persist
  <2>2. CASE ~Accepts(config, body, reqs[q])
    <3>1. config' = config /\ saveTimer' = saveTimer
      BY <2>2 DEF Upsert
    <3>2. Synced => Synced'
      BY <3>1 DEF Synced, Loaded
    <3>3. QED
      BY <3>1, <3>2 DEF UnsavedIsScheduled
  <2>3. QED
    BY <2>1, <2>2
<1>8. QED
  BY <1>4, <1>5, <1>6, <1>7

(* A save that succeeds makes the file what memory is. *)
LEMMA SaveInv ==
    ASSUME Inv, Save
    PROVE  Inv'
<1> USE DEF Inv, Save
<1>1. disk' \in Image
  BY DEF TypeOK, Image
<1>2. disk' # NoFile
  BY <1>1, ServerAssumption DEF Image, Store
<1>3. Synced'
  BY <1>2 DEF Synced, Loaded
<1>4. QED
  BY <1>1, <1>3 DEF TypeOK, NoFutureStamp, ClocksInOrder, UnsavedIsScheduled

(* The remaining actions touch no record. *)
LEMMA OtherInv ==
    ASSUME Inv,
           \/ Crash
           \/ \E q \in Reqs : Arrive(q)
           \/ \E q \in Reqs : Abort(q)
           \/ Elapse
           \/ SaveFails
           \/ UNCHANGED vars
    PROVE  Inv'
<1> USE DEF Inv
<1>0. now \in Nat
  BY DEF TypeOK
<1>1. CASE Crash
  <2>1. TypeOK'
    BY <1>1, EmptyFacts DEF Crash, TypeOK
  <2>2. NoFutureStamp'
    BY <1>0, <1>1, EmptyFacts DEF Crash, NoFutureStamp, emptyCollections
  <2>3. ClocksInOrder' /\ UnsavedIsScheduled'
    BY <1>1 DEF Crash, ClocksInOrder, UnsavedIsScheduled
  <2>4. QED
    BY <2>1, <2>2, <2>3
<1>2. ASSUME NEW q \in Reqs, Arrive(q)
      PROVE  Inv'
  BY <1>0, <1>2
  DEF Arrive, TypeOK, NoFutureStamp, ClocksInOrder, UnsavedIsScheduled,
      Synced, Loaded
<1>3. ASSUME NEW q \in Reqs, Abort(q)
      PROVE  Inv'
  BY <1>3
  DEF Abort, TypeOK, NoFutureStamp, ClocksInOrder, UnsavedIsScheduled,
      Synced, Loaded
<1>4. CASE SaveFails
  BY <1>4
  DEF SaveFails, TypeOK, NoFutureStamp, ClocksInOrder, UnsavedIsScheduled
<1>5. CASE Elapse
  BY <1>5
  DEF Elapse, TypeOK, NoFutureStamp, ClocksInOrder, UnsavedIsScheduled
<1>6. CASE UNCHANGED vars
  BY <1>6
  DEF vars, TypeOK, NoFutureStamp, ClocksInOrder, UnsavedIsScheduled,
      Synced, Loaded
<1>7. QED
  BY <1>1, <1>2, <1>3, <1>4, <1>5, <1>6

(* The invariant is inductive. *)
LEMMA NextInv == Inv /\ [Next]_vars => Inv'
<1> SUFFICES ASSUME Inv, [Next]_vars PROVE Inv'
  OBVIOUS
<1>1. CASE Tick
  BY <1>1, TickInv
<1>2. CASE Boot
  BY <1>2, BootInv
<1>3. ASSUME NEW q \in Reqs, NEW batch \in Batches, PostRecords(q, batch)
      PROVE  Inv'
  BY <1>3, PostRecordsInv
<1>4. ASSUME NEW q \in Reqs, NEW body \in Sent, PutConfig(q, body)
      PROVE  Inv'
  BY <1>4, PutConfigInv
<1>5. CASE Save
  BY <1>5, SaveInv
<1>6. QED
  BY <1>1, <1>2, <1>3, <1>4, <1>5, OtherInv DEF Next

(* The inductive invariant of the server: types, honest stamps, clocks in *)
(* order, and no forgotten save.                                          *)
THEOREM Invariance == Spec => []Inv
BY InitInv, NextInv, PTL DEF Spec

-----------------------------------------------------------------------------
(* The results. *)

(* The variables of the server keep their types, for all values of the     *)
(* constants.                                                              *)
THEOREM TypeCorrect == Spec => []TypeOK
<1>1. Inv => TypeOK
  BY DEF Inv
<1>2. QED
  BY <1>1, Invariance, PTL

(* Nothing stored is stamped ahead of the server's clock, however wrong    *)
(* the devices' clocks and whatever the data file held at start.           *)
THEOREM StampsAreHonest == Spec => []NoFutureStamp
<1>1. Inv => NoFutureStamp
  BY DEF Inv
<1>2. QED
  BY <1>1, Invariance, PTL

(* Every answered write that is not in the data file has a save scheduled, *)
(* unless the last save failed.                                            *)
THEOREM NoForgottenSave == Spec => []UnsavedIsScheduled
<1>1. Inv => UnsavedIsScheduled
  BY DEF Inv
<1>2. QED
  BY <1>1, Invariance, PTL

(* An edit stamped by a clock that is not behind the server's is stored,   *)
(* in every reachable state, by every request in flight.                   *)
THEOREM HonestEditsWin == Spec => []HonestEditWins
<1>1. ASSUME NEW cur \in Record \cup {NoRec}, NEW val \in Vals,
             NEW stamp \in Nat, NEW t \in Nat, stamp >= now, t <= now, now \in Nat
      PROVE  Upsert(cur, [at |-> stamp, val |-> val], t).val = val
  <2> DEFINE edit == [at |-> stamp, val |-> val]
  <2>1. edit \in Record
    BY DEF Record
  <2>2. ClampStamp(edit.at, t) = t
    BY <1>1 DEF ClampStamp
  <2>3. cur # NoRec => ClampStamp(cur.at, t) <= t
    BY ClampFacts DEF Record
  <2>4. cur # NoRec => cur.at \in Nat
    BY DEF Record
  <2>5. Accepts(cur, edit, t)
    BY <2>2, <2>3, <2>4 DEF Accepts, StampOf, RawStampOf, ClampStamp
  <2>6. Upsert(cur, edit, t) = NormalizeStamp(edit, t)
    BY <2>5 DEF Upsert
  <2>7. QED
    BY <2>1, <2>6, NormalizeFacts
<1>2. Inv => HonestEditWins
  <2> SUFFICES ASSUME Inv, NEW q \in Reqs, reqs[q] # Idle,
                      NEW val \in Vals, NEW stamp \in now..MaxStamp
               PROVE  LET edit == [at |-> stamp, val |-> val] IN
                      /\ \A id \in Ids : Upsert(db[id], edit, reqs[q]).val = val
                      /\ Upsert(config, edit, reqs[q]).val = val
    BY DEF HonestEditWins
  <2>1. /\ now \in Nat /\ stamp \in Nat /\ stamp >= now
        /\ reqs[q] \in Nat /\ reqs[q] <= now
    BY ServerAssumption DEF Inv, TypeOK, ClocksInOrder
  <2>2. /\ \A id \in Ids : db[id] \in Record \cup {NoRec}
        /\ config \in Record \cup {NoRec}
    BY DEF Inv, TypeOK, Store
  <2>3. QED
    BY <1>1, <2>1, <2>2
<1>3. QED
  BY <1>2, Invariance, PTL

(* While the process lives nothing vanishes, and a stamp goes back only to *)
(* the clock value a slow request had captured.                            *)
THEOREM BoundedRegress == Spec => RegressOnlyToArrival
<1> DEFINE Step ==
      up /\ up' =>
        /\ \A id \in Ids : db[id] # NoRec =>
              /\ db'[id] # NoRec
              /\ db'[id].at >= db[id].at \/ AnsweredAt(db'[id].at)
        /\ config'.at >= config.at \/ AnsweredAt(config'.at)
<1>1. ASSUME Inv, [Next]_vars, up, up'
      PROVE  Step
  <2>1. /\ config.at \in Nat
        /\ \A id \in Ids : db[id] # NoRec => db[id].at \in Nat
    BY <1>1 DEF Inv, TypeOK, Store, Record
  <2>2. CASE db' = db /\ config' = config
    BY <2>1, <2>2
  <2>3. ASSUME NEW q \in Reqs, NEW batch \in Batches, PostRecords(q, batch)
        PROVE  Step
    <3>1. reqs[q] \in Nat /\ now \in Nat /\ reqs[q] <= now
      BY <1>1, <2>3 DEF Inv, TypeOK, ClocksInOrder, PostRecords
    <3>2. db \in Store /\ \A id \in Ids : db[id] # NoRec => db[id].at <= now
      BY <1>1 DEF Inv, TypeOK, NoFutureStamp
    <3>3. db' = UpsertAll(db, batch, reqs[q]) /\ config' = config
      BY <2>3 DEF PostRecords
    <3>4. \A id \in Ids : db[id] # NoRec =>
             db'[id] # NoRec /\ (db'[id].at >= db[id].at \/ db'[id].at = reqs[q])
      BY <3>1, <3>2, <3>3, UpsertAllFacts
    <3>5. AnsweredAt(reqs[q])
      BY <1>1, <2>3 DEF PostRecords, AnsweredAt, Inv, TypeOK
    <3>6. QED
      BY <2>1, <3>3, <3>4, <3>5
  <2>4. ASSUME NEW q \in Reqs, NEW body \in Sent, PutConfig(q, body)
        PROVE  Step
    <3>1. reqs[q] \in Nat /\ now \in Nat /\ reqs[q] <= now
      BY <1>1, <2>4 DEF Inv, TypeOK, ClocksInOrder, PutConfig
    <3>2. config \in Record /\ config.at <= now /\ config # NoRec /\ body \in Record
      BY <1>1, SentIsRecord, NoRecAssumption DEF Inv, TypeOK, NoFutureStamp
    <3>3. db' = db /\ config' = Upsert(config, body, reqs[q])
      BY <2>4 DEF PutConfig
    <3>4. config'.at >= config.at \/ config'.at = reqs[q]
      BY <3>1, <3>2, <3>3, UpsertFacts
    <3>5. AnsweredAt(reqs[q])
      BY <1>1, <2>4 DEF PutConfig, AnsweredAt, Inv, TypeOK
    <3>6. QED
      BY <2>1, <3>3, <3>4, <3>5
  <2>5. QED
    BY <1>1, <2>2, <2>3, <2>4
    DEF Next, Tick, Boot, Crash, Arrive, Abort, Elapse, Save, SaveFails, vars
<1>2. Inv /\ [Next]_vars => [Step]_vars
  BY <1>1
<1>3. QED
  BY <1>2, Invariance, PTL DEF Spec, RegressOnlyToArrival
=============================================================================
