--------------------------- MODULE PhoneHubProofs ---------------------------
(***************************************************************************)
(* What TLAPS proves of PhoneHub for any ids, collections and clocks.      *)
(***************************************************************************)
EXTENDS PhoneHub, WellFoundedInduction, TLAPS

(* An upsert, of whatever batch, keeps the file in step: it writes the     *)
(* whole store, or remembers what it left out.                             *)
LEMMA UpsertInStep ==
    ASSUME NEW batch, FileInStep, UpsertRecords(batch)
    PROVE  FileInStep'
<1>1. CASE Changed(batch)
    BY <1>1 DEF UpsertRecords, FileInStep
<1>2. CASE ~Changed(batch)
    BY <1>2 DEF UpsertRecords, FileInStep
<1>3. QED  BY <1>1, <1>2

(* Only an upsert and a restart touch the store, its file or what is known *)
(* of the difference.                                                      *)
LEMMA StepInStep ==
    ASSUME FileInStep, [Next]_vars
    PROVE  FileInStep'
<1>1. CASE UNCHANGED phoneVars
    BY <1>1 DEF phoneVars, FileInStep
<1>2. CASE \E id \in Ids, rec \in Records : StoreLocal(id, rec)
    BY <1>2, UpsertInStep DEF StoreLocal
<1>3. CASE StorePulled
    BY <1>3, UpsertInStep DEF StorePulled
<1>4. CASE Kill
    BY <1>4 DEF Kill, FileInStep
<1>5. UNCHANGED phoneVars
        \/ (\E id \in Ids, rec \in Records : StoreLocal(id, rec))
        \/ StorePulled \/ Kill
    <2>1. CASE UNCHANGED vars
        BY <2>1 DEF vars
    <2>2. CASE Tick \/ ChangeSettings \/ ApplySettings \/ EndCancelled
        BY <2>2 DEF Tick, ChangeSettings, ApplySettings, EndCancelled
    <2>3. CASE \E id \in Ids, rec \in Records : OthersPost(id, rec)
        BY <2>3 DEF OthersPost
    <2>4. CASE StartRun \/ Push \/ PushConfirmed \/ SetPushCursor
        BY <2>4 DEF StartRun, Push, PushConfirmed, SetPushCursor
    <2>5. CASE Pull \/ SetPullCursor \/ HandlePush \/ HandlePull
        BY <2>5 DEF Pull, SetPullCursor, HandlePush, HandlePull
    <2>6. CASE PushRefused \/ PullRefused \/ RunFails
        BY <2>6 DEF PushRefused, PullRefused, RunFails
    <2>7. QED
        BY <2>1, <2>2, <2>3, <2>4, <2>5, <2>6 DEF Next, Answered, ForwarderStep
<1>6. QED
    BY <1>1, <1>2, <1>3, <1>4, <1>5

(* Whatever the page, the watch, the server and the forwarder do, a record *)
(* that a restart of the phone would lose is one whose write failed or     *)
(* that was replaced without one (PhoneStore.kt:47-54, 110-121).           *)
THEOREM RestartLosesOnlyUnfiled == Spec => []FileInStep
<1>1. Init => FileInStep
    BY DEF Init, FileInStep, Empty
<1>2. FileInStep /\ [Next]_vars => FileInStep'
    BY StepInStep
<1>3. QED
    BY <1>1, <1>2, PTL DEF Spec

-----------------------------------------------------------------------------
(* The cursors. *)

Rows == UNION {[S -> Record] : S \in SUBSET Ids}
Job == [pc : Phases, coll : Colls, start : Nat, max : Nat,
        refused : SUBSET Colls, rows : Rows, time : Nat, cancelled : BOOLEAN]

Typed == TypeOK /\ job \in Job

(* The server has the record, or one at least as new, or had it until a     *)
(* slow POST took it back from the stamp.                                  *)
Had(held, from, r) == (held # NoRec /\ held.at >= r.at) \/ r.at <= from

(* The server lowers what is ahead of its clock, and what is ahead of the  *)
(* phone's can only have come from the server.                             *)
ServerNotAhead ==
    \A id \in Ids : remote[id] # NoRec => remote[id].at <= RemoteClock

AheadIsRemote ==
    \A id \in Ids :
        /\ mem[id] # NoRec /\ mem[id].at > now => Had(remote[id], undone[id], mem[id])
        /\ file[id] # NoRec /\ file[id].at > now => Had(remote[id], undone[id], file[id])

(* A copy in the file is older than the one in memory, or the server has   *)
(* it: the memory goes back only where a stamp was ahead.                  *)
FileIsBehind ==
    \A id \in Ids : file[id] # NoRec =>
        /\ mem[id] # NoRec
        /\ file[id].at <= mem[id].at \/ Had(remote[id], undone[id], file[id])

(* ForwardedOrSkipped, of what a restart would bring back as well.         *)
Forwarded ==
    \A id \in Ids \ skipped :
        /\ mem[id] # NoRec /\ mem[id].at <= pushCursor => Had(remote[id], undone[id], mem[id])
        /\ file[id] # NoRec /\ file[id].at <= pushCursor => Had(remote[id], undone[id], file[id])

(* What the run under way has read of its collections was newer than the   *)
(* cursor and was pushed, but for what was stored since and was refused.   *)
(* What it pushes is no newer than the clock of the server when it was     *)
(* sent, or came from the server.                                          *)
PushPhases == {"push", "pushing", "confirmed", "pushed"}

Read(id) ==
    \/ job.pc = "pushed"
    \/ job.pc \in PushPhases /\ Coll[id] < job.coll
    \/ job.pc \in {"pushing", "confirmed"} /\ Coll[id] = job.coll

PushCovers ==
    /\ pushCursor <= now
    /\ job.pc \in PushPhases =>
        /\ job.start = pushCursor /\ job.start <= job.max /\ job.max <= now
        /\ \A id \in Ids \ fresh :
              /\ Read(id) /\ Coll[id] \notin job.refused
              /\ mem[id] # NoRec /\ mem[id].at > job.start
              => \/ Had(remote[id], undone[id], mem[id])
                 \/ job.pc = "pushing" /\ id \in DOMAIN job.rows /\ job.rows[id] = mem[id]
    /\ job.pc \in {"pushing", "confirmed"} => DOMAIN job.rows # {}
    /\ job.pc = "pushing" =>
        \A id \in DOMAIN job.rows :
            job.rows[id].at <= job.time \/ Had(remote[id], undone[id], job.rows[id])

(* The answer to a pull is all that the server had by its time, but for    *)
(* what came late or the cursor was past already.                          *)
PullCovers ==
    /\ job.pc \in {"pulled", "stored"} =>
        \A id \in Ids :
            /\ Coll[id] = job.coll /\ remote[id] # NoRec /\ remote[id].at <= job.time
            => \/ id \in late \cup lost
               \/ remote[id].at <= pullCursor[job.coll]
               \/ mem[id] # NoRec /\ mem[id].at >= remote[id].at
               \/ job.pc = "pulled" /\ id \in DOMAIN job.rows /\ job.rows[id].at = remote[id].at
    /\ job.pc = "pulled" =>
        \A id \in DOMAIN job.rows : Had(remote[id], undone[id], job.rows[id])

Inv ==
    /\ Typed
    /\ ServerNotAhead /\ AheadIsRemote /\ FileIsBehind
    /\ Forwarded /\ PushCovers
    /\ PullCovers /\ PulledOrLate

(* A record carries a natural number as its stamp, and is not "no record". *)
LEMMA RecordFacts ==
    ASSUME NEW r \in Record
    PROVE  r.at \in Nat /\ r # NoRec
  BY NoRecAssumption DEF Record

(* A stamp as it counts at a clock.                                        *)
LEMMA StampFacts ==
    ASSUME NEW r \in Record, NEW t \in Nat
    PROVE  /\ StampOf(r, t) \in Nat /\ StampOf(r, t) <= t /\ StampOf(r, t) <= r.at
           /\ r.at <= t => StampOf(r, t) = r.at
           /\ r.at > t => StampOf(r, t) = t
  BY RecordFacts DEF StampOf, RawStampOf, ClampStamp

(* What is stored under an id, by types.                                   *)
LEMMA IdFacts ==
    ASSUME Inv, NEW id \in Ids
    PROVE  /\ now \in Nat /\ RemoteClock \in Nat /\ now <= RemoteClock
           /\ Coll[id] \in Colls /\ pushCursor \in Nat /\ pullCursor[Coll[id]] \in Nat
           /\ remote[id] \in Record \cup {NoRec} /\ undone[id] \in Nat
           /\ mem[id] \in Record \cup {NoRec} /\ file[id] \in Record \cup {NoRec}
           /\ remote[id] # NoRec => /\ remote[id] \in Record /\ remote[id].at \in Nat
                                    /\ remote[id].at <= RemoteClock
           /\ mem[id] # NoRec => mem[id] \in Record /\ mem[id].at \in Nat
           /\ file[id] # NoRec => file[id] \in Record /\ file[id].at \in Nat
<1>1. now \in 0..MaxTime /\ MaxTime \in Nat /\ Ahead \in Nat
  BY HubAssumption DEF Inv, Typed, TypeOK
<1>2. now \in Nat /\ RemoteClock \in Nat /\ now <= RemoteClock
  BY <1>1 DEF RemoteClock
<1>3. Coll[id] \in Colls /\ pushCursor \in Nat /\ pullCursor[Coll[id]] \in Nat
  BY HubAssumption DEF Inv, Typed, TypeOK, Colls
<1>4. /\ remote[id] \in Record \cup {NoRec} /\ undone[id] \in Nat
      /\ mem[id] \in Record \cup {NoRec} /\ file[id] \in Record \cup {NoRec}
  BY DEF Inv, Typed, TypeOK, Store
<1> QED BY <1>2, <1>3, <1>4, RecordFacts DEF Inv, ServerNotAhead

(* The forwarder's state, by types.                                        *)
LEMMA JobFacts ==
    ASSUME Inv
    PROVE  /\ job \in Job /\ job.pc \in Phases /\ job.coll \in Colls
           /\ job.start \in Nat /\ job.max \in Nat /\ job.time \in Nat
           /\ job.refused \subseteq Colls /\ job.cancelled \in BOOLEAN
           /\ job.rows \in Rows /\ DOMAIN job.rows \subseteq Of(job.coll)
           /\ DOMAIN job.rows \subseteq Ids
           /\ \A id \in DOMAIN job.rows : job.rows[id] \in Record
  BY DEF Inv, Typed, TypeOK, Job, Of

(* The rows of a request, and none.                                        *)
LEMMA RowsFacts ==
    /\ \A rows \in Rows :
          DOMAIN rows \subseteq Ids /\ \A id \in DOMAIN rows : rows[id] \in Record
    /\ Sub(Empty, {}) \in Rows /\ DOMAIN Sub(Empty, {}) = {}
    /\ \A f, S : S \subseteq Ids /\ (\A id \in S : f[id] \in Record)
                    => Sub(f, S) \in Rows /\ DOMAIN Sub(f, S) = S
                       /\ \A id \in S : Sub(f, S)[id] = f[id]
  BY DEF Rows, Sub

(* A forwarder that is not running.                                        *)
LEMMA NoJobFacts ==
    NoJob \in Job /\ NoJob.pc = "wait" /\ DOMAIN NoJob.rows = {} /\ NoJob.coll = 1
  BY RowsFacts, HubAssumption DEF NoJob, Job, Phases, Colls

(* There is a largest of some numbers that a clock bounds.                 *)
LEMMA LargestFacts ==
    ASSUME NEW rows \in Rows, DOMAIN rows # {}, now \in Nat
    PROVE  LargestStamp(rows) \in Nat /\ LargestStamp(rows) <= now
<1> DEFINE Less == {ss \in Nat \X Nat : ss[1] < ss[2]}
<1>1. IsWellFoundedOn(Less, Nat)
  BY NatLessThanWellFounded DEF OpToRel
<1>2. \A a, b \in Nat : a < b => <<a, b>> \in Less
  OBVIOUS
<1> HIDE DEF Less
<1>3. PICK S \in SUBSET Nat : S = {StampOf(rows[id], now) : id \in DOMAIN rows}
  <2>1. \A id \in DOMAIN rows : rows[id] \in Record
    BY RowsFacts
  <2>2. \A id \in DOMAIN rows : StampOf(rows[id], now) \in Nat
    BY <2>1, StampFacts
  <2> QED BY <2>2
<1>4. \A s \in S : s <= now
  <2>1. \A id \in DOMAIN rows : rows[id] \in Record
    BY RowsFacts
  <2> QED BY <1>3, <2>1, StampFacts
<1>5. PICK G \in SUBSET Nat : G = {now - s : s \in S}
  <2>1. \A s \in S : now - s \in Nat
    BY <1>4
  <2> QED BY <2>1
<1>6. G # {}
  BY <1>3, <1>5
<1>7. PICK g \in G : \A h \in G : ~(<<h, g>> \in Less)
  BY <1>1, <1>6, WFMin
<1>8. PICK t \in S : g = now - t
  BY <1>5
<1>9. ASSUME NEW s \in S PROVE s <= t
  <2>1. now - s \in G
    BY <1>5
  <2>2. ~(now - s < g)
    BY <1>2, <1>7, <2>1
  <2> QED BY <1>4, <1>8, <2>2
<1>10. \E u \in {StampOf(rows[id], now) : id \in DOMAIN rows} :
          \A id \in DOMAIN rows : StampOf(rows[id], now) <= u
  BY <1>3, <1>9
<1>11. LargestStamp(rows) \in S
  BY <1>3, <1>10 DEF LargestStamp
<1> QED BY <1>4, <1>11

(* With these parts of the invariant the cursor of the run passes over     *)
(* what the server has, or what was skipped.                               *)
LEMMA ForwardedFollows ==
    ASSUME Inv
    PROVE  ForwardedOrSkipped
<1> SUFFICES ASSUME NEW id \in Ids, mem[id] # NoRec, StampOf(mem[id], now) <= pushCursor,
                    ~Reached(id, mem[id]), id \notin skipped
             PROVE  FALSE
  BY DEF ForwardedOrSkipped
<1>1. /\ mem[id] \in Record /\ mem[id].at \in Nat /\ now \in Nat /\ RemoteClock \in Nat
      /\ pushCursor \in Nat
      /\ remote[id] # NoRec => remote[id].at \in Nat
      /\ undone[id] \in Nat
  BY IdFacts
<1>2. ~Had(remote[id], undone[id], mem[id])
  <2>1. ClampStamp(mem[id].at, RemoteClock) <= mem[id].at
        /\ ClampStamp(mem[id].at, RemoteClock) \in Nat
    BY <1>1 DEF ClampStamp
  <2> QED BY <1>1, <2>1 DEF Had, Holds, Reached
<1>3. mem[id].at <= now
  BY <1>1, <1>2 DEF Inv, AheadIsRemote
<1>4. mem[id].at <= pushCursor
  BY <1>1, <1>3, StampFacts
<1> QED BY <1>2, <1>4 DEF Inv, Forwarded

-----------------------------------------------------------------------------
(* The store. *)

(* What an upsert leaves in memory and in the file, record by record.      *)
LEMMA UpsertFacts ==
    ASSUME Inv, NEW batch \in Rows, UpsertRecords(batch)
    PROVE  /\ mem' \in Store /\ file' \in Store /\ unfiled' \subseteq Ids
           /\ \A id \in Ids :
                \/ id \in DOMAIN batch /\ mem'[id] = batch[id]
                   /\ (mem[id] = NoRec \/ StampOf(batch[id], now) >= StampOf(mem[id], now))
                \/ mem'[id] = mem[id]
                   /\ (id \in DOMAIN batch =>
                         mem[id] # NoRec /\ StampOf(batch[id], now) < StampOf(mem[id], now))
           /\ \A id \in Ids : file'[id] = mem'[id] \/ file'[id] = file[id] \/ file'[id] = NoRec
<1>1. /\ mem \in Store /\ file \in Store /\ unfiled \subseteq Ids /\ now \in Nat
      /\ Empty \in Store /\ \A id \in Ids : Empty[id] = NoRec
  BY HubAssumption DEF Inv, Typed, TypeOK, Empty, Store
<1>2. /\ DOMAIN batch \subseteq Ids /\ \A id \in DOMAIN batch : batch[id] \in Record
  BY RowsFacts
<1>3. mem' = StoredNewer(batch)
  BY DEF UpsertRecords
<1>4. mem' \in Store
  BY <1>1, <1>2, <1>3 DEF StoredNewer, Store
<1>5. ASSUME NEW id \in Ids
      PROVE  \/ id \in DOMAIN batch /\ mem'[id] = batch[id]
                /\ (mem[id] = NoRec \/ StampOf(batch[id], now) >= StampOf(mem[id], now))
             \/ mem'[id] = mem[id]
                /\ (id \in DOMAIN batch =>
                      mem[id] # NoRec /\ StampOf(batch[id], now) < StampOf(mem[id], now))
  <2>1. CASE id \notin DOMAIN batch
    BY <1>3, <2>1 DEF StoredNewer
  <2>2. CASE id \in DOMAIN batch /\ Accepts(mem[id], batch[id], now)
    BY <1>3, <2>2 DEF StoredNewer, Accepts
  <2>3. CASE id \in DOMAIN batch /\ ~Accepts(mem[id], batch[id], now)
    <3>1. mem[id] # NoRec /\ ~(StampOf(batch[id], now) >= StampOf(mem[id], now))
      BY <2>3 DEF Accepts
    <3>2. mem[id] \in Record /\ batch[id] \in Record
      BY <1>2, <2>3, <3>1, IdFacts
    <3>3. StampOf(mem[id], now) \in Nat /\ StampOf(batch[id], now) \in Nat
      BY <1>1, <3>2, StampFacts
    <3> QED BY <1>3, <2>3, <3>1, <3>3 DEF StoredNewer
  <2> QED BY <2>1, <2>2, <2>3
<1>6. file' = mem' \/ file' = file \/ file' = Empty
  BY DEF UpsertRecords
<1>7. unfiled' \subseteq Ids
  BY <1>1 DEF UpsertRecords
<1> QED BY <1>1, <1>4, <1>5, <1>6, <1>7

(* The copies in memory and in the file stay behind the server's, when     *)
(* what is stored is no newer than the phone's clock or than the server's  *)
(* copy, and is skipped when it is behind the push cursor.                 *)
LEMMA UpsertInv ==
    ASSUME Inv, NEW batch \in Rows, UpsertRecords(batch),
           UNCHANGED <<now, remote, undone, pushCursor>>, skipped \subseteq skipped',
           \A id \in DOMAIN batch :
              /\ batch[id].at <= now \/ Had(remote[id], undone[id], batch[id])
              /\ \/ batch[id].at > pushCursor \/ Had(remote[id], undone[id], batch[id])
                 \/ id \in skipped'
    PROVE  AheadIsRemote' /\ FileIsBehind' /\ Forwarded'
<1>1. ASSUME NEW id \in Ids
      PROVE  /\ mem'[id] # NoRec /\ mem'[id].at > now => Had(remote[id], undone[id], mem'[id])
             /\ file'[id] # NoRec /\ file'[id].at > now => Had(remote[id], undone[id], file'[id])
             /\ file'[id] # NoRec =>
                  /\ mem'[id] # NoRec
                  /\ file'[id].at <= mem'[id].at \/ Had(remote[id], undone[id], file'[id])
             /\ id \notin skipped' =>
                  /\ mem'[id] # NoRec /\ mem'[id].at <= pushCursor => Had(remote[id], undone[id], mem'[id])
                  /\ file'[id] # NoRec /\ file'[id].at <= pushCursor => Had(remote[id], undone[id], file'[id])
  <2>1. /\ now \in Nat /\ pushCursor \in Nat
        /\ mem[id] # NoRec => mem[id] \in Record /\ mem[id].at \in Nat
        /\ file[id] # NoRec => file[id] \in Record /\ file[id].at \in Nat
        /\ remote[id] # NoRec => remote[id].at \in Nat
        /\ undone[id] \in Nat
    BY IdFacts
  <2>2. /\ mem[id] # NoRec /\ mem[id].at > now => Had(remote[id], undone[id], mem[id])
        /\ file[id] # NoRec /\ file[id].at > now => Had(remote[id], undone[id], file[id])
        /\ file[id] # NoRec =>
             mem[id] # NoRec /\ (file[id].at <= mem[id].at \/ Had(remote[id], undone[id], file[id]))
        /\ id \notin skipped' =>
             /\ mem[id] # NoRec /\ mem[id].at <= pushCursor => Had(remote[id], undone[id], mem[id])
             /\ file[id] # NoRec /\ file[id].at <= pushCursor => Had(remote[id], undone[id], file[id])
    BY DEF Inv, AheadIsRemote, FileIsBehind, Forwarded
  <2>3. file'[id] = mem'[id] \/ file'[id] = file[id] \/ file'[id] = NoRec
    BY UpsertFacts
  <2>4. CASE mem'[id] = mem[id]
    BY <2>1, <2>2, <2>3, <2>4
  <2>5. CASE /\ id \in DOMAIN batch /\ mem'[id] = batch[id]
             /\ mem[id] = NoRec \/ StampOf(batch[id], now) >= StampOf(mem[id], now)
    <3>1. batch[id] \in Record /\ batch[id].at \in Nat /\ batch[id] # NoRec
      BY <2>5, RowsFacts, RecordFacts
    <3>2. /\ batch[id].at > now => Had(remote[id], undone[id], batch[id])
          /\ id \notin skipped' /\ batch[id].at <= pushCursor => Had(remote[id], undone[id], batch[id])
      BY <2>1, <2>5, <3>1
    <3>3. ASSUME file[id] # NoRec
          PROVE  file[id].at <= batch[id].at \/ Had(remote[id], undone[id], file[id])
      <4> SUFFICES ASSUME ~Had(remote[id], undone[id], file[id])
                   PROVE  file[id].at <= batch[id].at
        OBVIOUS
      <4>1. mem[id] # NoRec /\ mem[id] \in Record /\ mem[id].at \in Nat
            /\ file[id].at <= mem[id].at /\ file[id].at \in Nat
        BY <2>1, <2>2, <3>3
      <4>2. mem[id].at <= now
        BY <2>1, <2>2, <4>1 DEF Had
      <4>3. StampOf(mem[id], now) = mem[id].at /\ StampOf(batch[id], now) <= batch[id].at
            /\ StampOf(batch[id], now) \in Nat
        BY <2>1, <3>1, <4>1, <4>2, StampFacts
      <4> QED BY <2>5, <3>1, <4>1, <4>3
    <3> QED BY <2>2, <2>3, <2>5, <3>1, <3>2, <3>3
  <2> QED BY <2>4, <2>5, UpsertFacts
<1>2. AheadIsRemote'
  BY <1>1 DEF AheadIsRemote, Had
<1>3. FileIsBehind'
  BY <1>1 DEF FileIsBehind, Had
<1>4. Forwarded'
  BY <1>1 DEF Forwarded, Had
<1> QED BY <1>2, <1>3, <1>4

(* A pull that passed over nothing passes over nothing when the memory     *)
(* changes, for what went back is among the lost.                          *)
LEMMA StoredIsPulled ==
    ASSUME Inv, NEW batch \in Rows, UpsertRecords(batch),
           UNCHANGED <<remote, undone, pullCursor, late>>, lost' = lost \cup WentBack
    PROVE  /\ PulledOrLate'
           /\ \A id \in Ids : remote[id] # NoRec /\ mem[id] # NoRec /\ mem[id].at >= remote[id].at
                => id \in lost' \/ (mem'[id] # NoRec /\ mem'[id].at >= remote[id].at)
<1>1. ASSUME NEW id \in Ids, remote[id] # NoRec, mem[id] # NoRec, mem[id].at >= remote[id].at
      PROVE  id \in lost' \/ (mem'[id] # NoRec /\ mem'[id].at >= remote[id].at)
  <2>1. mem'[id] # NoRec /\ mem'[id].at \in Nat
    <3>1. mem'[id] = mem[id] \/ (id \in DOMAIN batch /\ mem'[id] = batch[id])
      BY UpsertFacts
    <3>2. id \in DOMAIN batch => batch[id] \in Record
      BY RowsFacts
    <3>3. mem[id] \in Record
      BY <1>1, IdFacts
    <3>4. mem'[id] \in Record
      BY <3>1, <3>2, <3>3
    <3> QED BY <3>4, RecordFacts
  <2>2. mem[id].at \in Nat /\ remote[id].at \in Nat
    BY <1>1, IdFacts
  <2>3. mem'[id].at < mem[id].at => id \in lost'
    BY <1>1 DEF WentBack
  <2> QED BY <1>1, <2>1, <2>2, <2>3
<1>2. PulledOrLate'
  BY <1>1 DEF Inv, PulledOrLate
<1> QED BY <1>1, <1>2

-----------------------------------------------------------------------------
(* The server. *)

(* A POST leaves every record at least as new as it was and as what was    *)
(* sent, or notes what it is taken back from; and notes what came too late *)
(* for the pull cursor.                                                    *)
LEMMA ReceiveFacts ==
    ASSUME Inv, NEW rows \in Rows, NEW t \in Nat, t <= RemoteClock, Receive(rows, t)
    PROVE  /\ remote' \in Store /\ undone' \in [Ids -> Nat]
           /\ late' \subseteq Ids /\ late \subseteq late'
           /\ \A id \in Ids :
                /\ remote'[id] # NoRec =>
                     remote'[id] \in Record /\ remote'[id].at \in Nat
                     /\ remote'[id].at <= RemoteClock
                /\ undone'[id] \in Nat /\ undone'[id] >= undone[id]
                /\ remote[id] # NoRec =>
                     /\ remote'[id] # NoRec
                     /\ remote'[id].at >= remote[id].at \/ undone'[id] >= remote[id].at
                /\ id \in DOMAIN rows /\ rows[id].at <= t
                     => Had(remote'[id], undone'[id], rows[id])
                /\ \/ remote'[id] = remote[id]
                   \/ remote'[id].at <= AnsweredUpTo(Coll[id]) => id \in late'
<1>1. /\ DOMAIN rows \subseteq Ids /\ \A id \in DOMAIN rows : rows[id] \in Record
  BY RowsFacts
<1>2. remote \in Store /\ DOMAIN remote = Ids /\ late \subseteq Ids /\ RemoteClock \in Nat
  BY HubAssumption DEF Inv, Typed, TypeOK, Store, RemoteClock
<1>3. /\ remote' = [id \in Ids |-> remote'[id]]
      /\ \A id \in Ids :
           remote'[id] = IF id \in DOMAIN rows THEN Upsert(remote[id], rows[id], t)
                                               ELSE remote[id]
  BY <1>2 DEF Receive, UpsertAll
<1>4. late' \subseteq Ids /\ late \subseteq late'
  BY <1>1, <1>2 DEF Receive
<1>5. ASSUME NEW id \in Ids
      PROVE  /\ remote'[id] \in Record \cup {NoRec}
             /\ remote'[id] # NoRec =>
                  remote'[id] \in Record /\ remote'[id].at \in Nat
                  /\ remote'[id].at <= RemoteClock
             /\ remote[id] # NoRec => remote'[id] # NoRec
             /\ id \in DOMAIN rows /\ rows[id].at <= t
                  => remote'[id] # NoRec /\ remote'[id].at >= rows[id].at
             /\ \/ remote'[id] = remote[id]
                \/ remote'[id].at <= AnsweredUpTo(Coll[id]) => id \in late'
  <2>1. /\ remote[id] \in Record \cup {NoRec}
        /\ remote[id] # NoRec => remote[id] \in Record /\ remote[id].at \in Nat
                                 /\ remote[id].at <= RemoteClock
    BY IdFacts
  <2>2. CASE id \notin DOMAIN rows
    BY <1>3, <2>1, <2>2
  <2>3. CASE id \in DOMAIN rows
    <3>1. PICK s \in Nat : s = StampOf(rows[id], t) /\ s <= t
                           /\ (rows[id].at <= t => s = rows[id].at)
      BY <1>1, <2>3, StampFacts
    <3>2. rows[id] \in Record /\ rows[id].at \in Nat
      BY <1>1, <2>3, RecordFacts
    <3>3. remote'[id] = Upsert(remote[id], rows[id], t)
      BY <1>3, <2>3
    <3>4. CASE Accepts(remote[id], rows[id], t)
      <4>1. remote'[id] = NormalizeStamp(rows[id], t)
        BY <3>3, <3>4 DEF Upsert
      <4>2. remote'[id] \in Record /\ remote'[id].at = s
        BY <3>1, <3>2, <4>1 DEF NormalizeStamp, Record, StampOf, RawStampOf
      <4>3. remote'[id] # NoRec
        BY <4>2, RecordFacts
      <4>4. s <= AnsweredUpTo(Coll[id]) => id \in late'
        BY <2>3, <3>1 DEF Receive
      <4> QED BY <1>2, <3>1, <3>2, <4>2, <4>3, <4>4
    <3>5. CASE ~Accepts(remote[id], rows[id], t)
      <4>1. /\ remote'[id] = remote[id] /\ remote[id] # NoRec
            /\ ~(s >= StampOf(remote[id], t))
        BY <3>1, <3>3, <3>5 DEF Upsert, Accepts
      <4>2. PICK h \in Nat : h = StampOf(remote[id], t) /\ h <= remote[id].at
        BY <2>1, <4>1, StampFacts
      <4>3. ~(s >= h)
        BY <4>1, <4>2
      <4> QED BY <2>1, <3>1, <3>2, <4>1, <4>2, <4>3
    <3> QED BY <3>4, <3>5
  <2> QED BY <2>2, <2>3
<1>6. remote' \in Store
  BY <1>3, <1>5 DEF Store
<1>7. ASSUME NEW id \in Ids
      PROVE  /\ TakenBackFrom(id) \in Nat
             /\ undone'[id] = Larger(undone[id], TakenBackFrom(id))
             /\ undone'[id] \in Nat /\ undone'[id] >= undone[id]
             /\ remote[id] # NoRec =>
                  remote'[id].at >= remote[id].at \/ undone'[id] >= remote[id].at
  <2>1. /\ undone[id] \in Nat
        /\ remote[id] # NoRec => remote[id].at \in Nat
        /\ remote[id] # NoRec => remote'[id].at \in Nat
    BY <1>5, IdFacts
  <2>2. TakenBackFrom(id) \in Nat
    BY <2>1 DEF TakenBackFrom
  <2>3. undone'[id] = Larger(undone[id], TakenBackFrom(id))
    BY DEF Receive
  <2>4. remote[id] # NoRec =>
          remote'[id].at >= remote[id].at \/ TakenBackFrom(id) = remote[id].at
    BY <2>1 DEF TakenBackFrom
  <2> QED BY <2>1, <2>2, <2>3, <2>4 DEF Larger
<1>8. undone' \in [Ids -> Nat]
  BY <1>7 DEF Receive
<1> QED BY <1>4, <1>5, <1>6, <1>7, <1>8 DEF Had

(* What the server has, or had, it still has or had: or something newer.   *)
LEMMA ReceiveKeeps ==
    ASSUME Inv, NEW rows \in Rows, NEW t \in Nat, t <= RemoteClock, Receive(rows, t),
           NEW id \in Ids, NEW r \in Record, Had(remote[id], undone[id], r)
    PROVE  Had(remote'[id], undone'[id], r)
<1>1. undone[id] \in Nat /\ undone'[id] \in Nat /\ undone'[id] >= undone[id] /\ r.at \in Nat
  BY IdFacts, RecordFacts, ReceiveFacts
<1>2. CASE r.at <= undone[id]
  BY <1>1, <1>2 DEF Had
<1>3. CASE remote[id] # NoRec /\ remote[id].at >= r.at
  <2>1. /\ remote[id].at \in Nat
        /\ remote'[id] # NoRec /\ remote'[id].at \in Nat
        /\ remote'[id].at >= remote[id].at \/ undone'[id] >= remote[id].at
    BY <1>3, IdFacts, ReceiveFacts
  <2> QED BY <1>1, <1>3, <2>1 DEF Had
<1> QED BY <1>2, <1>3 DEF Had

(* Another POST disturbs nothing that is known of the cursors.             *)
LEMMA ReceiveInv ==
    ASSUME Inv, NEW rows \in Rows, NEW t \in Nat, t <= RemoteClock, Receive(rows, t),
           UNCHANGED <<now, mem, file, cursors, skipped, lost>>
    PROVE  /\ ServerNotAhead' /\ AheadIsRemote' /\ FileIsBehind' /\ Forwarded'
           /\ PulledOrLate'
           /\ job' = job => PullCovers'
<1>1. UNCHANGED <<now, mem, file, pushCursor, pullCursor, skipped, lost>>
  BY DEF cursors
<1>2. /\ remote' \in Store /\ late' \subseteq Ids /\ late \subseteq late'
      /\ \A id \in Ids :
           /\ remote'[id] # NoRec =>
                remote'[id] \in Record /\ remote'[id].at \in Nat
                /\ remote'[id].at <= RemoteClock
           /\ remote[id] # NoRec => remote'[id] # NoRec
           /\ \/ remote'[id] = remote[id]
              \/ remote'[id].at <= AnsweredUpTo(Coll[id]) => id \in late'
  BY ReceiveFacts
<1>3. ASSUME NEW id \in Ids
      PROVE  /\ mem[id] # NoRec /\ Had(remote[id], undone[id], mem[id]) => Had(remote'[id], undone'[id], mem[id])
             /\ file[id] # NoRec /\ Had(remote[id], undone[id], file[id]) => Had(remote'[id], undone'[id], file[id])
  <2>1. /\ mem[id] # NoRec => mem[id] \in Record
        /\ file[id] # NoRec => file[id] \in Record
    BY IdFacts
  <2> QED BY <2>1, ReceiveKeeps
<1>4. ServerNotAhead'
  BY <1>1, <1>2 DEF ServerNotAhead, RemoteClock
<1>5. AheadIsRemote'
  BY <1>1, <1>3 DEF Inv, AheadIsRemote, Had
<1>6. FileIsBehind'
  BY <1>1, <1>3 DEF Inv, FileIsBehind, Had
<1>7. Forwarded'
  BY <1>1, <1>3 DEF Inv, Forwarded, Had
<1>8. \A id \in Ids : /\ pullCursor[Coll[id]] <= AnsweredUpTo(Coll[id])
                      /\ AnsweredUpTo(Coll[id]) \in Nat
                      /\ job.pc \in {"pulled", "stored"} /\ Coll[id] = job.coll
                            => job.time <= AnsweredUpTo(Coll[id])
  BY IdFacts, JobFacts DEF AnsweredUpTo, Larger
<1>9. PulledOrLate'
  <2> SUFFICES ASSUME NEW id \in Ids, remote'[id] # NoRec,
                      remote'[id].at <= pullCursor[Coll[id]],
                      ~(mem[id] # NoRec /\ mem[id].at >= remote'[id].at)
               PROVE  id \in late' \cup lost
    BY <1>1 DEF PulledOrLate
  <2>1. CASE remote'[id] = remote[id]
    BY <1>2, <2>1 DEF Inv, PulledOrLate
  <2>2. CASE remote'[id].at <= AnsweredUpTo(Coll[id]) => id \in late'
    <3>1. remote'[id].at \in Nat /\ pullCursor[Coll[id]] \in Nat
      BY <1>2, IdFacts
    <3> QED BY <1>8, <2>2, <3>1
  <2> QED BY <1>2, <2>1, <2>2
<1>10. ASSUME job' = job PROVE PullCovers'
  <2>1. ASSUME NEW id \in Ids, job.pc \in {"pulled", "stored"},
               Coll[id] = job.coll, remote'[id] # NoRec, remote'[id].at <= job.time
        PROVE  \/ id \in late' \cup lost
               \/ remote'[id].at <= pullCursor[job.coll]
               \/ mem[id] # NoRec /\ mem[id].at >= remote'[id].at
               \/ job.pc = "pulled" /\ id \in DOMAIN job.rows
                  /\ job.rows[id].at = remote'[id].at
    <3>1. CASE remote'[id] = remote[id]
      BY <1>2, <2>1, <3>1 DEF Inv, PullCovers
    <3>2. CASE remote'[id].at <= AnsweredUpTo(Coll[id]) => id \in late'
      <4>1. remote'[id].at \in Nat /\ job.time \in Nat
        BY <1>2, <2>1, JobFacts
      <4> QED BY <1>8, <2>1, <3>2, <4>1
    <3> QED BY <1>2, <3>1, <3>2
  <2>2. ASSUME NEW id \in DOMAIN job.rows, job.pc = "pulled"
        PROVE  Had(remote'[id], undone'[id], job.rows[id])
    <3>1. id \in Ids /\ job.rows[id] \in Record /\ Had(remote[id], undone[id], job.rows[id])
      BY <2>2, JobFacts DEF Inv, PullCovers
    <3> QED BY <3>1, ReceiveKeeps
  <2> QED BY <1>1, <1>10, <2>1, <2>2 DEF PullCovers, Had
<1> QED BY <1>4, <1>5, <1>6, <1>7, <1>9, <1>10

-----------------------------------------------------------------------------
(* The forwarder. *)

(* What a step of the forwarder alone leaves as it is.                     *)
LEMMA RecordsUntouched ==
    ASSUME Inv, UNCHANGED <<now, remote, undone, mem, file, pushCursor, pullCursor, skipped, late, lost>>
    PROVE  /\ ServerNotAhead' /\ AheadIsRemote' /\ FileIsBehind' /\ Forwarded'
           /\ PulledOrLate'
  BY DEF Inv, ServerNotAhead, RemoteClock, AheadIsRemote, FileIsBehind, Forwarded, Had,
     PulledOrLate

(* And the type of what else it may change.                                *)
LEMMA JobTyped ==
    ASSUME Inv, job' \in Job,
           DOMAIN job'.rows \subseteq Of(job'.coll), job'.pc = "wait" => job' = NoJob,
           emitted' \in BOOLEAN, fresh' \subseteq Ids,
           UNCHANGED <<now, remote, undone, mem, file, unfiled, cursors, bounds, skipped, late, lost>>
    PROVE  Typed'
<1>1. UNCHANGED <<now, remote, undone, mem, file, unfiled, pushCursor, pullCursor, kills, inputs,
                  skipped, late, lost>>
  BY DEF cursors, bounds
<1>2. /\ job'.pc \in Phases /\ job'.coll \in Colls /\ job'.cancelled \in BOOLEAN
      /\ job'.start \in Nat /\ job'.max \in Nat /\ job'.time \in Nat
      /\ job'.refused \subseteq Colls
      /\ \A id \in DOMAIN job'.rows : job'.rows[id] \in Record
  BY RowsFacts DEF Job
<1> QED BY <1>1, <1>2 DEF Inv, Typed, TypeOK

(* A run that is not under way, or only starts to pull, claims nothing.    *)
LEMMA IdleInv ==
    ASSUME Inv, job' \in Job, DOMAIN job'.rows \subseteq Of(job'.coll),
           job'.pc = "wait" => job' = NoJob,
           job'.pc \in {"wait", "pull", "pulling"},
           emitted' \in BOOLEAN, fresh' \subseteq Ids,
           UNCHANGED <<now, remote, undone, mem, file, unfiled, cursors, bounds, skipped, late, lost>>
    PROVE  Inv'
<1>1. UNCHANGED <<now, remote, undone, mem, file, pushCursor, pullCursor, skipped, late, lost>>
  BY DEF cursors
<1>2. Typed'
  BY JobTyped
<1>3. ServerNotAhead' /\ AheadIsRemote' /\ FileIsBehind' /\ Forwarded' /\ PulledOrLate'
  BY <1>1, RecordsUntouched
<1>4. PushCovers' /\ PullCovers'
  BY <1>1 DEF Inv, PushCovers, PullCovers, PushPhases
<1> QED BY <1>2, <1>3, <1>4 DEF Inv

(* What comes after a pull.                                                *)
LEMMA NextPullFacts ==
    ASSUME Inv
    PROVE  LET j == NextPull(job) IN
           /\ j \in Job /\ DOMAIN j.rows = {} /\ j.pc \in {"wait", "pull"}
           /\ j.pc = "wait" => j = NoJob
<1>1. CASE job.coll = NColls
  BY <1>1, NoJobFacts DEF NextPull
<1>2. CASE job.coll # NColls
  <2>1. PICK rows \in Rows : rows = Sub(Empty, {}) /\ DOMAIN rows = {}
    BY RowsFacts
  <2>2. job.coll + 1 \in Colls
    BY <1>2, JobFacts, HubAssumption DEF Colls
  <2>3. NextPull(job) = [job EXCEPT !.pc = "pull", !.rows = rows, !.coll = job.coll + 1]
    BY <1>2, <2>1 DEF NextPull
  <2>4. job \in Job /\ "pull" \in Phases
    BY JobFacts DEF Phases
  <2> QED BY <2>1, <2>2, <2>3, <2>4 DEF Job
<1> QED BY <1>1, <1>2

(* The run ends, fails, or goes on to the next pull.                       *)
LEMMA GoesOnInv ==
    ASSUME Inv, Pull \/ PullRefused \/ RunFails \/ EndCancelled
    PROVE  Inv'
<1>1. UNCHANGED <<now, remote, undone, mem, file, unfiled, cursors, bounds, skipped, late, lost, emitted, fresh>>
  BY DEF Pull, PullRefused, RunFails, EndCancelled, phoneVars, history, remoteVars
<1>2. emitted' \in BOOLEAN /\ fresh' \subseteq Ids
  BY <1>1 DEF Inv, Typed, TypeOK
<1>3. CASE Pull
  <2>1. job' = [job EXCEPT !.pc = "pulling"] /\ job \in Job /\ "pulling" \in Phases
    BY <1>3, JobFacts DEF Pull, Phases
  <2>2. job' \in Job /\ job'.pc = "pulling" /\ job'.coll = job.coll /\ job'.rows = job.rows
    BY <2>1 DEF Job
  <2>3. DOMAIN job'.rows \subseteq Of(job'.coll)
    BY <2>2, JobFacts
  <2> QED BY <1>1, <1>2, <2>2, <2>3, IdleInv
<1>4. CASE PullRefused
  <2>1. job' \in Job /\ DOMAIN job'.rows = {} /\ job'.pc \in {"wait", "pull"}
        /\ (job'.pc = "wait" => job' = NoJob)
    BY <1>4, NextPullFacts DEF PullRefused
  <2> QED BY <1>1, <1>2, <2>1, IdleInv
<1>5. CASE RunFails \/ EndCancelled
  <2>1. job' = NoJob
    BY <1>5 DEF RunFails, EndCancelled
  <2> QED BY <1>1, <1>2, <2>1, NoJobFacts, IdleInv
<1> QED BY <1>3, <1>4, <1>5

(* A change of the settings only marks the run as cancelled.               *)
LEMMA SettingsInv ==
    ASSUME Inv, ChangeSettings \/ ApplySettings
    PROVE  Inv'
<1>1. UNCHANGED <<now, remote, undone, mem, file, unfiled, pushCursor, pullCursor, kills, fresh, skipped, late, lost>>
  BY DEF ChangeSettings, ApplySettings, phoneVars, cursors, bounds, history, remoteVars
<1>2. /\ job' \in Job /\ DOMAIN job'.rows \subseteq Of(job'.coll)
      /\ job'.pc = "wait" => job' = NoJob
      /\ job'.pc = job.pc /\ job'.coll = job.coll /\ job'.start = job.start
      /\ job'.max = job.max /\ job'.refused = job.refused /\ job'.rows = job.rows
      /\ job'.time = job.time
  <2>1. CASE job' = job
    BY <2>1, JobFacts DEF Inv, Typed, TypeOK
  <2>2. CASE job' = [job EXCEPT !.cancelled = (job.pc # "wait")]
    <3>1. job' \in Job /\ job'.pc = job.pc /\ job'.coll = job.coll /\ job'.start = job.start
          /\ job'.max = job.max /\ job'.refused = job.refused /\ job'.rows = job.rows
          /\ job'.time = job.time
      BY <2>2, JobFacts DEF Job
    <3>2. ASSUME job.pc = "wait" PROVE job' = NoJob
      <4>1. job = NoJob
        BY <3>2 DEF Inv, Typed, TypeOK
      <4>2. job' = [NoJob EXCEPT !.cancelled = FALSE]
        BY <2>2, <3>2, <4>1
      <4> QED BY <4>2 DEF NoJob
    <3> QED BY <3>1, <3>2, JobFacts
  <2> QED BY <2>1, <2>2 DEF ChangeSettings, ApplySettings
<1>3. emitted' \in BOOLEAN /\ inputs' \in 0..MaxInputs
  <2>1. inputs \in 0..MaxInputs /\ MaxInputs \in Nat
    BY HubAssumption DEF Inv, Typed, TypeOK
  <2>2. emitted' \in BOOLEAN
    BY DEF ChangeSettings, ApplySettings
  <2>3. inputs' = inputs \/ (inputs < MaxInputs /\ inputs' = inputs + 1)
    BY DEF ChangeSettings, ApplySettings, bounds
  <2> QED BY <2>1, <2>2, <2>3
<1>4. Typed'
  <2>1. /\ job'.pc \in Phases /\ job'.coll \in Colls /\ job'.cancelled \in BOOLEAN
        /\ job'.start \in Nat /\ job'.max \in Nat /\ job'.time \in Nat
        /\ job'.refused \subseteq Colls
        /\ \A id \in DOMAIN job'.rows : job'.rows[id] \in Record
    BY <1>2, RowsFacts DEF Job
  <2> QED BY <1>1, <1>2, <1>3, <2>1 DEF Inv, Typed, TypeOK
<1>5. ServerNotAhead' /\ AheadIsRemote' /\ FileIsBehind' /\ Forwarded' /\ PulledOrLate'
  BY <1>1, RecordsUntouched
<1>6. PushCovers'
  BY <1>1, <1>2 DEF Inv, PushCovers, Read, Had
<1>7. PullCovers'
  BY <1>1, <1>2 DEF Inv, PullCovers, Had
<1> QED BY <1>4, <1>5, <1>6, <1>7 DEF Inv

(* A new run reads the push cursor.                                        *)
LEMMA StartRunInv ==
    ASSUME Inv, StartRun
    PROVE  Inv'
<1>1. UNCHANGED <<now, remote, undone, mem, file, unfiled, cursors, pushCursor, pullCursor, bounds, skipped, late, lost, emitted>>
  BY DEF StartRun, phoneVars, cursors, remoteVars
<1>2. pushCursor \in Nat /\ pushCursor <= now
  BY DEF Inv, Typed, TypeOK, PushCovers
<1>3. job' = [NoJob EXCEPT !.pc = "push", !.start = pushCursor, !.max = pushCursor]
      /\ fresh' = {}
  BY DEF StartRun
<1>4. /\ job' \in Job /\ job'.pc = "push" /\ job'.coll = 1
      /\ job'.start = pushCursor /\ job'.max = pushCursor /\ DOMAIN job'.rows = {}
  BY <1>2, <1>3, NoJobFacts DEF Job, Phases
<1>5. Typed'
  <2>1. emitted' \in BOOLEAN /\ fresh' \subseteq Ids
    BY <1>1, <1>3 DEF Inv, Typed, TypeOK
  <2> QED BY <1>1, <1>4, <2>1, JobTyped
<1>6. ServerNotAhead' /\ AheadIsRemote' /\ FileIsBehind' /\ Forwarded' /\ PulledOrLate'
  BY <1>1, RecordsUntouched
<1>7. PushCovers'
  <2>1. \A id \in Ids : ~(Coll[id] < 1)
    BY IdFacts, HubAssumption DEF Colls
  <2> QED BY <1>1, <1>2, <1>4, <2>1 DEF PushCovers, Read
<1>8. PullCovers'
  BY <1>4 DEF PullCovers
<1> QED BY <1>5, <1>6, <1>7, <1>8 DEF Inv

(* A forwarder that goes on to the next collection, or to its cursors.     *)
MovedOn(j, phase, rows, c) == [j EXCEPT !.pc = phase, !.rows = rows, !.time = 0, !.coll = c]

(* What it keeps of the run.                                               *)
LEMMA MovedOnFacts ==
    ASSUME NEW j \in Job, NEW phase \in Phases, NEW rows \in Rows, NEW c \in Colls
    PROVE  LET k == MovedOn(j, phase, rows, c)
           IN  /\ k \in Job /\ k.pc = phase /\ k.rows = rows /\ k.coll = c
               /\ k.start = j.start /\ k.max = j.max /\ k.refused = j.refused
  BY DEF Job, MovedOn

(* The push of a collection is over, with the job as it is in j.           *)
LEMMA NextPushInv ==
    ASSUME Inv, NEW j \in Job, job.pc \in {"push", "pushing", "confirmed"},
           job' = NextPush(j),
           j.coll = job.coll, j.start = job.start, job.max <= j.max, j.max <= now,
           job.refused \subseteq j.refused,
           fresh' = fresh \/ fresh' = fresh \ Of(job.coll),
           UNCHANGED <<now, remote, undone, mem, file, unfiled, cursors, bounds, emitted, skipped, late, lost>>,
           \A id \in Ids \ fresh' :
              Coll[id] = job.coll /\ Coll[id] \notin j.refused
              /\ mem[id] # NoRec /\ mem[id].at > job.start => Had(remote[id], undone[id], mem[id])
    PROVE  Inv'
<1>1. /\ NColls \in Nat \ {0} /\ job.coll \in 1..NColls
      /\ job.start \in Nat /\ job.max \in Nat /\ j.max \in Nat /\ now \in Nat
      /\ \A id \in Ids : Coll[id] \in 1..NColls
  BY HubAssumption, JobFacts DEF Colls, Job, Inv, Typed, TypeOK
<1>2. /\ job' \in Job /\ DOMAIN job'.rows = {} /\ job'.start = j.start
      /\ job'.max = j.max /\ job'.refused = j.refused
      /\ \/ job'.pc = "pushed" /\ job.coll = NColls
         \/ job'.pc = "push" /\ job'.coll = job.coll + 1
  <2>1. PICK rows \in Rows : rows = Sub(Empty, {}) /\ DOMAIN rows = {}
    BY RowsFacts
  <2>2. CASE j.coll = NColls
    <3>1. job' = MovedOn(j, "pushed", rows, 1)
      BY <2>1, <2>2 DEF NextPush, MovedOn
    <3>2. 1 \in Colls /\ "pushed" \in Phases
      BY <1>1 DEF Colls, Phases
    <3>3. job' \in Job /\ job'.rows = rows /\ job'.start = j.start
          /\ job'.max = j.max /\ job'.refused = j.refused /\ job'.pc = "pushed"
      BY <3>1, <3>2, MovedOnFacts
    <3> QED BY <2>1, <2>2, <3>3
  <2>3. CASE j.coll # NColls
    <3>1. job' = MovedOn(j, "push", rows, j.coll + 1)
      BY <2>1, <2>3 DEF NextPush, MovedOn
    <3>2. j.coll + 1 \in Colls
      BY <1>1, <2>3 DEF Colls
    <3>3. "push" \in Phases
      BY DEF Phases
    <3>4. job' \in Job /\ job'.rows = rows /\ job'.start = j.start /\ job'.coll = j.coll + 1
          /\ job'.max = j.max /\ job'.refused = j.refused /\ job'.pc = "push"
      BY <3>1, <3>2, <3>3, MovedOnFacts
    <3> QED BY <2>1, <3>4
  <2> QED BY <2>2, <2>3
<1>3. UNCHANGED <<now, remote, undone, mem, file, pushCursor, pullCursor, skipped, late, lost>>
  BY DEF cursors
<1>4. Typed'
  <2>1. emitted' \in BOOLEAN /\ fresh' \subseteq Ids
    BY DEF Inv, Typed, TypeOK
  <2>2. DOMAIN job'.rows \subseteq Of(job'.coll) /\ (job'.pc = "wait" => job' = NoJob)
    BY <1>2
  <2> QED BY <1>2, <2>1, <2>2, JobTyped
<1>5. ServerNotAhead' /\ AheadIsRemote' /\ FileIsBehind' /\ Forwarded' /\ PulledOrLate'
  BY <1>3, RecordsUntouched
<1>6. PushCovers'
  <2>1. /\ pushCursor <= now /\ job.start = pushCursor /\ job.start <= job.max
        /\ \A id \in Ids \ fresh :
              Read(id) /\ Coll[id] \notin job.refused
              /\ mem[id] # NoRec /\ mem[id].at > job.start
              => \/ Had(remote[id], undone[id], mem[id])
                 \/ job.pc = "pushing" /\ id \in DOMAIN job.rows
    BY DEF Inv, PushCovers, PushPhases
  <2>2. ASSUME NEW id \in Ids \ fresh', Read(id)', Coll[id] \notin job'.refused,
               mem[id] # NoRec, mem[id].at > job'.start
        PROVE  Had(remote[id], undone[id], mem[id])
    <3>1. Coll[id] < job.coll + 1
      BY <1>1, <1>2, <2>2 DEF Read
    <3>2. CASE Coll[id] = job.coll
      BY <1>2, <2>2, <3>2
    <3>3. CASE Coll[id] < job.coll
      <4>1. id \in Ids \ fresh
        BY <1>1, <2>2, <3>3 DEF Of
      <4>2. Read(id) /\ id \notin DOMAIN job.rows
        BY <1>1, <3>3, JobFacts DEF Read, PushPhases, Of
      <4> QED BY <1>2, <2>1, <2>2, <4>1, <4>2
    <3> QED BY <1>1, <3>1, <3>2, <3>3
  <2>3. job'.start = pushCursor /\ job'.start <= job'.max /\ job'.max <= now
    BY <1>1, <1>2, <2>1
  <2> QED BY <1>2, <1>3, <2>1, <2>2, <2>3 DEF PushCovers, Had
<1>7. PullCovers'
  BY <1>2 DEF PullCovers
<1> QED BY <1>4, <1>5, <1>6, <1>7 DEF Inv

(* A collection is read: what is newer than the cursor is pushed.          *)
LEMMA PushInv ==
    ASSUME Inv, Push
    PROVE  Inv'
<1>1. PICK changed \in SUBSET Ids :
         changed = ChangedSince(mem, job.start, now) \cap Of(job.coll)
  BY DEF Of
<1>2. /\ job.pc = "push" /\ fresh' = fresh \ Of(job.coll)
      /\ UNCHANGED <<now, remote, undone, mem, file, unfiled, cursors, bounds, emitted, skipped, late, lost>>
      /\ job' = IF changed = {} THEN NextPush(job)
                ELSE [job EXCEPT !.pc = "pushing", !.rows = Sub(mem, changed),
                                 !.time = RemoteClock]
  BY <1>1 DEF Push, phoneVars, remoteVars
<1>3. /\ job \in Job /\ job.start \in Nat /\ job.max \in Nat /\ now \in Nat
      /\ job.start = pushCursor /\ job.start <= job.max /\ job.max <= now /\ pushCursor <= now
  BY <1>2, JobFacts DEF Inv, PushCovers, PushPhases, Typed, TypeOK
\* What is not read is the server's already, for it is ahead of the phone's clock.
<1>4. ASSUME NEW id \in Ids, Coll[id] = job.coll, mem[id] # NoRec, mem[id].at > job.start
      PROVE  id \in changed \/ Had(remote[id], undone[id], mem[id])
  <2>1. mem[id] \in Record /\ mem[id].at \in Nat
    BY <1>4, IdFacts
  <2>2. CASE mem[id].at > now
    BY <1>4, <2>2 DEF Inv, AheadIsRemote
  <2>3. CASE ~(mem[id].at > now)
    <3>1. StampOf(mem[id], now) = mem[id].at
      BY <1>3, <2>1, <2>3, StampFacts
    <3>2. id \in DOMAIN mem
      BY DEF Inv, Typed, TypeOK, Store
    <3> QED BY <1>1, <1>4, <3>1, <3>2 DEF ChangedSince, Of
  <2> QED BY <2>2, <2>3
<1>5. CASE changed = {}
  <2>1. \A id \in Ids \ fresh' :
          Coll[id] = job.coll /\ Coll[id] \notin job.refused
          /\ mem[id] # NoRec /\ mem[id].at > job.start => Had(remote[id], undone[id], mem[id])
    BY <1>4, <1>5
  <2> QED BY <1>2, <1>3, <1>5, <2>1, NextPushInv
<1>6. CASE changed # {}
  <2>1. \A id \in changed : mem[id] # NoRec /\ Coll[id] = job.coll /\ mem[id] \in Record
    BY <1>1, IdFacts DEF ChangedSince, Of
  <2>2. PICK rows \in Rows :
           rows = Sub(mem, changed) /\ DOMAIN rows = changed /\ \A id \in changed : rows[id] = mem[id]
    BY <2>1, RowsFacts
  <2>3. /\ job' = [job EXCEPT !.pc = "pushing", !.rows = rows, !.time = RemoteClock]
        /\ "pushing" \in Phases /\ RemoteClock \in Nat /\ now <= RemoteClock
    BY <1>2, <1>3, <1>6, <2>2, HubAssumption DEF Phases, RemoteClock
  <2>4. /\ job' \in Job /\ job'.pc = "pushing" /\ job'.coll = job.coll
        /\ job'.start = job.start /\ job'.max = job.max /\ job'.refused = job.refused
        /\ job'.rows = rows /\ job'.time = RemoteClock
    BY <1>3, <2>3 DEF Job
  <2>5. Typed'
    <3>1. emitted' \in BOOLEAN /\ fresh' \subseteq Ids
      BY <1>2 DEF Inv, Typed, TypeOK
    <3>2. DOMAIN job'.rows \subseteq Of(job'.coll) /\ (job'.pc = "wait" => job' = NoJob)
      BY <1>1, <2>2, <2>4
    <3> QED BY <1>2, <2>4, <3>1, <3>2, JobTyped
  <2>6. UNCHANGED <<now, remote, undone, mem, file, pushCursor, pullCursor, skipped, late, lost>>
    BY <1>2 DEF cursors
  <2>7. ServerNotAhead' /\ AheadIsRemote' /\ FileIsBehind' /\ Forwarded' /\ PulledOrLate'
    BY <2>6, RecordsUntouched
  <2>8. PushCovers'
    <3>1. ASSUME NEW id \in Ids \ fresh', Read(id)', Coll[id] \notin job.refused,
                 mem[id] # NoRec, mem[id].at > job.start
          PROVE  Had(remote[id], undone[id], mem[id]) \/ (id \in DOMAIN rows /\ rows[id] = mem[id])
      <4>1. CASE Coll[id] = job.coll
        BY <1>4, <2>2, <3>1, <4>1
      <4>2. CASE Coll[id] # job.coll
        <5>1. Read(id) /\ id \in Ids \ fresh
          BY <1>2, <2>4, <3>1, <4>2 DEF Read, PushPhases, Of
        <5> QED BY <1>2, <3>1, <5>1 DEF Inv, PushCovers, PushPhases
      <4> QED BY <4>1, <4>2
    <3>2. ASSUME NEW id \in changed
          PROVE  rows[id].at <= RemoteClock \/ Had(remote[id], undone[id], rows[id])
      <4>1. mem[id] \in Record /\ mem[id].at \in Nat /\ mem[id] # NoRec
        BY <2>1, RecordFacts
      <4>2. mem[id].at <= now \/ Had(remote[id], undone[id], mem[id])
        BY <1>3, <4>1 DEF Inv, AheadIsRemote
      <4> QED BY <1>3, <2>2, <2>3, <4>1, <4>2
    <3>3. \A id \in DOMAIN job'.rows :
            job'.rows[id].at <= job'.time \/ Had(remote'[id], undone'[id], job'.rows[id])
      BY <2>2, <2>4, <2>6, <3>2
    <3> QED BY <1>3, <1>6, <2>2, <2>4, <2>6, <3>1, <3>3 DEF PushCovers, Had
  <2>9. PullCovers'
    BY <2>4 DEF PullCovers
  <2> QED BY <2>5, <2>7, <2>8, <2>9 DEF Inv
<1> QED BY <1>5, <1>6

(* The server took the push, or refused it.                                *)
LEMMA PushOverInv ==
    ASSUME Inv, PushConfirmed \/ PushRefused
    PROVE  Inv'
<1>1. /\ job.pc \in {"pushing", "confirmed"}
      /\ UNCHANGED <<now, remote, undone, mem, file, unfiled, cursors, bounds, emitted, fresh, skipped, late, lost>>
  BY DEF PushConfirmed, PushRefused, phoneVars, history, remoteVars
<1>2. /\ job \in Job /\ job.start \in Nat /\ job.max \in Nat /\ now \in Nat
      /\ job.max <= now /\ job.rows \in Rows /\ DOMAIN job.rows # {}
  BY <1>1, JobFacts DEF Inv, PushCovers, PushPhases, Typed, TypeOK
<1>3. PICK j \in Job :
         /\ job' = NextPush(j)
         /\ j.coll = job.coll /\ j.start = job.start /\ job.max <= j.max /\ j.max <= now
         /\ job.refused \subseteq j.refused
         /\ job.pc = "confirmed" \/ job.coll \in j.refused
  <2>1. CASE PushConfirmed
    <3>1. PICK m \in Nat : m = Larger(job.max, LargestStamp(job.rows))
                           /\ job.max <= m /\ m <= now
      <4>1. LargestStamp(job.rows) \in Nat /\ LargestStamp(job.rows) <= now
        BY <1>2, LargestFacts
      <4> QED BY <1>2, <4>1 DEF Larger
    <3>2. PICK j : j = [job EXCEPT !.max = m]
      OBVIOUS
    <3>3. /\ j \in Job /\ j.coll = job.coll /\ j.start = job.start /\ j.max = m
          /\ j.refused = job.refused
      BY <1>2, <3>2 DEF Job
    <3> QED BY <2>1, <3>1, <3>2, <3>3 DEF PushConfirmed
  <2>2. CASE PushRefused
    <3>1. PICK j : j = [job EXCEPT !.refused = @ \cup {job.coll}]
      OBVIOUS
    <3>2. job.coll \in Colls /\ job.refused \subseteq Colls
      BY JobFacts
    <3>3. /\ j \in Job /\ j.coll = job.coll /\ j.start = job.start /\ j.max = job.max
          /\ j.refused = job.refused \cup {job.coll}
      BY <1>2, <3>1, <3>2 DEF Job
    <3>4. job' = NextPush(j)
      BY <2>2, <3>1 DEF PushRefused
    <3> QED BY <1>2, <3>3, <3>4
  <2> QED BY <2>1, <2>2
<1>4. \A id \in Ids \ fresh' :
         Coll[id] = job.coll /\ Coll[id] \notin j.refused
         /\ mem[id] # NoRec /\ mem[id].at > job.start => Had(remote[id], undone[id], mem[id])
  BY <1>1, <1>3 DEF Inv, PushCovers, Read, PushPhases
<1>5. job.pc \in {"push", "pushing", "confirmed"} /\ (fresh' = fresh \/ fresh' = fresh \ Of(job.coll))
  BY <1>1
<1> QED BY <1>1, <1>3, <1>4, <1>5, NextPushInv

(* The push cursor moves: what it passes over was read and is the server's,*)
(* or was stored since, or refused.                                        *)
LEMMA SetPushCursorInv ==
    ASSUME Inv, SetPushCursor
    PROVE  Inv'
<1>1. /\ job.pc = "pushed" /\ pushCursor' = job.max
      /\ skipped' = skipped \cup {id \in Ids :
            job.max > job.start /\ (id \in fresh \/ Coll[id] \in job.refused)}
      /\ job' = [job EXCEPT !.pc = "pull"]
      /\ emitted' = (emitted \/ job.max > job.start)
      /\ UNCHANGED <<now, remote, undone, mem, file, unfiled, pullCursor, kills, inputs, fresh, late, lost>>
  BY DEF SetPushCursor, phoneVars, bounds, remoteVars
<1>2. /\ job \in Job /\ job.start \in Nat /\ job.max \in Nat /\ now \in Nat
      /\ job.start = pushCursor /\ job.start <= job.max /\ job.max <= now
      /\ \A id \in Ids \ fresh :
            Coll[id] \notin job.refused /\ mem[id] # NoRec /\ mem[id].at > job.start
            => Had(remote[id], undone[id], mem[id])
  BY <1>1, JobFacts DEF Inv, PushCovers, PushPhases, Read, Typed, TypeOK
<1>3. /\ job' \in Job /\ job'.pc = "pull" /\ job'.coll = job.coll /\ job'.rows = job.rows
  BY <1>1, <1>2 DEF Job, Phases
<1>4. Typed'
  <2>1. /\ job'.pc \in Phases /\ job'.coll \in Colls /\ job'.cancelled \in BOOLEAN
        /\ job'.start \in Nat /\ job'.max \in Nat /\ job'.time \in Nat
        /\ job'.refused \subseteq Colls
        /\ DOMAIN job'.rows \subseteq Of(job'.coll)
        /\ \A id \in DOMAIN job'.rows : job'.rows[id] \in Record
    BY <1>3, JobFacts DEF Job
  <2>2. emitted' \in BOOLEAN
    BY <1>1
  <2>3. skipped' \subseteq Ids /\ pushCursor' \in Nat
    BY <1>1, <1>2 DEF Inv, Typed, TypeOK
  <2> QED BY <1>1, <1>3, <2>1, <2>2, <2>3 DEF Inv, Typed, TypeOK
<1>5. ServerNotAhead' /\ AheadIsRemote' /\ FileIsBehind' /\ PulledOrLate'
  BY <1>1 DEF Inv, ServerNotAhead, RemoteClock, AheadIsRemote, FileIsBehind, Had, PulledOrLate
<1>6. Forwarded'
  <2> SUFFICES ASSUME NEW id \in Ids \ skipped'
               PROVE  /\ mem[id] # NoRec /\ mem[id].at <= job.max => Had(remote[id], undone[id], mem[id])
                      /\ file[id] # NoRec /\ file[id].at <= job.max => Had(remote[id], undone[id], file[id])
    BY <1>1 DEF Forwarded, Had
  <2>1. /\ mem[id] # NoRec => mem[id].at \in Nat
        /\ file[id] # NoRec => file[id].at \in Nat
        /\ remote[id] # NoRec => remote[id].at \in Nat
        /\ undone[id] \in Nat
    BY IdFacts
  <2>2. /\ mem[id] # NoRec /\ mem[id].at <= job.start => Had(remote[id], undone[id], mem[id])
        /\ file[id] # NoRec /\ file[id].at <= job.start => Had(remote[id], undone[id], file[id])
    BY <1>1, <1>2 DEF Inv, Forwarded
  <2>3. CASE job.max = job.start
    BY <2>2, <2>3
  <2>4. CASE job.max > job.start
    <3>1. id \notin fresh /\ Coll[id] \notin job.refused
      BY <1>1, <2>4
    <3>2. mem[id] # NoRec => Had(remote[id], undone[id], mem[id])
      BY <1>2, <2>1, <2>2, <3>1
    <3>3. ASSUME file[id] # NoRec PROVE Had(remote[id], undone[id], file[id])
      <4>1. /\ mem[id] # NoRec
            /\ file[id].at <= mem[id].at \/ Had(remote[id], undone[id], file[id])
        BY <3>3 DEF Inv, FileIsBehind
      <4> QED BY <2>1, <3>2, <3>3, <4>1 DEF Had
    <3> QED BY <3>2, <3>3
  <2> QED BY <1>2, <2>3, <2>4
<1>7. PushCovers' /\ PullCovers'
  BY <1>1, <1>2, <1>3 DEF PushCovers, PullCovers, PushPhases
<1> QED BY <1>4, <1>5, <1>6, <1>7 DEF Inv

(* Time passes.                                                            *)
LEMMA TickInv ==
    ASSUME Inv, Tick
    PROVE  Inv'
<1>1. /\ now \in Nat /\ now' = now + 1 /\ now' \in 0..MaxTime
      /\ UNCHANGED <<remote, undone, mem, file, unfiled, pushCursor, pullCursor, job, emitted,
                     kills, inputs, fresh, skipped, late, lost>>
  BY HubAssumption DEF Tick, Inv, Typed, TypeOK, phoneVars, cursors, bounds, history, remoteVars
<1>2. Typed'
  BY <1>1 DEF Inv, Typed, TypeOK
<1>3. /\ RemoteClock \in Nat /\ RemoteClock' = RemoteClock + 1
  BY <1>1, HubAssumption DEF RemoteClock
<1>4. ServerNotAhead'
  BY <1>1, <1>3, IdFacts DEF ServerNotAhead
<1>5. AheadIsRemote'
  <2>1. ASSUME NEW id \in Ids
        PROVE  /\ mem[id] # NoRec /\ mem[id].at > now' => Had(remote[id], undone[id], mem[id])
               /\ file[id] # NoRec /\ file[id].at > now' => Had(remote[id], undone[id], file[id])
    BY <1>1, IdFacts DEF Inv, AheadIsRemote
  <2> QED BY <1>1, <2>1 DEF AheadIsRemote, Had
<1>6. FileIsBehind' /\ Forwarded' /\ PulledOrLate' /\ PullCovers'
  BY <1>1 DEF Inv, FileIsBehind, Forwarded, PulledOrLate, PullCovers, Had
<1>7. PushCovers'
  <2>1. pushCursor \in Nat /\ pushCursor <= now'
    BY <1>1 DEF Inv, Typed, TypeOK, PushCovers
  <2>2. job.pc \in PushPhases => job.max <= now'
    BY <1>1, JobFacts DEF Inv, PushCovers
  <2> QED BY <1>1, <2>1, <2>2 DEF Inv, PushCovers, Read, Had
<1> QED BY <1>2, <1>4, <1>5, <1>6, <1>7 DEF Inv

(* The companion starts again from its file.                               *)
LEMMA KillInv ==
    ASSUME Inv, Kill
    PROVE  Inv'
<1>1. /\ file' \in {file, Empty} /\ mem' = file' /\ job' = NoJob /\ emitted' = FALSE
      /\ lost' = lost \cup {id \in Ids : mem'[id] # mem[id]} /\ unfiled' = {}
      /\ UNCHANGED <<now, remote, undone, pushCursor, pullCursor, inputs, fresh, skipped, late>>
  BY DEF Kill, cursors, remoteVars
<1>2. kills' \in 0..MaxKills
  BY HubAssumption DEF Kill, Inv, Typed, TypeOK
<1>3. \A id \in Ids : mem'[id] = file'[id] /\ (file'[id] = file[id] \/ file'[id] = NoRec)
  BY <1>1 DEF Empty
<1>4. file' \in Store
  BY <1>1 DEF Inv, Typed, TypeOK, Empty, Store
<1>5. Typed'
  <2>1. /\ job'.pc \in Phases /\ job'.coll \in Colls /\ job'.cancelled \in BOOLEAN
        /\ job'.start \in Nat /\ job'.max \in Nat /\ job'.time \in Nat
        /\ job'.refused \subseteq Colls /\ job' \in Job
        /\ DOMAIN job'.rows \subseteq Of(job'.coll)
        /\ \A id \in DOMAIN job'.rows : job'.rows[id] \in Record
    BY <1>1, NoJobFacts DEF Job
  <2>2. fresh' \cup skipped' \cup late' \cup lost' \cup unfiled' \subseteq Ids
    BY <1>1 DEF Inv, Typed, TypeOK
  <2> QED BY <1>1, <1>2, <1>4, <2>1, <2>2 DEF Inv, Typed, TypeOK
<1>6. ServerNotAhead' /\ AheadIsRemote' /\ Forwarded'
  BY <1>1, <1>3 DEF Inv, ServerNotAhead, RemoteClock, AheadIsRemote, Forwarded, Had
<1>7. FileIsBehind'
  <2>1. \A id \in Ids : file'[id] # NoRec => file'[id].at \in Nat
    BY <1>3, IdFacts
  <2> QED BY <1>3, <2>1 DEF FileIsBehind
<1>8. PulledOrLate'
  BY <1>1 DEF Inv, PulledOrLate
<1>9. PushCovers' /\ PullCovers'
  BY <1>1, NoJobFacts DEF Inv, PushCovers, PullCovers, PushPhases
<1> QED BY <1>5, <1>6, <1>7, <1>8, <1>9 DEF Inv

(* The page or the watch stores a record.                                  *)
LEMMA StoreLocalInv ==
    ASSUME Inv, NEW id \in Ids, NEW rec \in Records, StoreLocal(id, rec)
    PROVE  Inv'
<1>1. rec \in Record
  BY HubAssumption DEF Records, Record
<1>2. PICK batch \in Rows : batch = [i \in {id} |-> rec]
  <2>1. [i \in {id} |-> rec] \in [{id} -> Record] /\ {id} \in SUBSET Ids
    BY <1>1
  <2> QED BY <2>1 DEF Rows
<1>3. DOMAIN batch = {id} /\ batch[id] = rec
  BY <1>2
<1>4. /\ rec.at <= now /\ UpsertRecords(batch)
      /\ inputs < MaxInputs /\ inputs' = inputs + 1
      /\ fresh' = fresh \cup {id} /\ lost' = lost \cup WentBack
      /\ skipped' = IF rec.at <= pushCursor THEN skipped \cup {id} ELSE skipped
      /\ UNCHANGED <<now, remote, undone, pushCursor, pullCursor, job, emitted, kills, late>>
  BY <1>2 DEF StoreLocal, cursors, remoteVars
<1>5. /\ mem' \in Store /\ file' \in Store /\ unfiled' \subseteq Ids
      /\ \A i \in Ids : i # id => mem'[i] = mem[i]
  BY <1>3, <1>4, UpsertFacts
<1>6. Typed'
  <2>1. inputs' \in 0..MaxInputs
    BY <1>4, HubAssumption DEF Inv, Typed, TypeOK
  <2>2. WentBack \subseteq Ids
    BY DEF WentBack
  <2>3. fresh' \cup skipped' \cup late' \cup lost' \cup unfiled' \subseteq Ids
    BY <1>4, <1>5, <2>2 DEF Inv, Typed, TypeOK
  <2> QED BY <1>4, <1>5, <2>1, <2>3 DEF Inv, Typed, TypeOK
<1>7. ServerNotAhead'
  BY <1>4 DEF Inv, ServerNotAhead, RemoteClock
<1>8. AheadIsRemote' /\ FileIsBehind' /\ Forwarded'
  <2>1. rec.at \in Nat /\ pushCursor \in Nat
    BY <1>1, RecordFacts DEF Inv, Typed, TypeOK
  <2>2. \A i \in DOMAIN batch :
          /\ batch[i].at <= now \/ Had(remote[i], undone[i], batch[i])
          /\ \/ batch[i].at > pushCursor \/ Had(remote[i], undone[i], batch[i])
             \/ i \in skipped'
    BY <1>3, <1>4, <2>1
  <2>3. UNCHANGED <<now, remote, undone, pushCursor>> /\ skipped \subseteq skipped'
    BY <1>4
  <2> QED BY <1>4, <2>2, <2>3, UpsertInv
<1>9. /\ PulledOrLate'
      /\ \A i \in Ids : remote[i] # NoRec /\ mem[i] # NoRec /\ mem[i].at >= remote[i].at
            => i \in lost' \/ (mem'[i] # NoRec /\ mem'[i].at >= remote[i].at)
  <2>1. UNCHANGED <<remote, undone, pullCursor, late>>
    BY <1>4
  <2> QED BY <1>4, <2>1, StoredIsPulled
<1>10. PushCovers'
  BY <1>4, <1>5 DEF Inv, PushCovers, Read, Had
<1>11. PullCovers'
  BY <1>4, <1>9 DEF Inv, PullCovers, Had
<1> QED BY <1>6, <1>7, <1>8, <1>9, <1>10, <1>11 DEF Inv

(* Another device stores a record at the server.                           *)
LEMMA OthersPostInv ==
    ASSUME Inv, NEW id \in Ids, NEW rec \in Records, OthersPost(id, rec)
    PROVE  Inv'
<1>1. rec \in Record
  BY HubAssumption DEF Records, Record
<1>2. PICK rows \in Rows : rows = [i \in {id} |-> rec]
  <2>1. [i \in {id} |-> rec] \in [{id} -> Record] /\ {id} \in SUBSET Ids
    BY <1>1
  <2> QED BY <2>1 DEF Rows
<1>8. PICK t \in 1..RemoteClock : Receive(rows, t)
  BY <1>2 DEF OthersPost
<1>9. t \in Nat /\ t <= RemoteClock
  BY HubAssumption DEF Inv, Typed, TypeOK, RemoteClock
<1>3. /\ Receive(rows, t) /\ inputs < MaxInputs /\ inputs' = inputs + 1
      /\ UNCHANGED <<now, mem, file, unfiled, cursors, pushCursor, pullCursor, job, emitted,
                     kills, fresh, skipped, lost>>
  BY <1>8 DEF OthersPost, phoneVars, cursors
<1>4. remote' \in Store /\ undone' \in [Ids -> Nat] /\ late' \subseteq Ids
  BY <1>3, <1>9, ReceiveFacts
<1>5. Typed'
  <2>1. inputs' \in 0..MaxInputs
    BY <1>3, HubAssumption DEF Inv, Typed, TypeOK
  <2> QED BY <1>3, <1>4, <2>1 DEF Inv, Typed, TypeOK
<1>6. /\ ServerNotAhead' /\ AheadIsRemote' /\ FileIsBehind' /\ Forwarded'
      /\ PulledOrLate' /\ PullCovers'
  BY <1>3, <1>9, ReceiveInv
<1>7. PushCovers'
  <2>1. \A i \in Ids : mem[i] # NoRec /\ Had(remote[i], undone[i], mem[i]) => Had(remote'[i], undone'[i], mem[i])
    <3> TAKE i \in Ids
    <3>1. mem[i] # NoRec => mem[i] \in Record
      BY IdFacts
    <3> QED BY <1>3, <1>9, <3>1, ReceiveKeeps
  <2>2. \A i \in DOMAIN job.rows : Had(remote[i], undone[i], job.rows[i])
                                  => Had(remote'[i], undone'[i], job.rows[i])
    <3> TAKE i \in DOMAIN job.rows
    <3>1. i \in Ids /\ job.rows[i] \in Record
      BY JobFacts
    <3> QED BY <1>3, <1>9, <3>1, ReceiveKeeps
  <2> QED BY <1>3, <2>1, <2>2 DEF Inv, PushCovers, Read, Had
<1> QED BY <1>5, <1>6, <1>7 DEF Inv

(* The server takes what the forwarder pushes.                             *)
LEMMA HandlePushInv ==
    ASSUME Inv, HandlePush
    PROVE  Inv'
<1>1. PICK rows \in Rows : rows = job.rows
  BY JobFacts
<1>9. PICK t \in job.time..RemoteClock : Receive(rows, t)
  BY <1>1 DEF HandlePush
<1>10. t \in Nat /\ job.time <= t /\ t <= RemoteClock
  BY HubAssumption DEF Inv, Typed, TypeOK, RemoteClock
<1>2. /\ job.pc = "pushing" /\ Receive(rows, t)
      /\ job' = [job EXCEPT !.pc = "confirmed", !.time = 0]
      /\ UNCHANGED <<now, mem, file, unfiled, cursors, pushCursor, pullCursor, emitted,
                     kills, inputs, fresh, skipped, lost>>
  BY <1>9 DEF HandlePush, phoneVars, cursors, bounds
<1>3. /\ job' \in Job /\ job'.pc = "confirmed" /\ job'.coll = job.coll
      /\ job'.start = job.start /\ job'.max = job.max /\ job'.refused = job.refused
      /\ job'.rows = job.rows
  BY <1>2, JobFacts DEF Job, Phases
<1>4. remote' \in Store /\ undone' \in [Ids -> Nat] /\ late' \subseteq Ids
  BY <1>2, <1>10, ReceiveFacts
<1>5. Typed'
  <2>1. /\ job'.pc \in Phases /\ job'.coll \in Colls /\ job'.cancelled \in BOOLEAN
        /\ job'.start \in Nat /\ job'.max \in Nat /\ job'.time \in Nat
        /\ job'.refused \subseteq Colls
        /\ DOMAIN job'.rows \subseteq Of(job'.coll)
        /\ \A id \in DOMAIN job'.rows : job'.rows[id] \in Record
    BY <1>3, JobFacts DEF Job
  <2> QED BY <1>2, <1>3, <1>4, <2>1 DEF Inv, Typed, TypeOK
<1>6. /\ ServerNotAhead' /\ AheadIsRemote' /\ FileIsBehind' /\ Forwarded'
      /\ PulledOrLate'
  BY <1>2, <1>10, ReceiveInv
<1>7. PushCovers'
  <2>1. /\ pushCursor <= now /\ job.start = pushCursor /\ job.start <= job.max /\ job.max <= now
        /\ DOMAIN job.rows # {}
    BY <1>2 DEF Inv, PushCovers, PushPhases
  <2>2. ASSUME NEW id \in Ids \ fresh, Read(id), Coll[id] \notin job.refused,
               mem[id] # NoRec, mem[id].at > job.start
        PROVE  Had(remote'[id], undone'[id], mem[id])
    <3>1. mem[id] \in Record
      BY <2>2, IdFacts
    <3>2. CASE Had(remote[id], undone[id], mem[id])
      BY <1>2, <1>10, <3>1, <3>2, ReceiveKeeps
    <3>3. CASE ~Had(remote[id], undone[id], mem[id])
      <4>1. id \in DOMAIN rows /\ rows[id] = mem[id]
        BY <1>1, <1>2, <2>2, <3>3 DEF Inv, PushCovers, PushPhases
      <4>2. mem[id].at <= job.time
        BY <1>1, <1>2, <3>3, <4>1 DEF Inv, PushCovers
      <4>3. mem[id].at <= t /\ id \in Ids
        BY <1>10, <2>2, <3>1, <4>2, JobFacts, RecordFacts
      <4> QED BY <1>2, <1>10, <4>1, <4>3, ReceiveFacts
    <3> QED BY <3>2, <3>3
  <2>3. \A id \in Ids : Read(id)' => Read(id)
    BY <1>2, <1>3 DEF Read, PushPhases
  <2> QED BY <1>2, <1>3, <2>1, <2>2, <2>3 DEF PushCovers, Had
<1>8. PullCovers'
  BY <1>3 DEF PullCovers
<1> QED BY <1>5, <1>6, <1>7, <1>8 DEF Inv

(* The server answers a pull.                                              *)
LEMMA HandlePullInv ==
    ASSUME Inv, HandlePull
    PROVE  Inv'
<1>1. PICK ids \in SUBSET Ids :
         ids = ChangedSince(remote, pullCursor[job.coll], RemoteClock) \cap Of(job.coll)
  BY DEF Of
<1>2. \A id \in ids : Coll[id] = job.coll /\ remote[id] # NoRec /\ remote[id] \in Record
  BY <1>1, IdFacts DEF ChangedSince, Of
<1>3. PICK rows \in Rows :
         rows = Sub(remote, ids) /\ DOMAIN rows = ids /\ \A id \in ids : rows[id] = remote[id]
  BY <1>2, RowsFacts
<1>4. /\ job.pc = "pulling"
      /\ job' = [job EXCEPT !.pc = "pulled", !.rows = rows, !.time = RemoteClock]
      /\ UNCHANGED <<now, remote, undone, mem, file, unfiled, cursors, bounds, emitted, fresh, skipped, late, lost>>
  BY <1>1, <1>3 DEF HandlePull, phoneVars, history, remoteVars
<1>5. RemoteClock \in Nat
  BY HubAssumption DEF RemoteClock, Inv, Typed, TypeOK
<1>6. /\ job' \in Job /\ job'.pc = "pulled" /\ job'.coll = job.coll
      /\ job'.rows = rows /\ job'.time = RemoteClock
  BY <1>4, <1>5, JobFacts DEF Job, Phases
<1>7. Typed'
  <2>1. emitted' \in BOOLEAN /\ fresh' \subseteq Ids
    BY <1>4 DEF Inv, Typed, TypeOK
  <2>2. DOMAIN job'.rows \subseteq Of(job'.coll) /\ (job'.pc = "wait" => job' = NoJob)
    BY <1>1, <1>3, <1>6
  <2> QED BY <1>4, <1>6, <2>1, <2>2, JobTyped
<1>8. UNCHANGED <<now, remote, undone, mem, file, pushCursor, pullCursor, skipped, late, lost>>
  BY <1>4 DEF cursors
<1>9. ServerNotAhead' /\ AheadIsRemote' /\ FileIsBehind' /\ Forwarded' /\ PulledOrLate'
  BY <1>8, RecordsUntouched
<1>10. PushCovers'
  BY <1>6, <1>8 DEF Inv, PushCovers, PushPhases
<1>11. PullCovers'
  <2>1. ASSUME NEW id \in Ids, Coll[id] = job.coll, remote[id] # NoRec
        PROVE  \/ remote[id].at <= pullCursor[job.coll]
               \/ id \in DOMAIN rows /\ rows[id].at = remote[id].at
    <3>1. /\ remote[id] \in Record /\ remote[id].at \in Nat /\ remote[id].at <= RemoteClock
          /\ pullCursor[job.coll] \in Nat
      BY <2>1, IdFacts
    <3>2. StampOf(remote[id], RemoteClock) = remote[id].at
      BY <1>5, <3>1, StampFacts
    <3>3. id \in DOMAIN remote
      BY DEF Inv, Typed, TypeOK, Store
    <3>4. remote[id].at > pullCursor[job.coll] => id \in ids
      BY <1>1, <2>1, <3>2, <3>3 DEF ChangedSince, Of
    <3> QED BY <1>3, <3>1, <3>4
  <2>2. \A id \in ids : Had(remote[id], undone[id], rows[id])
    <3> TAKE id \in ids
    <3>1. remote[id] # NoRec /\ remote[id].at \in Nat /\ rows[id] = remote[id]
      BY <1>2, <1>3, RecordFacts
    <3> QED BY <3>1 DEF Had
  <2> QED BY <1>3, <1>6, <1>8, <2>1, <2>2 DEF PullCovers, Had
<1> QED BY <1>7, <1>9, <1>10, <1>11 DEF Inv

(* The phone stores what it pulled.                                        *)
LEMMA StorePulledInv ==
    ASSUME Inv, StorePulled
    PROVE  Inv'
<1>1. PICK rows \in Rows : rows = job.rows
  BY JobFacts
<1>2. /\ job.pc = "pulled" /\ UpsertRecords(rows) /\ lost' = lost \cup WentBack
      /\ job' = [job EXCEPT !.pc = "stored"]
      /\ UNCHANGED <<now, remote, undone, pushCursor, pullCursor, emitted, kills, inputs, fresh, skipped, late>>
  BY <1>1 DEF StorePulled, cursors, bounds, remoteVars
<1>3. /\ job' \in Job /\ job'.pc = "stored" /\ job'.coll = job.coll
      /\ job'.rows = job.rows /\ job'.time = job.time
  BY <1>2, JobFacts DEF Job, Phases
<1>4. /\ mem' \in Store /\ file' \in Store /\ unfiled' \subseteq Ids
      /\ \A id \in Ids :
           \/ id \in DOMAIN rows /\ mem'[id] = rows[id]
           \/ mem'[id] = mem[id]
              /\ (id \in DOMAIN rows =>
                    mem[id] # NoRec /\ StampOf(rows[id], now) < StampOf(mem[id], now))
  BY <1>2, UpsertFacts
<1>5. Typed'
  <2>1. WentBack \subseteq Ids
    BY DEF WentBack
  <2>2. fresh' \cup skipped' \cup late' \cup lost' \cup unfiled' \subseteq Ids
    BY <1>2, <1>4, <2>1 DEF Inv, Typed, TypeOK
  <2>3. /\ job'.pc \in Phases /\ job'.coll \in Colls /\ job'.cancelled \in BOOLEAN
        /\ job'.start \in Nat /\ job'.max \in Nat /\ job'.time \in Nat
        /\ job'.refused \subseteq Colls
        /\ DOMAIN job'.rows \subseteq Of(job'.coll)
        /\ \A id \in DOMAIN job'.rows : job'.rows[id] \in Record
    BY <1>3, JobFacts DEF Job
  <2> QED BY <1>2, <1>3, <1>4, <2>2, <2>3 DEF Inv, Typed, TypeOK
<1>6. ServerNotAhead'
  BY <1>2 DEF Inv, ServerNotAhead, RemoteClock
<1>7. AheadIsRemote' /\ FileIsBehind' /\ Forwarded'
  <2>1. \A id \in DOMAIN rows : Had(remote[id], undone[id], rows[id])
    BY <1>1, <1>2 DEF Inv, PullCovers
  <2>2. UNCHANGED <<now, remote, undone, pushCursor>> /\ skipped \subseteq skipped'
    BY <1>2
  <2> QED BY <1>2, <2>1, <2>2, UpsertInv
<1>8. /\ PulledOrLate'
      /\ \A id \in Ids : remote[id] # NoRec /\ mem[id] # NoRec /\ mem[id].at >= remote[id].at
            => id \in lost' \/ (mem'[id] # NoRec /\ mem'[id].at >= remote[id].at)
  <2>1. UNCHANGED <<remote, undone, pullCursor, late>>
    BY <1>2
  <2> QED BY <1>2, <2>1, StoredIsPulled
<1>9. PushCovers'
  BY <1>2, <1>3 DEF Inv, PushCovers, PushPhases
<1>10. PullCovers'
  <2>1. ASSUME NEW id \in Ids, Coll[id] = job.coll, remote[id] # NoRec, remote[id].at <= job.time
        PROVE  \/ id \in late \cup lost'
               \/ remote[id].at <= pullCursor[job.coll]
               \/ mem'[id] # NoRec /\ mem'[id].at >= remote[id].at
    <3>1. \/ id \in late \cup lost
          \/ remote[id].at <= pullCursor[job.coll]
          \/ mem[id] # NoRec /\ mem[id].at >= remote[id].at
          \/ id \in DOMAIN rows /\ rows[id].at = remote[id].at
      BY <1>1, <1>2, <2>1 DEF Inv, PullCovers
    <3>2. CASE id \in DOMAIN rows /\ rows[id].at = remote[id].at
      <4>1. rows[id] \in Record /\ rows[id].at \in Nat /\ rows[id] # NoRec /\ now \in Nat
        BY <3>2, RowsFacts, RecordFacts, IdFacts
      <4>2. CASE mem'[id] = rows[id]
        BY <3>2, <4>1, <4>2
      <4>3. CASE mem'[id] # rows[id]
        <5>1. mem'[id] = mem[id] /\ mem[id] # NoRec
              /\ StampOf(rows[id], now) < StampOf(mem[id], now)
          BY <1>4, <3>2, <4>3
        <5>2. mem[id] \in Record /\ mem[id].at \in Nat
          BY <5>1, IdFacts
        <5>3. mem[id].at >= rows[id].at
          BY <4>1, <5>1, <5>2 DEF StampOf, RawStampOf, ClampStamp
        <5> QED BY <3>2, <5>1, <5>3
      <4> QED BY <4>2, <4>3
    <3> QED BY <1>2, <1>8, <2>1, <3>1, <3>2
  <2> QED BY <1>2, <1>3, <2>1 DEF PullCovers
<1> QED BY <1>5, <1>6, <1>7, <1>8, <1>9, <1>10 DEF Inv

(* The pull cursor moves to the time of the answer.                        *)
LEMMA SetPullCursorInv ==
    ASSUME Inv, SetPullCursor
    PROVE  Inv'
<1>1. /\ job.pc = "stored"
      /\ pullCursor' = [pullCursor EXCEPT ![job.coll] = Larger(@, job.time)]
      /\ job' = NextPull(job) /\ emitted' \in {emitted, TRUE}
      /\ UNCHANGED <<now, remote, undone, mem, file, unfiled, pushCursor, kills, inputs, fresh, skipped, late, lost>>
  BY DEF SetPullCursor, phoneVars, bounds, history, remoteVars
<1>2. /\ job' \in Job /\ DOMAIN job'.rows = {} /\ job'.pc \in {"wait", "pull"}
      /\ job'.pc = "wait" => job' = NoJob
  BY <1>1, NextPullFacts
<1>3. /\ pullCursor \in [Colls -> Nat] /\ job.coll \in Colls /\ job.time \in Nat
  BY JobFacts DEF Inv, Typed, TypeOK
<1>4. pullCursor' \in [Colls -> Nat]
  BY <1>1, <1>3 DEF Larger
<1>5. Typed'
  <2>1. /\ job'.pc \in Phases /\ job'.coll \in Colls /\ job'.cancelled \in BOOLEAN
        /\ job'.start \in Nat /\ job'.max \in Nat /\ job'.time \in Nat
        /\ job'.refused \subseteq Colls
    BY <1>2 DEF Job
  <2>2. emitted' \in BOOLEAN
    BY <1>1 DEF Inv, Typed, TypeOK
  <2> QED BY <1>1, <1>2, <1>4, <2>1, <2>2 DEF Inv, Typed, TypeOK
<1>6. ServerNotAhead' /\ AheadIsRemote' /\ FileIsBehind' /\ Forwarded'
  BY <1>1 DEF Inv, ServerNotAhead, RemoteClock, AheadIsRemote, FileIsBehind, Forwarded, Had
<1>7. PulledOrLate'
  <2> SUFFICES ASSUME NEW id \in Ids, remote[id] # NoRec,
                      remote[id].at <= pullCursor'[Coll[id]],
                      ~(mem[id] # NoRec /\ mem[id].at >= remote[id].at)
               PROVE  id \in late \cup lost
    BY <1>1 DEF PulledOrLate
  <2>1. CASE remote[id].at <= pullCursor[Coll[id]]
    BY <2>1 DEF Inv, PulledOrLate
  <2>2. CASE ~(remote[id].at <= pullCursor[Coll[id]])
    <3>1. Coll[id] = job.coll /\ pullCursor'[Coll[id]] = job.time
      BY <1>1, <1>3, <2>2, IdFacts DEF Larger
    <3> QED BY <1>1, <2>2, <3>1 DEF Inv, PullCovers
  <2> QED BY <2>1, <2>2
<1>8. PushCovers' /\ PullCovers'
  BY <1>1, <1>2 DEF Inv, PushCovers, PullCovers, PushPhases
<1> QED BY <1>5, <1>6, <1>7, <1>8 DEF Inv

-----------------------------------------------------------------------------
(* Nothing is stored anywhere at first.                                    *)
LEMMA InitInv == Init => Inv
<1> SUFFICES ASSUME Init PROVE Inv
  OBVIOUS
<1>1. /\ now = 1 /\ pushCursor = 0 /\ job = NoJob
      /\ \A id \in Ids : remote[id] = NoRec /\ mem[id] = NoRec /\ file[id] = NoRec
      /\ remote \in Store /\ mem \in Store /\ file \in Store
      /\ undone \in [Ids -> Nat]
  BY DEF Init, Empty, Store
<1>2. Typed
  <2>1. /\ now \in 0..MaxTime /\ pushCursor \in Nat /\ kills \in 0..MaxKills
        /\ inputs \in 0..MaxInputs /\ pullCursor \in [Colls -> Nat] /\ emitted \in BOOLEAN
        /\ fresh \cup skipped \cup late \cup lost \cup unfiled \subseteq Ids
    <3>1. 1 \in 0..MaxTime /\ 0 \in 0..MaxKills /\ 0 \in 0..MaxInputs
      BY HubAssumption
    <3>2. FALSE \in BOOLEAN /\ [c \in Colls |-> 0] \in [Colls -> Nat]
      OBVIOUS
    <3> QED BY <3>1, <3>2 DEF Init
  <2>2. /\ job.pc \in Phases /\ job.coll \in Colls /\ job.cancelled \in BOOLEAN
        /\ job.start \in Nat /\ job.max \in Nat /\ job.time \in Nat
        /\ job.refused \subseteq Colls /\ job \in Job
        /\ DOMAIN job.rows \subseteq Of(job.coll)
        /\ \A id \in DOMAIN job.rows : job.rows[id] \in Record
    BY <1>1, NoJobFacts DEF Job
  <2> QED BY <1>1, <2>1, <2>2 DEF Typed, TypeOK
<1>3. ServerNotAhead /\ AheadIsRemote /\ FileIsBehind /\ Forwarded /\ PulledOrLate
  BY <1>1 DEF ServerNotAhead, AheadIsRemote, FileIsBehind, Forwarded, PulledOrLate
<1>4. PushCovers /\ PullCovers
  BY <1>1, NoJobFacts DEF PushCovers, PullCovers, PushPhases
<1> QED BY <1>2, <1>3, <1>4 DEF Inv

(* Every step keeps the invariant.                                         *)
LEMMA StepInv == Inv /\ [Next]_vars => Inv'
<1> SUFFICES ASSUME Inv, [Next]_vars PROVE Inv'
  OBVIOUS
<1>1. CASE UNCHANGED vars
  <2>1. UNCHANGED <<now, remote, undone, mem, file, unfiled, pushCursor, pullCursor, job, emitted,
                    kills, inputs, fresh, skipped, late, lost>>
    BY <1>1 DEF vars, phoneVars, cursors, bounds, history, remoteVars
  <2>2. Typed'
    BY <2>1 DEF Inv, Typed, TypeOK
  <2>3. ServerNotAhead' /\ AheadIsRemote' /\ FileIsBehind' /\ Forwarded' /\ PulledOrLate'
    BY <2>1, RecordsUntouched
  <2>4. PushCovers' /\ PullCovers'
    BY <2>1 DEF Inv, PushCovers, Read, PullCovers, Had
  <2> QED BY <2>2, <2>3, <2>4 DEF Inv
<1>2. CASE Tick \/ Kill \/ ChangeSettings \/ ApplySettings
  BY <1>2, TickInv, KillInv, SettingsInv
<1>3. ASSUME NEW id \in Ids, NEW rec \in Records, StoreLocal(id, rec) \/ OthersPost(id, rec)
      PROVE  Inv'
  BY <1>3, StoreLocalInv, OthersPostInv
<1>4. CASE ForwarderStep
  BY <1>4, StartRunInv, PushInv, PushOverInv, SetPushCursorInv, GoesOnInv, StorePulledInv,
     SetPullCursorInv DEF ForwarderStep
<1>5. CASE HandlePush \/ HandlePull \/ PushRefused \/ PullRefused \/ RunFails
  BY <1>5, HandlePushInv, HandlePullInv, PushOverInv, GoesOnInv
<1> QED BY <1>1, <1>2, <1>3, <1>4, <1>5 DEF Next, Answered

(* The inductive invariant, for any records, collections and clocks.       *)
THEOREM Invariance == Spec => []Inv
<1>1. Init => Inv
  BY InitInv
<1>2. Inv /\ [Next]_vars => Inv'
  BY StepInv
<1> QED BY <1>1, <1>2, PTL DEF Spec

(* Every variable has its type, and a run that waits has forgotten the     *)
(* last one (RemoteForwarder.runOnce).                                     *)
THEOREM TypeCorrect == Spec => []TypeOK
<1>1. Inv => TypeOK
  BY DEF Inv, Typed
<1> QED BY <1>1, Invariance, PTL

(* What the one push cursor has passed and the server does not have was    *)
(* stored behind it, stored while its collection was pushed, or refused    *)
(* (RemoteForwarder.kt:22-30).                                             *)
THEOREM PushCursorSkipsOnlyThese == Spec => []ForwardedOrSkipped
<1>1. Inv => ForwardedOrSkipped
  BY ForwardedFollows
<1> QED BY <1>1, Invariance, PTL

(* What a pull cursor has passed and the phone does not have came late to  *)
(* the server or was lost by the phone (RemoteForwarder.kt:32-43).         *)
THEOREM PullCursorPassesOnlyThese == Spec => []PulledOrLate
<1>1. Inv => PulledOrLate
  BY DEF Inv
<1> QED BY <1>1, Invariance, PTL
=============================================================================
