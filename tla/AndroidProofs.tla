--------------------------- MODULE AndroidProofs ---------------------------
(***************************************************************************)
(* What the two Android apps promise for any bounds: the watch's delivery  *)
(* of its stops (WatchDelivery), and the phone's stop timer with the page  *)
(* that records what it timed (QuickStop).  The two modules share no       *)
(* variable, and each is reasoned about by itself.                         *)
(***************************************************************************)
EXTENDS QuickStop, WatchDelivery, SequenceTheorems, TLAPS

(* What is removed from the outbox was delivered: the sync removes what    *)
(* the server confirmed, the service what the phone holds or held.         *)
RemovalsAreOfDelivered ==
    /\ sync.pc \in {"read", "write"} => sync.queued \subseteq server
    /\ sync.pc = "write" => sync.id \in sync.queued
    /\ acker.pc = "write" => acker.id \in toWatch
    /\ toWatch \cup phone \subseteq phoneFile \cup unfiled
    /\ phoneFile \subseteq phone

WatchInv == WatchTypeOK /\ RemovalsAreOfDelivered /\ LossOnlyByRaceOrFailedWrite

(* A rewrite of the outbox loses the stop it is about and nothing else     *)
(* without recording it as raced.                                          *)
LEMMA WriteOutboxFacts ==
    ASSUME NEW list \in SUBSET Stops, NEW s \in Stops,
           outbox \subseteq Stops, raced \subseteq Stops,
           WriteOutbox(list, s)
    PROVE  /\ outbox' \subseteq Stops /\ raced' \subseteq Stops
           /\ list \subseteq outbox'
           /\ outbox \subseteq outbox' \cup raced' \cup {s}
           /\ raced \subseteq raced'
  BY DEF WriteOutbox

(* Nothing is saved yet. *)
LEMMA WatchInitInv == WatchInit => WatchInv
  BY WatchAssumption
  DEF WatchInit, WatchInv, WatchTypeOK, RemovalsAreOfDelivered, LossOnlyByRaceOrFailedWrite,
      Reached, Saver, NoSync, NoAck

(* The coroutine that saves a stop. *)
LEMMA SaverInv ==
    ASSUME WatchInv, NEW s \in Stops,
           Save(s) \/ AddRead(s) \/ AddWrite(s) \/ SendSaved(s)
    PROVE  WatchInv'
<1>1. CASE Save(s)
  BY <1>1 DEF Save, Saver, WatchInv, WatchTypeOK, RemovalsAreOfDelivered,
     LossOnlyByRaceOrFailedWrite, Reached, linkVars, remoteVars, watchHistory
<1>2. CASE AddRead(s)
  BY <1>2 DEF AddRead, WatchInv, WatchTypeOK, RemovalsAreOfDelivered,
     LossOnlyByRaceOrFailedWrite, Reached, linkVars, remoteVars, watchHistory
<1>3. CASE AddWrite(s)
  <2> DEFINE list == saver[s].seen \cup {s}
  <2>1. list \in SUBSET Stops
    BY DEF WatchInv, WatchTypeOK
  <2>2. WriteOutbox(list, s)
    BY <1>3 DEF AddWrite
  <2> HIDE DEF list
  <2>3. outbox' \subseteq Stops /\ raced' \subseteq Stops
        /\ list \subseteq outbox' /\ raced \subseteq raced'
        /\ outbox \subseteq outbox' \cup raced' \cup {s}
    BY <2>1, <2>2, WriteOutboxFacts DEF WatchInv, WatchTypeOK
  <2>4. s \in outbox'
    BY <2>3 DEF list
  <2>5. saver' = [saver EXCEPT ![s] = Saver("send")]
        /\ UNCHANGED <<sync, acker, linkVars, remoteVars, kills, unfiled>>
    BY <1>3 DEF AddWrite
  <2>6. WatchTypeOK' /\ RemovalsAreOfDelivered'
    BY <2>3, <2>5 DEF WatchInv, WatchTypeOK, Saver, RemovalsAreOfDelivered, linkVars,
       remoteVars
  <2>7. LossOnlyByRaceOrFailedWrite'
    BY <2>3, <2>4, <2>5 DEF WatchInv, WatchTypeOK, LossOnlyByRaceOrFailedWrite, Reached,
       Saver, linkVars, remoteVars
  <2> QED BY <2>6, <2>7 DEF WatchInv
<1>4. CASE SendSaved(s)
  BY <1>4 DEF SendSaved, Saver, WatchInv, WatchTypeOK, RemovalsAreOfDelivered,
     LossOnlyByRaceOrFailedWrite, Reached, remoteVars, watchHistory
<1> QED BY <1>1, <1>2, <1>3, <1>4

(* The server sync up to its removals. *)
LEMMA PushInv ==
    ASSUME WatchInv,
           \/ SyncStart \/ PushConfirmed \/ PushFails
           \/ \E s \in Stops : RemoveRead(s)
    PROVE  WatchInv'
<1> USE DEF WatchInv, WatchTypeOK, RemovalsAreOfDelivered, LossOnlyByRaceOrFailedWrite,
        Reached, NoSync, linkVars, remoteVars, watchHistory
<1>1. CASE SyncStart
  BY <1>1 DEF SyncStart
<1>2. CASE PushConfirmed
  BY <1>2 DEF PushConfirmed
<1>3. CASE PushFails
  BY <1>3, WatchAssumption DEF PushFails
<1>4. ASSUME NEW s \in Stops, RemoveRead(s) PROVE WatchInv'
  BY <1>4 DEF RemoveRead
<1> QED BY <1>1, <1>2, <1>3, <1>4

(* A removal by the sync drops a stop the server has. *)
LEMMA RemoveWriteInv == ASSUME WatchInv, RemoveWrite PROVE WatchInv'
<1> DEFINE list == sync.seen \ {sync.id}
<1>1. list \in SUBSET Stops /\ sync.id \in server /\ sync.id \in Stops
      /\ sync.pc = "write"
  BY DEF RemoveWrite, WatchInv, WatchTypeOK, RemovalsAreOfDelivered
<1>2. WriteOutbox(list, sync.id)
  BY DEF RemoveWrite
<1> HIDE DEF list
<1>3. outbox' \subseteq Stops /\ raced' \subseteq Stops /\ raced \subseteq raced'
      /\ outbox \subseteq outbox' \cup raced' \cup {sync.id}
  BY <1>1, <1>2, WriteOutboxFacts DEF WatchInv, WatchTypeOK
<1>4. UNCHANGED <<saver, acker, toPhone, toWatch, server, phone, phoneFile,
                  kills, unfiled>>
  BY DEF RemoveWrite, linkVars, remoteVars
<1>5. WatchTypeOK' /\ RemovalsAreOfDelivered'
  <2> DEFINE rest == sync.queued \ {sync.id}
  <2>1. sync' = IF rest = {} THEN NoSync
                ELSE [NoSync EXCEPT !.pc = "read", !.queued = rest]
    BY DEF RemoveWrite
  <2> QED BY <1>1, <1>3, <1>4, <2>1, WatchAssumption
          DEF WatchInv, WatchTypeOK, RemovalsAreOfDelivered, NoSync
<1>6. LossOnlyByRaceOrFailedWrite'
  BY <1>1, <1>3, <1>4 DEF WatchInv, LossOnlyByRaceOrFailedWrite, Reached
<1> QED BY <1>5, <1>6 DEF WatchInv

(* A removal by the service drops a stop the phone holds or held. *)
LEMMA AckInv ==
    ASSUME WatchInv, AckWrite \/ \E s \in Stops : AckRead(s)
    PROVE  WatchInv'
<1>1. CASE AckWrite
  <2> DEFINE list == acker.seen \ {acker.id}
  <2>1. list \in SUBSET Stops /\ acker.id \in phoneFile \cup unfiled
        /\ acker.id \in Stops
    BY <1>1 DEF AckWrite, WatchInv, WatchTypeOK, RemovalsAreOfDelivered
  <2>2. WriteOutbox(list, acker.id)
    BY <1>1 DEF AckWrite
  <2> HIDE DEF list
  <2>3. outbox' \subseteq Stops /\ raced' \subseteq Stops
        /\ raced \subseteq raced'
        /\ outbox \subseteq outbox' \cup raced' \cup {acker.id}
    BY <2>1, <2>2, WriteOutboxFacts DEF WatchInv, WatchTypeOK
  <2>4. acker' = NoAck /\ UNCHANGED <<saver, sync, toPhone, toWatch, server,
                                      phone, phoneFile, kills, unfiled>>
    BY <1>1 DEF AckWrite, linkVars, remoteVars
  <2>5. WatchTypeOK' /\ RemovalsAreOfDelivered'
    BY <2>3, <2>4 DEF WatchInv, WatchTypeOK, RemovalsAreOfDelivered, NoAck
  <2>6. LossOnlyByRaceOrFailedWrite'
    BY <2>1, <2>3, <2>4 DEF WatchInv, LossOnlyByRaceOrFailedWrite, Reached
  <2> QED BY <2>5, <2>6 DEF WatchInv
<1>2. ASSUME NEW s \in Stops, AckRead(s) PROVE WatchInv'
  BY <1>2 DEF AckRead, WatchInv, WatchTypeOK, RemovalsAreOfDelivered, linkVars,
     LossOnlyByRaceOrFailedWrite, Reached, remoteVars, watchHistory
<1> QED BY <1>1, <1>2

(* The phone keeps a stop in memory, and in its file unless it says not. *)
LEMMA PhoneInv ==
    ASSUME WatchInv, Resend \/ KillPhone \/ \E s \in Stops : PhoneStores(s)
    PROVE  WatchInv'
<1> USE DEF WatchInv, WatchTypeOK, RemovalsAreOfDelivered, LossOnlyByRaceOrFailedWrite,
        Reached, watchVars, linkVars, remoteVars, watchHistory
<1>1. CASE Resend
  BY <1>1 DEF Resend
<1>2. ASSUME NEW s \in Stops, PhoneStores(s) PROVE WatchInv'
  <2>1. phoneFile' \subseteq phone' /\ phoneFile' \subseteq Stops
    BY <1>2 DEF PhoneStores
  <2> QED BY <1>2, <2>1 DEF PhoneStores
<1>3. CASE KillPhone
  <2>1. phoneFile' \subseteq phoneFile /\ kills' \in 0..MaxKills
    BY <1>3, WatchAssumption DEF KillPhone
  <2> QED BY <1>3, <2>1 DEF KillPhone
<1> QED BY <1>1, <1>2, <1>3

(* A kill of the watch app leaves the outbox as it is. *)
LEMMA KillWatchInv == ASSUME WatchInv, KillWatch PROVE WatchInv'
<1>1. kills' \in 0..MaxKills
  BY WatchAssumption DEF KillWatch, WatchInv, WatchTypeOK
<1>2. saver' \in [Stops -> [pc : {"new", "read", "write", "send", "sent", "killed"},
                            seen : SUBSET Stops]]
  BY DEF KillWatch, WatchInv, WatchTypeOK, Saver
<1>3. \A s \in Stops : Reached(s)' => Reached(s)
  BY DEF KillWatch, WatchInv, WatchTypeOK, Saver, Reached
<1>4. WatchTypeOK' /\ RemovalsAreOfDelivered'
  BY <1>1, <1>2 DEF KillWatch, WatchInv, WatchTypeOK, RemovalsAreOfDelivered, NoSync,
     NoAck, linkVars, remoteVars
<1>5. LossOnlyByRaceOrFailedWrite'
  BY <1>3 DEF KillWatch, WatchInv, LossOnlyByRaceOrFailedWrite, remoteVars
<1> QED BY <1>4, <1>5 DEF WatchInv

(* The invariant, by one step per thread. *)
THEOREM WatchInvariance == WatchSpec => []WatchInv
<1>1. WatchInv /\ [WatchNext]_allWatchVars => WatchInv'
  <2> SUFFICES ASSUME WatchInv, [WatchNext]_allWatchVars PROVE WatchInv'
    OBVIOUS
  <2>1. CASE WatchNext
    BY <2>1, SaverInv, PushInv, RemoveWriteInv, AckInv, PhoneInv, KillWatchInv
    DEF WatchNext
  <2>2. CASE UNCHANGED allWatchVars
    BY <2>2 DEF allWatchVars, watchVars, linkVars, remoteVars, watchHistory, WatchInv, WatchTypeOK,
       RemovalsAreOfDelivered, LossOnlyByRaceOrFailedWrite, Reached
  <2> QED BY <2>1, <2>2
<1> QED BY WatchInitInv, <1>1, PTL DEF WatchSpec

(* Every variable keeps its type. *)
THEOREM WatchTypeCorrect == WatchSpec => []WatchTypeOK
<1>1. WatchInv => WatchTypeOK
  BY DEF WatchInv
<1> QED BY WatchInvariance, <1>1, PTL

(* A stop that addToOutbox wrote is never lost, but for two overlapping    *)
(* rewrites of the outbox or a file the phone did not write.               *)
THEOREM LostInTwoWaysOnly == WatchSpec => []LossOnlyByRaceOrFailedWrite
<1>1. WatchInv => LossOnlyByRaceOrFailedWrite
  BY DEF WatchInv
<1> QED BY WatchInvariance, <1>1, PTL

-----------------------------------------------------------------------------
(* QuickStop.  First its types, with what bounds every duration: a copy of *)
(* the timer, made by time t when b stops were begun, claims no more time  *)
(* than there was.                                                         *)
Timers(t, b) ==
    {x \in [id : 1..b \union {None}, running : BOOLEAN,
            accumulated : 0..t, segStart : 0..t] :
        /\ x.id = None => x = Idle
        /\ x.running => x.accumulated <= x.segStart}
StopsDone(t, b) == [id : 1..b, duration : 0..t]
Copies(t, b) == [inProgress : Timers(t, b), pendingStop : StopsDone(t, b) \union {None}]

Typed ==
    /\ now \in 0..MaxTime /\ begun \in 0..MaxStops
    /\ up \in BOOLEAN /\ restored \in BOOLEAN
    /\ state \in Timers(now, begun)
    /\ pending \in StopsDone(now, begun) \union {None}
    /\ read \in Copies(now, begun) \union {None}
    /\ writes \in Seq(Copies(now, begun)) /\ Len(writes) <= MaxWrites
    /\ stored \in Copies(now, begun)
    /\ discards \in Seq(1..begun) /\ Len(discards) <= MaxDiscards
    /\ page \in [open : BOOLEAN, pending : StopsDone(now, begun) \union {None},
                 sig : 1..begun \union {None}]
    /\ records \in [StopIds -> Seq(0..now)]
    /\ ran \in [StopIds -> 0..now]
    /\ \A s \in StopIds : s > begun => records[s] = <<>> /\ ran[s] = 0
    /\ ~up => /\ ~restored /\ read = None /\ state = Idle /\ pending = None
              /\ writes = <<>> /\ page = Shut

(* A sequence over a set is one over any larger set. *)
LEMMA SeqOverLarger ==
    ASSUME NEW S, NEW T, S \subseteq T, NEW q \in Seq(S)
    PROVE  q \in Seq(T)
OBVIOUS

(* What was bounded stays bounded as time goes on and stops are begun. *)
LEMMA CopiesGrow ==
    ASSUME NEW t \in Nat, NEW b \in Nat, NEW t2 \in Nat, NEW b2 \in Nat,
           t <= t2, b <= b2
    PROVE  /\ Timers(t, b) \subseteq Timers(t2, b2)
           /\ StopsDone(t, b) \subseteq StopsDone(t2, b2)
           /\ Copies(t, b) \subseteq Copies(t2, b2)
<1>1. Timers(t, b) \subseteq Timers(t2, b2)
  BY DEF Timers
<1>2. StopsDone(t, b) \subseteq StopsDone(t2, b2)
  BY DEF StopsDone
<1> QED BY <1>1, <1>2 DEF Copies

(* The types of the run follow. *)
LEMMA TypedTypeOK == Typed => TypeOK
<1> SUFFICES ASSUME Typed PROVE TypeOK
  OBVIOUS
<1>1. PICK t : t = now OBVIOUS
<1>2. PICK b : b = begun OBVIOUS
<1>3. t \in 0..MaxTime /\ b \in 0..MaxStops /\ MaxTime \in Nat /\ MaxStops \in Nat
  BY <1>1, <1>2, QuickStopAssumption DEF Typed
<1>4. Timers(t, b) \subseteq Timer
  BY <1>3 DEF Timers, Timer, StopIds
<1>5. StopsDone(t, b) \subseteq Finished
  BY <1>3 DEF StopsDone, Finished, StopIds
<1>6. Copies(t, b) \subseteq Copy
  BY <1>4, <1>5 DEF Copies, Copy
<1>7. writes \in Seq(Copy)
  BY <1>1, <1>2, <1>6, SeqOverLarger DEF Typed
<1>8. discards \in Seq(StopIds)
  BY <1>2, <1>3, SeqOverLarger, 1..b \subseteq StopIds DEF Typed, StopIds
<1>9. records \in [StopIds -> Seq(0..MaxTime)]
  <2>1. \A q \in Seq(0..t) : q \in Seq(0..MaxTime)
    BY <1>3, SeqOverLarger, 0..t \subseteq 0..MaxTime
  <2> QED BY <1>1, <2>1 DEF Typed
<1>10. ran \in [StopIds -> 0..MaxTime]
  BY <1>1, <1>3 DEF Typed
<1>11. page \in [open : BOOLEAN, pending : Finished \union {None}, sig : StopIds \union {None}]
  BY <1>1, <1>2, <1>3, <1>5 DEF Typed, StopIds
<1>12. ~active => state = Idle
  BY DEF Typed, active, Timers
<1> QED
  BY <1>1, <1>2, <1>3, <1>4, <1>5, <1>6, <1>7, <1>8, <1>9, <1>10, <1>11, <1>12
  DEF Typed, TypeOK

(* Nothing has happened yet. *)
LEMMA InitTyped == Init => Typed
<1> SUFFICES ASSUME Init PROVE Typed
  OBVIOUS
<1>1. 0 \in 0..MaxTime /\ 0 \in 0..MaxStops /\ 0 <= MaxWrites /\ 0 <= MaxDiscards
  BY QuickStopAssumption
<1>2. Idle \in Timers(0, 0)
  BY DEF Timers, Idle
<1>3. Nothing \in Copies(0, 0)
  BY <1>2 DEF Copies, Nothing
<1>4. records \in [StopIds -> Seq(0..0)] /\ ran \in [StopIds -> 0..0]
      /\ \A s \in StopIds : records[s] = <<>> /\ ran[s] = 0
  BY DEF Init
<1>5. writes \in Seq(Copies(0, 0)) /\ Len(writes) = 0
      /\ discards \in Seq(1..0) /\ Len(discards) = 0
  BY DEF Init
<1>6. page \in [open : BOOLEAN, pending : StopsDone(0, 0) \union {None}, sig : 1..0 \union {None}]
  BY DEF Init, Shut
<1>7. now = 0 /\ begun = 0
  BY DEF Init
<1> QED
  BY <1>1, <1>2, <1>3, <1>4, <1>5, <1>6, <1>7 DEF Init, Typed

(* Time goes on for the stop that is being timed. *)
LEMMA TickTyped == ASSUME Typed, Tick PROVE Typed'
<1>1. PICK t : t = now OBVIOUS
<1>2. PICK b : b = begun OBVIOUS
<1>3. t \in Nat /\ b \in Nat /\ t + 1 \in 0..MaxTime /\ now' = t + 1 /\ b' = b
  BY <1>1, <1>2, QuickStopAssumption DEF Typed, Tick
<1>4. /\ Timers(t, b) \subseteq Timers(t + 1, b)
      /\ StopsDone(t, b) \subseteq StopsDone(t + 1, b)
      /\ Copies(t, b) \subseteq Copies(t + 1, b)
  BY <1>3, CopiesGrow, t + 1 \in Nat
<1>5. writes \in Seq(Copies(t + 1, b))
  BY <1>1, <1>2, <1>4, SeqOverLarger DEF Typed
<1>6. records \in [StopIds -> Seq(0..(t + 1))]
  <2>1. \A q \in Seq(0..t) : q \in Seq(0..(t + 1))
    BY <1>3, SeqOverLarger, 0..t \subseteq 0..(t + 1)
  <2> QED BY <1>1, <2>1 DEF Typed
<1>7. ran' \in [StopIds -> 0..(t + 1)] /\ \A s \in StopIds : s > b => ran'[s] = 0
  <2>1. Timed.running => Timed.id \in 1..b
    BY <1>2 DEF Typed, Timed, Timers, Copies, Idle
  <2>2. ran \in [StopIds -> 0..t] /\ (\A s \in StopIds : s > b => ran[s] = 0)
    BY <1>1, <1>2 DEF Typed
  <2>3. PICK id : id = Timed.id OBVIOUS
  <2>4. CASE Timed.running
    <3>1. ran' = [ran EXCEPT ![id] = @ + 1] /\ id \in 1..b
      BY <2>1, <2>3, <2>4 DEF Tick
    <3>2. id \in StopIds
      BY <1>2, <3>1, QuickStopAssumption DEF Typed, StopIds
    <3>3. ran[id] + 1 \in 0..(t + 1) /\ \A s \in StopIds : ran[s] \in 0..(t + 1)
      BY <1>3, <2>2, <3>2
    <3> QED BY <1>3, <2>2, <3>1, <3>2, <3>3
  <2>5. CASE ~Timed.running
    BY <1>3, <2>2, <2>5 DEF Tick
  <2> QED BY <2>4, <2>5
<1> QED
  BY <1>1, <1>2, <1>3, <1>4, <1>5, <1>6, <1>7 DEF Typed, Tick, service

(* A step that changes memory and launches a copy of it, all of them typed. *)
LEMMA StepsTyped ==
    ASSUME Typed, persist, up, up' = up, now' = now, begun' = begun,
           state' \in Timers(now, begun),
           pending' \in StopsDone(now, begun) \union {None},
           UNCHANGED <<restored, read, stored, page, records, ran>>,
           discards' \in Seq(1..begun), Len(discards') <= MaxDiscards
    PROVE  Typed'
<1>1. Len(writes) + 1 <= MaxWrites
  BY QuickStopAssumption DEF persist, Typed
<1>2. writes' \in Seq(Copies(now, begun)) /\ Len(writes') <= MaxWrites
  BY <1>1 DEF persist, Typed, Copies
<1> QED BY <1>2 DEF Typed

(* A timer of one of the stops begun. *)
LEMMA TimerMade ==
    ASSUME NEW t \in Nat, NEW b \in Nat, NEW i \in 1..b, NEW r \in BOOLEAN,
           NEW a \in 0..t, NEW g \in 0..t, r => a <= g
    PROVE  [id |-> i, running |-> r, accumulated |-> a, segStart |-> g] \in Timers(t, b)
<1>1. i # None
  BY QuickStopAssumption
<1> QED BY <1>1 DEF Timers

(* The operator's commands to the timer. *)
LEMMA CommandTyped == ASSUME Typed, start \/ pause \/ resume \/ end PROVE Typed'
<1>1. PICK t : t = now OBVIOUS
<1>2. PICK b : b = begun OBVIOUS
<1>3. t \in Nat /\ b \in Nat /\ t \in 0..MaxTime
  BY <1>1, <1>2, QuickStopAssumption DEF Typed
<1>4. active => elapsed \in 0..t
  BY <1>1, <1>3 DEF Typed, active, elapsed, Timers
<1>5. CASE start
  <2>1. b + 1 \in 0..MaxStops /\ begun' = b + 1 /\ now' = t /\ b + 1 \in Nat
    BY <1>1, <1>2, <1>3, <1>5, QuickStopAssumption DEF start, Typed
  <2>2. /\ Timers(t, b) \subseteq Timers(t, b + 1)
        /\ StopsDone(t, b) \subseteq StopsDone(t, b + 1)
        /\ Copies(t, b) \subseteq Copies(t, b + 1)
    BY <1>3, <2>1, CopiesGrow
  <2>3. state' \in Timers(t, b + 1)
    <3>1. state' = [id |-> b + 1, running |-> TRUE, accumulated |-> 0, segStart |-> t]
      BY <1>1, <1>2, <1>5 DEF start
    <3>2. b + 1 # None /\ b + 1 \in 1..(b + 1) /\ 0 \in 0..t /\ t \in 0..t
      BY <1>3, QuickStopAssumption
    <3> QED BY <3>1, <3>2 DEF Timers
  <2>4. pending' = None /\ up /\ persist
    BY <1>5 DEF start
  <2>5. writes \in Seq(Copies(t, b + 1))
    BY <1>1, <1>2, <2>2, SeqOverLarger DEF Typed
  <2>6. Len(writes) + 1 <= MaxWrites
    BY <2>4, QuickStopAssumption DEF persist, Typed
  <2>7. writes' \in Seq(Copies(t, b + 1)) /\ Len(writes') <= MaxWrites
    BY <2>3, <2>4, <2>5, <2>6 DEF persist, Copies
  <2>8. discards \in Seq(1..(b + 1))
    BY <1>2, <1>3, SeqOverLarger, 1..b \subseteq 1..(b + 1) DEF Typed
  <2>9. UNCHANGED <<up, restored, read, stored, discards, page, records, ran>>
    BY <1>5 DEF start
  <2>10. \A s \in StopIds : s > b + 1 => records[s] = <<>> /\ ran[s] = 0
    BY <1>2, <1>3 DEF Typed, StopIds
  <2>11. page \in [open : BOOLEAN, pending : StopsDone(t, b + 1) \union {None},
                   sig : 1..(b + 1) \union {None}]
    BY <1>1, <1>2, <1>3, <2>2 DEF Typed
  <2>12. read \in Copies(t, b + 1) \union {None} /\ stored \in Copies(t, b + 1)
    BY <1>1, <1>2, <2>2 DEF Typed
  <2>13. now' = t /\ begun' = b + 1 /\ t \in 0..MaxTime /\ b + 1 \in 0..MaxStops
    BY <1>3, <2>1
  <2>14. /\ up /\ restored \in BOOLEAN /\ Len(discards) <= MaxDiscards
         /\ records \in [StopIds -> Seq(0..t)] /\ ran \in [StopIds -> 0..t]
    BY <1>1, <2>4 DEF Typed
  <2> QED
    BY <2>3, <2>4, <2>7, <2>8, <2>9, <2>10, <2>11, <2>12, <2>13, <2>14 DEF Typed
<1>6. CASE pause
  <2>1. state' \in Timers(now, begun)
    <3>1. PICK e : e = elapsed OBVIOUS
    <3>2. state' = [state EXCEPT !.running = FALSE, !.accumulated = e, !.segStart = 0]
          /\ state.id # None /\ e \in 0..t
      BY <1>4, <1>6, <3>1 DEF pause, active
    <3>3. /\ state.id \in 1..b /\ state.accumulated \in 0..t
           /\ state' = [id |-> state.id, running |-> FALSE, accumulated |-> e, segStart |-> 0]
      BY <1>1, <1>2, <3>2 DEF Typed, Timers
    <3>4. [id |-> state.id, running |-> FALSE, accumulated |-> e, segStart |-> 0] \in Timers(t, b)
      BY <1>3, <3>2, <3>3, TimerMade, 0 \in 0..t
    <3> QED BY <1>1, <1>2, <3>3, <3>4
  <2> QED BY <1>6, <2>1, StepsTyped DEF pause, Steps, Typed, history
<1>7. CASE resume
  <2>1. state' \in Timers(now, begun)
    <3>1. state' = [state EXCEPT !.running = TRUE, !.segStart = t] /\ state.id # None
      BY <1>1, <1>7 DEF resume, paused, active
    <3>2. /\ state.id \in 1..b /\ state.accumulated \in 0..t
           /\ state' = [id |-> state.id, running |-> TRUE, accumulated |-> state.accumulated, segStart |-> t]
      BY <1>1, <1>2, <3>1 DEF Typed, Timers
    <3>3. [id |-> state.id, running |-> TRUE, accumulated |-> state.accumulated, segStart |-> t] \in Timers(t, b)
      BY <1>3, <3>2, TimerMade, t \in 0..t, state.accumulated <= t
    <3> QED BY <1>1, <1>2, <3>2, <3>3
  <2> QED BY <1>7, <2>1, StepsTyped DEF resume, Steps, Typed, history
<1>8. CASE end
  <2>1. state' \in Timers(now, begun)
    BY <1>1, <1>2, <1>3, <1>8 DEF end, Timers, Idle
  <2>2. pending' \in StopsDone(now, begun)
    BY <1>1, <1>2, <1>3, <1>4, <1>8 DEF end, Typed, Timers, StopsDone, active
  <2> QED BY <1>8, <2>1, <2>2, StepsTyped DEF end, Steps, Typed, history
<1> QED BY <1>5, <1>6, <1>7, <1>8

(* A discard is taken off the queue, whatever it drops. *)
LEMMA DiscardTyped == ASSUME Typed, discardPending PROVE Typed'
<1>1. discards' \in Seq(1..begun) /\ Len(discards') <= MaxDiscards
  BY QuickStopAssumption DEF Typed, discardPending
<1>2. CASE pending = None
  BY <1>1, <1>2 DEF Typed, discardPending
<1>3. CASE pending # None
  BY <1>1, <1>3, StepsTyped DEF Typed, discardPending
<1> QED BY <1>2, <1>3

(* A page that is not open. *)
LEMMA ShutTyped ==
    /\ Shut \in [open : BOOLEAN, pending : StopsDone(now, begun) \union {None},
                 sig : 1..begun \union {None}]
    /\ [Shut EXCEPT !.open = TRUE]
          \in [open : BOOLEAN, pending : StopsDone(now, begun) \union {None},
               sig : 1..begun \union {None}]
BY DEF Shut

(* The preferences, the restore and the end of the process. *)
LEMMA ProcessTyped ==
    ASSUME Typed, update \/ onCreate \/ Collect \/ applySettings \/ Kill
    PROVE  Typed'
<1>1. CASE update
  <2>1. stored' \in Copies(now, begun) /\ writes' \in Seq(Copies(now, begun))
        /\ Len(writes') <= MaxWrites /\ up
    BY <1>1, QuickStopAssumption DEF update, Typed
  <2> QED BY <1>1, <2>1 DEF update, Typed, history
<1>2. CASE onCreate
  BY <1>2 DEF onCreate, Typed, history, service
<1>3. CASE Collect
  BY <1>3 DEF Collect, Typed, history
<1>4. CASE applySettings
  <2>1. read \in Copies(now, begun)
    BY <1>4 DEF applySettings, Typed
  <2> QED BY <1>4, <2>1 DEF applySettings, Typed, history, Copies
<1>5. CASE Kill
  <2>1. Idle \in Timers(now, begun)
    BY DEF Timers, Idle, Typed
  <2>2. discards' \in Seq(1..begun) /\ Len(discards') <= MaxDiscards
    <3>1. discards' = <<>> \/ discards' = discards
      BY <1>5 DEF Kill
    <3>2. 0 <= MaxDiscards /\ <<>> \in Seq(1..begun) /\ Len(<<>>) = 0
      BY QuickStopAssumption
    <3>3. discards \in Seq(1..begun) /\ Len(discards) <= MaxDiscards
      BY DEF Typed
    <3> QED BY <3>1, <3>2, <3>3
  <2>3. writes' \in Seq(Copies(now, begun)) /\ Len(writes') <= MaxWrites
    BY <1>5, QuickStopAssumption DEF Kill
  <2> QED BY <1>5, <2>1, <2>2, <2>3, ShutTyped DEF Kill, Typed
<1> QED BY <1>1, <1>2, <1>3, <1>4, <1>5

(* The page. *)
LEMMA PageTyped ==
    ASSUME Typed,
           onOpen \/ onDestroy \/ pushState \/ handleSave \/ handleDiscardPending
    PROVE  Typed'
<1>1. CASE onOpen \/ onDestroy
  <2>1. (page' = [Shut EXCEPT !.open = TRUE] /\ up) \/ page' = Shut
    BY <1>1 DEF onOpen, onDestroy
  <2>2. UNCHANGED <<now, up, service, stored, discards, begun, records, ran>>
    BY <1>1 DEF onOpen, onDestroy, history
  <2> QED BY <2>1, <2>2, ShutTyped DEF Typed, service
<1>2. CASE pushState
  BY <1>2 DEF pushState, Typed, history, service, Copies
<1>3. CASE handleSave
  <2>1. PICK p : p = page.pending OBVIOUS
  <2>2. p.id \in 1..begun /\ p.duration \in 0..now /\ p.id \in StopIds
    <3>1. p \in StopsDone(now, begun)
      BY <1>3, <2>1 DEF handleSave, Typed
    <3> QED BY <3>1, QuickStopAssumption DEF StopsDone, Typed, StopIds
  <2>3. discards' \in Seq(1..begun) /\ Len(discards') <= MaxDiscards
    BY <1>3, <2>1, <2>2, QuickStopAssumption DEF handleSave, Typed
  <2>4. records' = [records EXCEPT ![p.id] = Append(@, p.duration)]
    BY <1>3, <2>1 DEF handleSave
  <2>5. records' \in [StopIds -> Seq(0..now)]
        /\ \A s \in StopIds : s > begun => records'[s] = <<>>
    BY <2>2, <2>4 DEF Typed
  <2>6. page' = [page EXCEPT !.sig = p.id]
    BY <1>3, <2>1 DEF handleSave
  <2>7. up
    BY <1>3 DEF handleSave, Typed, Shut
  <2> QED
    BY <1>3, <2>2, <2>3, <2>5, <2>6, <2>7 DEF handleSave, Typed, history, service
<1>4. CASE handleDiscardPending
  <2>1. page.pending.id \in 1..begun
    BY <1>4 DEF handleDiscardPending, Typed, StopsDone
  <2>2. discards' \in Seq(1..begun) /\ Len(discards') <= MaxDiscards
    BY <1>4, <2>1, QuickStopAssumption DEF handleDiscardPending, Typed
  <2> QED
    BY <1>4, <2>2 DEF handleDiscardPending, Typed, service, mishaps
<1> QED BY <1>1, <1>2, <1>3, <1>4

(* Typed is an invariant by itself. *)
LEMMA NextTyped == Typed /\ [Next]_vars => Typed'
<1>1. CASE UNCHANGED vars
  BY <1>1 DEF vars, service, history, mishaps, Typed
<1> QED
  BY <1>1, TickTyped, CommandTyped, DiscardTyped, ProcessTyped, PageTyped DEF Next

-----------------------------------------------------------------------------
(* The copies the preferences hold and will hold, in the order of being    *)
(* made: the stored one, then those that persist() launched.               *)
Line == [i \in 0..Len(writes) |-> IF i = 0 THEN stored ELSE writes[i]]

(* Before the restore nothing has happened yet in this process, or every   *)
(* stop that is mentioned anywhere has met with a command that came too    *)
(* early.                                                                  *)
Quiet == state = Idle /\ pending = None /\ writes = <<>> /\ read \in {None, stored}
AllUndone ==
    /\ Of(InMemory) \subseteq undone
    /\ \A i \in 0..Len(writes) : Of(Line[i]) \subseteq undone
    /\ read # None => Of(read) \subseteq undone
BeforeRestore == restored \/ Quiet \/ AllUndone

(* No copy holds a timer and a finished stop, but for such stops.          *)
Single(copy, set) ==
    copy.inProgress.id = None \/ copy.pendingStop = None \/ Of(copy) \subseteq set
OneAtATime ==
    /\ Single(InMemory, undone)
    /\ \A i \in 0..Len(writes) : Single(Line[i], undone)
    /\ read # None => Single(read, undone)

(* persist adds the new memory at the end of the line. *)
LEMMA LinePersist ==
    ASSUME Typed, persist, stored' = stored
    PROVE  /\ Len(writes) \in Nat /\ Len(writes') = Len(writes) + 1
           /\ \A i \in 0..Len(writes) : Line'[i] = Line[i]
           /\ Line'[Len(writes) + 1] = InMemory'
<1>1. PICK w : w = writes OBVIOUS
<1>2. PICK m : m = InMemory' OBVIOUS
<1>3. w \in Seq(Copies(now, begun)) /\ writes' = Append(w, m)
  BY <1>1, <1>2 DEF Typed, persist, InMemory
<1>4. /\ Len(w) \in Nat /\ Len(writes') = Len(w) + 1
      /\ \A i \in 1..Len(w) : writes'[i] = w[i]
      /\ writes'[Len(w) + 1] = m
  BY <1>3
<1>5. Line' = [i \in 0..(Len(w) + 1) |-> IF i = 0 THEN stored ELSE writes'[i]]
  BY <1>4 DEF Line
<1> QED BY <1>1, <1>2, <1>4, <1>5 DEF Line

(* An edit of the preferences takes the first of the line off. *)
LEMMA LineUpdate ==
    ASSUME Typed, update
    PROVE  /\ Len(writes') \in Nat /\ Len(writes) = Len(writes') + 1
           /\ \A i \in 0..Len(writes') : Line'[i] = Line[i + 1]
<1>1. PICK w : w = writes OBVIOUS
<1>2. w \in Seq(Copies(now, begun)) /\ w # <<>> /\ writes' = Tail(w) /\ stored' = Head(w)
  BY <1>1 DEF Typed, update
<1>3. PICK n \in Nat : n = Len(writes')
  BY <1>2
<1>4. Len(w) = n + 1 /\ stored' = w[1] /\ \A i \in 1..n : writes'[i] = w[i + 1]
  BY <1>2, <1>3
<1>5. Line' = [i \in 0..n |-> IF i = 0 THEN stored' ELSE writes'[i]]
  BY <1>3 DEF Line
<1>6. \A i \in 0..n : Line[i + 1] = w[i + 1]
  BY <1>1, <1>3, <1>4 DEF Line
<1> QED BY <1>1, <1>3, <1>4, <1>5, <1>6

(* The line holds copies; with nothing to be written it is what is stored. *)
LEMMA LineType ==
    ASSUME Typed
    PROVE  /\ Len(writes) \in Nat
           /\ \A i \in 0..Len(writes) : Line[i] \in Copies(now, begun)
           /\ Line[0] = stored
           /\ writes = <<>> => Len(writes) = 0
BY DEF Typed, Line

(* Both facts when what they speak of stays, and a mishap or none occurs.  *)
LEMMA RestoreKept ==
    ASSUME Typed, BeforeRestore, OneAtATime, undone \subseteq undone',
           UNCHANGED <<restored, read, state, pending, writes, stored>>
    PROVE  BeforeRestore' /\ OneAtATime'
<1>1. Line' = Line /\ InMemory' = InMemory
  BY DEF Line, InMemory
<1>2. OneAtATime'
  BY <1>1 DEF OneAtATime, Single
<1>3. BeforeRestore'
  BY <1>1 DEF BeforeRestore, Quiet, AllUndone
<1> QED BY <1>2, <1>3

(* ... and when a command changes memory.                                  *)
LEMMA RestorePersist ==
    ASSUME Typed, BeforeRestore, OneAtATime, undone \subseteq undone', persist,
           UNCHANGED <<restored, read, stored>>,
           Single(InMemory', undone'),
           restored \/ (AllUndone /\ Of(InMemory') \subseteq Of(InMemory))
                    \/ /\ Of(InMemory') \subseteq undone'
                       /\ \A i \in 0..Len(writes) : Of(Line[i]) \subseteq undone'
                       /\ read # None => Of(read) \subseteq undone'
    PROVE  BeforeRestore' /\ OneAtATime'
<1>1. PICK n \in Nat : n = Len(writes)
  BY LinePersist
<1>2. /\ Len(writes') = n + 1
      /\ \A i \in 0..n : Line'[i] = Line[i]
      /\ Line'[n + 1] = InMemory'
  BY <1>1, LinePersist
<1>3. \A i \in 0..(n + 1) : i \in 0..n \/ i = n + 1
  OBVIOUS
<1>4. OneAtATime'
  BY <1>1, <1>2, <1>3 DEF OneAtATime, Single
<1>5. ~restored => AllUndone'
  <2> SUFFICES ASSUME ~restored PROVE AllUndone'
    OBVIOUS
  <2>1. /\ Of(InMemory') \subseteq undone'
        /\ \A i \in 0..n : Of(Line[i]) \subseteq undone'
        /\ read # None => Of(read) \subseteq undone'
    BY <1>1 DEF AllUndone
  <2>2. \A i \in 0..(n + 1) : Of(Line'[i]) \subseteq undone'
    BY <1>2, <1>3, <2>1
  <2> QED BY <1>2, <2>1, <2>2 DEF AllUndone
<1> QED BY <1>4, <1>5 DEF BeforeRestore

(* The operator's commands. *)
LEMMA CommandRestore ==
    ASSUME Typed, BeforeRestore, OneAtATime, start \/ pause \/ resume \/ end
    PROVE  BeforeRestore' /\ OneAtATime'
<1>1. CASE start
  <2>1. InMemory'.pendingStop = None /\ Of(InMemory') \subseteq {begun + 1}
    BY <1>1 DEF start, InMemory, Of, PendingId
  <2>2. CASE restored
    BY <1>1, <2>1, <2>2, RestorePersist DEF start, Single
  <2>3. CASE ~restored
    <3>1. undone' = undone \union {begun + 1} \union Of(stored)
      BY <1>1, <2>3 DEF start
    <3>2. Quiet => (\A i \in 0..Len(writes) : Line[i] = stored) /\ read \in {None, stored}
      BY LineType DEF Quiet
    <3>3. /\ \A i \in 0..Len(writes) : Of(Line[i]) \subseteq undone'
          /\ read # None => Of(read) \subseteq undone'
      BY <2>3, <3>1, <3>2 DEF BeforeRestore, AllUndone
    <3> QED BY <1>1, <2>1, <3>1, <3>3, RestorePersist DEF start, Single
  <2> QED BY <2>2, <2>3
<1>2. ASSUME pause \/ resume \/ end
      PROVE  /\ persist /\ UNCHANGED <<restored, read, stored, undone>>
             /\ restored \/ AllUndone
  BY <1>2 DEF pause, resume, end, Steps, BeforeRestore, Quiet, active, paused, Idle,
              history, mishaps
<1>3. CASE pause \/ resume
  <2>1. state'.id = state.id /\ pending' = pending
    BY <1>3 DEF pause, resume, Typed, Timers
  <2>2. Of(InMemory') = Of(InMemory) /\ Single(InMemory', undone')
    BY <1>2, <1>3, <2>1 DEF InMemory, Of, PendingId, OneAtATime, Single
  <2> QED BY <1>2, <1>3, <2>2, RestorePersist
<1>4. CASE end
  <2>1. Of(InMemory') \subseteq Of(InMemory) /\ Single(InMemory', undone')
    BY <1>4 DEF end, InMemory, Of, PendingId, Idle, Single
  <2> QED BY <1>2, <1>4, <2>1, RestorePersist
<1> QED BY <1>1, <1>3, <1>4

(* A discard drops something only where there is something to drop. *)
LEMMA DiscardRestore ==
    ASSUME Typed, BeforeRestore, OneAtATime, discardPending
    PROVE  BeforeRestore' /\ OneAtATime'
<1>1. undone \subseteq undone' /\ UNCHANGED <<restored, read, stored>>
  BY DEF discardPending
<1>2. CASE pending = None
  BY <1>1, <1>2, RestoreKept DEF discardPending
<1>3. CASE pending # None
  <2>1. pending' = None /\ state' = state /\ persist
    BY <1>3 DEF discardPending
  <2>2. Of(InMemory') \subseteq Of(InMemory) /\ Single(InMemory', undone')
    BY <2>1 DEF InMemory, Of, PendingId, Single
  <2>3. restored \/ AllUndone
    BY <1>3 DEF BeforeRestore, Quiet
  <2> QED BY <1>1, <2>1, <2>2, <2>3, RestorePersist
<1> QED BY <1>2, <1>3

(* The preferences and the restore. *)
LEMMA ProcessRestore ==
    ASSUME Typed, BeforeRestore, OneAtATime,
           update \/ onCreate \/ Collect \/ applySettings \/ Kill
    PROVE  BeforeRestore' /\ OneAtATime'
<1>1. CASE update
  <2>1. UNCHANGED <<restored, read, state, pending, undone>> /\ writes # <<>>
    BY <1>1 DEF update, history, mishaps
  <2>2. PICK n \in Nat : n = Len(writes')
    BY <1>1, LineUpdate
  <2>3. Len(writes) = n + 1 /\ \A i \in 0..n : Line'[i] = Line[i + 1] /\ i + 1 \in 0..(n + 1)
    BY <1>1, <2>2, LineUpdate
  <2>4. InMemory' = InMemory
    BY <2>1 DEF InMemory
  <2>5. OneAtATime'
    BY <2>1, <2>2, <2>3, <2>4 DEF OneAtATime
  <2>6. BeforeRestore'
    BY <2>1, <2>2, <2>3, <2>4 DEF BeforeRestore, AllUndone, Quiet
  <2> QED BY <2>5, <2>6
<1>2. CASE onCreate
  BY <1>2, RestoreKept DEF onCreate, service, history, mishaps
<1>3. CASE Collect
  <2>1. UNCHANGED <<restored, state, pending, writes, stored, undone>> /\ read' = stored
    BY <1>3 DEF Collect, history, mishaps
  <2>2. Line' = Line /\ InMemory' = InMemory /\ Line[0] = stored /\ 0 \in 0..Len(writes)
    BY <2>1, LineType DEF Line, InMemory
  <2>3. OneAtATime'
    BY <2>1, <2>2 DEF OneAtATime
  <2>4. BeforeRestore'
    BY <2>1, <2>2 DEF BeforeRestore, Quiet, AllUndone
  <2> QED BY <2>3, <2>4
<1>4. CASE applySettings
  <2>1. UNCHANGED <<writes, stored, undone>> /\ restored' /\ read' = None /\ ~restored
        /\ read # None
    BY <1>4 DEF applySettings, history, mishaps
  <2>2. Line' = Line
    BY <2>1 DEF Line
  <2>3. read \in Copies(now, begun)
    BY <2>1 DEF Typed
  <2>4. Single(InMemory', undone)
    <3>1. CASE read.inProgress # Idle
      <4>1. state' = read.inProgress /\ state'.id # None /\ pending' = pending
        BY <1>4, <2>3, <3>1 DEF applySettings, Copies, Timers
      <4>2. Quiet => pending' = None
        BY <4>1 DEF Quiet
      <4>3. AllUndone => Of(InMemory') \subseteq undone
        BY <2>1, <4>1 DEF AllUndone, Of, InMemory, PendingId
      <4> QED BY <2>1, <4>2, <4>3 DEF BeforeRestore, Single, InMemory
    <3>2. CASE read.inProgress = Idle
      BY <1>4, <3>2 DEF applySettings, OneAtATime, Single, InMemory, Of, PendingId
    <3> QED BY <3>1, <3>2
  <2> QED BY <2>1, <2>2, <2>4 DEF BeforeRestore, OneAtATime
<1>5. CASE Kill
  <2>1. state' = Idle /\ pending' = None /\ writes' = <<>> /\ read' = None /\ stored' = stored
        /\ undone \subseteq undone'
    BY <1>5 DEF Kill
  <2>2. Quiet'
    BY <2>1 DEF Quiet
  <2>3. Len(writes') = 0 /\ Line'[0] = Line[0] /\ 0 \in 0..Len(writes)
    BY <2>1, LineType DEF Line
  <2>4. \A i \in 0..Len(writes') : Single(Line'[i], undone')
    BY <2>1, <2>3 DEF OneAtATime, Single
  <2>5. Single(InMemory', undone')
    BY <2>1 DEF Single, InMemory
  <2> QED BY <2>1, <2>2, <2>4, <2>5 DEF BeforeRestore, OneAtATime
<1> QED BY <1>1, <1>2, <1>3, <1>4, <1>5

(* Nothing else touches the timer or its copies. *)
LEMMA NextRestore ==
    ASSUME Typed, BeforeRestore, OneAtATime, [Next]_vars
    PROVE  BeforeRestore' /\ OneAtATime'
<1>1. CASE Tick \/ onOpen \/ onDestroy \/ pushState \/ handleSave
           \/ handleDiscardPending \/ UNCHANGED vars
  <2>1. UNCHANGED <<restored, read, state, pending, writes, stored, undone>>
    BY <1>1 DEF Tick, onOpen, onDestroy, pushState, handleSave, handleDiscardPending,
                vars, service, history, mishaps
  <2> QED BY <2>1, RestoreKept
<1> QED BY <1>1, CommandRestore, DiscardRestore, ProcessRestore DEF Next

-----------------------------------------------------------------------------
(* One stop, from copy to copy: it is timed, then awaits its reason, then  *)
(* is in no copy any more.                                                 *)
Times(copy, s) == copy.inProgress.id = s
Awaits(copy, s) == PendingId(copy) = s

InOrder(line, n, s) ==
    /\ \A i, j \in 0..n : i <= j /\ Awaits(line[i], s) => ~Times(line[j], s)
    /\ \A i, j, k \in 0..n :
          i <= j /\ j <= k /\ Awaits(line[i], s) /\ Awaits(line[k], s)
             => Awaits(line[j], s)

(* Its timing is past in the whole line, and it does not come back.        *)
Past(line, n, s) ==
    /\ \A i \in 0..n : ~Times(line[i], s)
    /\ \A i, j \in 0..n : i <= j /\ Awaits(line[j], s) => Awaits(line[i], s)

(* The page has shown it, or recorded it. *)
Shown == IF page.pending = None THEN None ELSE page.pending.id
Seen(s) == records[s] # <<>> \/ Shown = s

Latest(s) == restored => About(Line[Len(writes)], s) = About(InMemory, s)
Followed(s) ==
    /\ Latest(s)
    /\ InOrder(Line, Len(writes), s)
    /\ Seen(s) => Past(Line, Len(writes), s)
AllFollowed == \A s \in 1..begun : s \notin undone => Followed(s)

(* Two copies that say the same of a stop. *)
LEMMA AboutFacts ==
    ASSUME NEW c, NEW d, NEW s \in Nat
    PROVE  About(c, s) = About(d, s)
             <=> /\ Times(c, s) <=> Times(d, s)
                 /\ Times(c, s) => c.inProgress = d.inProgress
                 /\ Awaits(c, s) <=> Awaits(d, s)
<1>1. Idle.id # s
  BY QuickStopAssumption DEF Idle
<1>2. About(c, s)[1] = (IF Times(c, s) THEN c.inProgress ELSE Idle)
      /\ About(d, s)[1] = (IF Times(d, s) THEN d.inProgress ELSE Idle)
  BY DEF About, Times
<1>3. About(c, s)[2] = Awaits(c, s) /\ About(d, s)[2] = Awaits(d, s)
  BY DEF About, Awaits
<1>4. About(c, s) = About(d, s)
        <=> About(c, s)[1] = About(d, s)[1] /\ About(c, s)[2] = About(d, s)[2]
  BY DEF About
<1>5. About(c, s)[1] = About(d, s)[1]
        <=> (Times(c, s) <=> Times(d, s)) /\ (Times(c, s) => c.inProgress = d.inProgress)
  BY <1>1, <1>2 DEF Times
<1>6. About(c, s)[2] = About(d, s)[2] <=> (Awaits(c, s) <=> Awaits(d, s))
  BY <1>3 DEF Awaits
<1> QED BY <1>4, <1>5, <1>6

(* What a copy says of a stop, by the set of stops in it. *)
LEMMA OfFacts ==
    ASSUME NEW c, NEW s \in Nat
    PROVE  s \in Of(c) <=> Times(c, s) \/ Awaits(c, s)
BY QuickStopAssumption DEF Of, Times, Awaits

(* A copy made when b stops were begun mentions no later one. *)
LEMMA OfBegun ==
    ASSUME NEW t \in Nat, NEW b \in Nat, NEW c \in Copies(t, b), NEW s \in Nat,
           s \in Of(c)
    PROVE  s \in 1..b
BY QuickStopAssumption DEF Of, PendingId, Copies, Timers, StopsDone

(* A copy at the end of the line in which the stop goes on or comes to     *)
(* await, and that brings none back.                                       *)
LEMMA OrderExtends ==
    ASSUME NEW n \in Nat, NEW c, NEW d, NEW s, InOrder(c, n, s),
           \A i \in 0..n : d[i] = c[i],
           Times(d[n + 1], s) => Times(c[n], s),
           Awaits(d[n + 1], s) => Times(c[n], s) \/ Awaits(c[n], s),
           Awaits(d[n + 1], s) => ~Times(d[n + 1], s)
    PROVE  InOrder(d, n + 1, s)
<1>1. n \in 0..n /\ \A i \in 0..(n + 1) : (i \in 0..n /\ i <= n) \/ i = n + 1
  OBVIOUS
<1>2. ASSUME NEW i \in 0..(n + 1), NEW j \in 0..(n + 1), i <= j, Awaits(d[i], s)
      PROVE  ~Times(d[j], s)
  <2> HIDE DEF Times, Awaits
  <2>1. CASE j \in 0..n
    BY <1>1, <1>2, <2>1, i \in 0..n DEF InOrder
  <2>2. CASE j = n + 1 /\ i \in 0..n
    BY <1>1, <1>2, <2>2 DEF InOrder
  <2>3. CASE j = n + 1 /\ i = n + 1
    BY <1>2, <2>3
  <2> QED BY <1>1, <2>1, <2>2, <2>3
<1>3. ASSUME NEW i \in 0..(n + 1), NEW j \in 0..(n + 1), NEW k \in 0..(n + 1),
             i <= j, j <= k, Awaits(d[i], s), Awaits(d[k], s)
      PROVE  Awaits(d[j], s)
  <2>1. CASE k \in 0..n
    BY <1>3, <2>1, i \in 0..n, j \in 0..n DEF InOrder
  <2>2. CASE k = n + 1 /\ j \in 0..n
    <3>1. i \in 0..n /\ i <= n /\ j <= n
      BY <1>3, <2>2
    <3>2. ~Times(c[n], s)
      BY <1>1, <1>3, <3>1 DEF InOrder
    <3> QED BY <1>1, <1>3, <2>2, <3>1, <3>2 DEF InOrder
  <2>3. CASE j = n + 1
    BY <1>3, <2>3, k = n + 1
  <2> QED BY <1>1, <2>1, <2>2, <2>3
<1> QED BY <1>2, <1>3 DEF InOrder

(* ... and in which it does not begin to await.                            *)
LEMMA PastExtends ==
    ASSUME NEW n \in Nat, NEW c, NEW d, NEW s, Past(c, n, s),
           \A i \in 0..n : d[i] = c[i],
           ~Times(d[n + 1], s), Awaits(d[n + 1], s) => Awaits(c[n], s)
    PROVE  Past(d, n + 1, s)
<1>1. n \in 0..n /\ \A i \in 0..(n + 1) : (i \in 0..n /\ i <= n) \/ i = n + 1
  OBVIOUS
<1>2. \A i \in 0..(n + 1) : ~Times(d[i], s)
  BY <1>1 DEF Past
<1>3. ASSUME NEW i \in 0..(n + 1), NEW j \in 0..(n + 1), i <= j, Awaits(d[j], s)
      PROVE  Awaits(d[i], s)
  <2>1. CASE j \in 0..n
    BY <1>3, <2>1, i \in 0..n DEF Past
  <2>2. CASE j = n + 1 /\ i \in 0..n
    BY <1>1, <1>3, <2>2 DEF Past
  <2>3. CASE j = n + 1 /\ i = n + 1
    BY <1>3, <2>3
  <2> QED BY <1>1, <2>1, <2>2, <2>3
<1> QED BY <1>2, <1>3 DEF Past

(* The line without its first. *)
LEMMA LineTail ==
    ASSUME NEW n \in Nat, NEW c, NEW d, NEW s, \A i \in 0..n : d[i] = c[i + 1]
    PROVE  /\ InOrder(c, n + 1, s) => InOrder(d, n, s)
           /\ Past(c, n + 1, s) => Past(d, n, s)
<1>1. \A i \in 0..n : i + 1 \in 0..(n + 1) /\ d[i] = c[i + 1]
  OBVIOUS
<1>2. \A i, j \in 0..n : i <= j => i + 1 <= j + 1
  OBVIOUS
<1>3. ASSUME InOrder(c, n + 1, s) PROVE InOrder(d, n, s)
  <2>1. ASSUME NEW i \in 0..n, NEW j \in 0..n, i <= j, Awaits(d[i], s)
        PROVE  ~Times(d[j], s)
    BY <1>1, <1>2, <1>3, <2>1 DEF InOrder
  <2>2. ASSUME NEW i \in 0..n, NEW j \in 0..n, NEW k \in 0..n,
               i <= j, j <= k, Awaits(d[i], s), Awaits(d[k], s)
        PROVE  Awaits(d[j], s)
    BY <1>1, <1>2, <1>3, <2>2 DEF InOrder
  <2> QED BY <2>1, <2>2 DEF InOrder
<1>4. ASSUME Past(c, n + 1, s) PROVE Past(d, n, s)
  <2>1. ASSUME NEW i \in 0..n, NEW j \in 0..n, i <= j, Awaits(d[j], s)
        PROVE  Awaits(d[i], s)
    BY <1>1, <1>2, <1>4, <2>1 DEF Past
  <2> QED BY <1>1, <1>4, <2>1 DEF Past
<1> QED BY <1>3, <1>4

(* What is stored as awaiting is past being timed. *)
LEMMA OrderPast ==
    ASSUME NEW n \in Nat, NEW c, NEW s, InOrder(c, n, s), Awaits(c[0], s)
    PROVE  Past(c, n, s)
<1>1. 0 \in 0..n /\ \A i \in 0..n : 0 <= i
  OBVIOUS
<1> QED BY <1>1 DEF InOrder, Past

(* The stop s is one begun, and no mishap undid it. *)
Sound(s) == Typed /\ BeforeRestore /\ OneAtATime /\ s \in 1..begun /\ s \notin undone

(* A copy holds a sound stop as timed or as awaiting. *)
LEMMA SoundSingle ==
    ASSUME NEW s, Sound(s)
    PROVE  /\ ~(Times(InMemory, s) /\ pending # None)
           /\ ~(Awaits(InMemory, s) /\ state.id # None)
           /\ ~(Times(InMemory, s) /\ Awaits(InMemory, s))
<1>1. s \in Nat /\ s # None
  BY QuickStopAssumption DEF Sound
<1>2. Single(InMemory, undone)
  BY DEF Sound, OneAtATime
<1>3. s \in Of(InMemory) => state.id = None \/ pending = None
  BY <1>2 DEF Sound, Single, InMemory
<1> QED
  BY <1>1, <1>3 DEF Of, Times, Awaits, InMemory, PendingId

(* The last copy says of a sound stop what memory says, except before the  *)
(* restore when nothing happened.                                          *)
LEMMA LastSaysMemory ==
    ASSUME NEW s, Sound(s), Latest(s), restored \/ AllUndone
    PROVE  About(Line[Len(writes)], s) = About(InMemory, s)
<1>1. s \in Nat
  BY DEF Sound
<1>2. CASE restored
  BY <1>2 DEF Latest
<1>3. CASE AllUndone
  <2>1. Len(writes) \in 0..Len(writes)
    BY LineType DEF Sound
  <2>2. s \notin Of(InMemory) /\ s \notin Of(Line[Len(writes)])
    BY <1>3, <2>1 DEF AllUndone, Sound
  <2> QED BY <1>1, <2>2, OfFacts, AboutFacts
<1> QED BY <1>2, <1>3

(* What a step that changes memory does to a stop: a timed one goes on or  *)
(* ends, one that awaits stays or is dropped.                              *)
LEMMA PersistFollowed ==
    ASSUME NEW s, Sound(s), Followed(s), persist,
           About(Line[Len(writes)], s) = About(InMemory, s),
           UNCHANGED <<restored, stored, records, page>>,
           Times(InMemory', s) => Times(InMemory, s),
           Awaits(InMemory', s) => Times(InMemory, s) \/ Awaits(InMemory, s),
           Awaits(InMemory', s) => ~Times(InMemory', s)
    PROVE  Followed(s)'
<1>1. PICK n \in Nat : n = Len(writes)
  BY LinePersist DEF Sound
<1>2. PICK c : c = Line OBVIOUS
<1>3. PICK d : d = Line' OBVIOUS
<1>4. /\ Len(writes') = n + 1
      /\ \A i \in 0..n : d[i] = c[i]
      /\ d[n + 1] = InMemory'
  BY <1>1, <1>2, <1>3, LinePersist DEF Sound
<1>5. s \in Nat
  BY DEF Sound
<1>6. About(c[n], s) = About(InMemory, s)
  BY <1>1, <1>2
<1>7. (Times(c[n], s) <=> Times(InMemory, s)) /\ (Awaits(c[n], s) <=> Awaits(InMemory, s))
  BY <1>5, <1>6, AboutFacts
<1>8. InOrder(c, n, s)
  BY <1>1, <1>2 DEF Followed
<1>9. InOrder(d, n + 1, s)
  BY <1>4, <1>7, <1>8, OrderExtends
<1>10. Seen(s)' => Past(d, n + 1, s)
  <2> SUFFICES ASSUME Seen(s)' PROVE Past(d, n + 1, s)
    OBVIOUS
  <2>1. Past(c, n, s)
    BY <1>1, <1>2 DEF Followed, Seen, Shown
  <2>2. ~Times(c[n], s)
    BY <2>1, n \in 0..n DEF Past
  <2> QED BY <1>4, <1>7, <2>1, <2>2, PastExtends
<1>11. Latest(s)'
  BY <1>3, <1>4 DEF Latest
<1> QED BY <1>3, <1>4, <1>9, <1>10, <1>11 DEF Followed

(* No command brings a stop back: what memory says of one after it.        *)
LEMMA CommandMoves ==
    ASSUME NEW s, Sound(s), Latest(s), s \notin undone',
           start \/ pause \/ resume \/ end \/ (discardPending /\ pending # None)
    PROVE  /\ About(Line[Len(writes)], s) = About(InMemory, s)
           /\ persist
           /\ UNCHANGED <<restored, stored, page, records, ran, now>>
           /\ Times(InMemory', s) => Times(InMemory, s)
           /\ Awaits(InMemory', s) => Times(InMemory, s) \/ Awaits(InMemory, s)
           /\ Awaits(InMemory', s) => ~Times(InMemory', s)
<1>1. s \in Nat /\ s # None /\ s <= begun /\ Idle.id = None
  BY QuickStopAssumption DEF Sound, Typed, Idle
<1>2. /\ ~(Times(InMemory, s) /\ pending # None)
      /\ ~(Awaits(InMemory, s) /\ state.id # None)
      /\ ~(Times(InMemory, s) /\ Awaits(InMemory, s))
  BY SoundSingle
<1>3. CASE start
  <2>1. state'.id = begun + 1 /\ pending' = None
    BY <1>3 DEF start
  <2>2. ~Times(InMemory', s) /\ ~Awaits(InMemory', s)
    BY <1>1, <2>1 DEF Times, Awaits, InMemory, PendingId, Sound, Typed
  <2>3. CASE restored
    BY <1>3, <2>2, <2>3, LastSaysMemory DEF start
  <2>4. CASE ~restored
    <3>1. undone' = undone \union {begun + 1} \union Of(stored)
      BY <1>3, <2>4 DEF start
    <3>2. Len(writes) \in 0..Len(writes)
      BY LineType DEF Sound
    <3>3. s \notin Of(Line[Len(writes)])
      BY <2>4, <3>1, <3>2, LineType DEF Sound, BeforeRestore, Quiet, AllUndone
    <3>4. s \notin Of(InMemory)
      BY <1>1, <1>3 DEF start, active, Of, InMemory, PendingId
    <3>5. About(Line[Len(writes)], s) = About(InMemory, s)
      BY <1>1, <3>3, <3>4, OfFacts, AboutFacts
    <3> QED BY <1>3, <2>2, <3>5 DEF start
  <2> QED BY <2>3, <2>4
<1>4. ASSUME pause \/ resume \/ end \/ (discardPending /\ pending # None)
      PROVE  /\ persist /\ UNCHANGED <<restored, stored, page, records, ran, now>>
             /\ restored \/ AllUndone
  BY <1>1, <1>4
  DEF pause, resume, end, discardPending, Steps, history, active, paused, Sound,
      BeforeRestore, Quiet
<1>5. CASE pause \/ resume
  <2>1. state'.id = state.id /\ pending' = pending
    BY <1>5 DEF pause, resume, Sound, Typed, Timers
  <2> QED
    BY <1>2, <1>4, <1>5, <2>1, LastSaysMemory DEF Times, Awaits, InMemory, PendingId
<1>6. CASE end
  <2>1. state'.id = None /\ pending' # None /\ pending'.id = state.id
    <3>1. state.id \in 1..begun
      BY <1>6 DEF end, active, Sound, Typed, Timers
    <3>2. elapsed \in Nat
      BY <1>6 DEF end, active, elapsed, Sound, Typed, Timers
    <3>3. pending' \in [id : Nat, duration : Nat]
      BY <1>6, <3>1, <3>2 DEF end, Sound, Typed
    <3> QED BY <1>1, <1>6, <3>3, QuickStopAssumption DEF end
  <2>2. ~Times(InMemory', s) /\ (Awaits(InMemory', s) => Times(InMemory, s))
    BY <1>1, <2>1 DEF Times, Awaits, InMemory, PendingId
  <2> QED BY <1>4, <1>6, <2>2, LastSaysMemory
<1>7. CASE discardPending /\ pending # None
  <2>1. state' = state /\ pending' = None
    BY <1>7 DEF discardPending
  <2>2. ~Awaits(InMemory', s) /\ (Times(InMemory', s) => Times(InMemory, s))
    BY <1>1, <2>1 DEF Times, Awaits, InMemory, PendingId
  <2> QED BY <1>4, <1>7, <2>2, LastSaysMemory
<1> QED BY <1>3, <1>5, <1>6, <1>7

(* The stop that is begun is in one copy, the last. *)
LEMMA StartFollowed ==
    ASSUME NEW s, Typed, start, s = begun + 1
    PROVE  Followed(s)'
<1>1. s \in Nat /\ s = begun + 1
  BY DEF Typed
<1>2. PICK n \in Nat : n = Len(writes)
  BY LineType
<1>3. PICK d : d = Line' OBVIOUS
<1>4. /\ persist /\ stored' = stored /\ UNCHANGED <<records, page>>
      /\ pending' = None /\ state'.id = s
  BY <1>1 DEF start
<1>5. Len(writes') = n + 1 /\ (\A i \in 0..n : d[i] = Line[i]) /\ d[n + 1] = InMemory'
  BY <1>2, <1>3, <1>4, LinePersist
<1>6. \A i \in 0..n : ~Awaits(d[i], s)
  <2>1. \A i \in 0..n : d[i] \in Copies(now, begun)
    BY <1>2, <1>5, LineType
  <2>2. now \in Nat /\ begun \in Nat /\ s \notin 1..begun
    BY <1>1 DEF Typed
  <2> QED BY <2>1, <2>2, OfBegun, OfFacts
<1>7. ~Awaits(d[n + 1], s)
  BY <1>1, <1>4, <1>5, QuickStopAssumption DEF Awaits, PendingId, InMemory
<1>8. InOrder(d, n + 1, s)
  <2>1. \A i \in 0..(n + 1) : ~Awaits(d[i], s)
    BY <1>6, <1>7, \A i \in 0..(n + 1) : i \in 0..n \/ i = n + 1
  <2> QED BY <2>1 DEF InOrder
<1>9. ~Seen(s)'
  <2>1. records[s] = <<>>
    <3>1. s \in StopIds
      BY <1>1, QuickStopAssumption DEF start, Typed, StopIds
    <3> QED BY <1>1, <3>1 DEF Typed
  <2>2. Shown # s
    BY <1>1, QuickStopAssumption DEF Shown, Typed, StopsDone
  <2> QED BY <1>4, <2>1, <2>2 DEF Seen, Shown
<1>10. Latest(s)'
  BY <1>3, <1>5 DEF Latest
<1> QED BY <1>3, <1>5, <1>8, <1>9, <1>10 DEF Followed

(* The restore: a stop that is sound is in no copy, or nothing happened    *)
(* before and memory is given what is stored of it.                        *)
LEMMA ApplyFacts ==
    ASSUME NEW s, Sound(s), applySettings
    PROVE  \/ /\ AllUndone /\ s \notin Of(InMemory) /\ s \notin Of(stored)
              /\ s \notin Of(InMemory')
           \/ /\ Quiet /\ About(stored, s) = About(InMemory', s)
              /\ Awaits(InMemory', s) => pending' = stored.pendingStop
<1>1. s \in Nat /\ s # None
  BY QuickStopAssumption DEF Sound
<1>2. ~restored /\ read # None
  BY DEF applySettings
<1>3. read \in Copies(now, begun)
  BY <1>2 DEF Sound, Typed
<1>4. CASE AllUndone
  <2>1. s \notin Of(stored) /\ s \notin Of(InMemory) /\ s \notin Of(read)
    BY <1>2, <1>4, LineType, 0 \in 0..Len(writes) DEF AllUndone, Sound
  <2>2. Of(InMemory') \subseteq Of(InMemory) \union Of(read)
    BY DEF applySettings, Of, PendingId, InMemory
  <2> QED BY <1>4, <2>1, <2>2
<1>5. CASE Quiet
  <2>1. read = stored
    BY <1>2, <1>5 DEF Quiet
  <2>2. state' = stored.inProgress
        /\ pending' = IF state'.id = None THEN stored.pendingStop ELSE None
    BY <1>5, <2>1 DEF applySettings, Quiet
  <2>3. Awaits(InMemory', s) => pending' = stored.pendingStop
    BY <1>1, <2>2 DEF Awaits, PendingId, InMemory
  <2>4. CASE stored.inProgress.id = None \/ stored.pendingStop = None
    BY <1>5, <2>2, <2>3, <2>4 DEF InMemory, About, PendingId
  <2>5. CASE s \notin Of(stored)
    <3>1. Of(InMemory') \subseteq Of(stored)
      BY <2>2 DEF Of, PendingId, InMemory
    <3> QED BY <1>1, <1>5, <2>3, <2>5, <3>1, OfFacts, AboutFacts
  <2>6. Single(stored, undone)
    BY <1>2, <2>1 DEF Sound, OneAtATime
  <2> QED BY <2>4, <2>5, <2>6 DEF Single, Sound
<1> QED BY <1>2, <1>4, <1>5 DEF Sound, BeforeRestore

(* The edits of the preferences, the restore and the end of the process.   *)
LEMMA ProcessFollowed ==
    ASSUME NEW s, Sound(s), Followed(s), s \notin undone',
           update \/ onCreate \/ Collect \/ applySettings \/ Kill
    PROVE  Followed(s)'
<1>1. s \in Nat
  BY DEF Sound
<1>2. PICK n \in Nat : n = Len(writes)
  BY LineType DEF Sound
<1>3. CASE update
  <2>1. PICK m \in Nat : m = Len(writes')
    BY <1>3, LineUpdate DEF Sound
  <2>2. n = m + 1 /\ \A i \in 0..m : Line'[i] = Line[i + 1]
    BY <1>2, <1>3, <2>1, LineUpdate DEF Sound
  <2>3. UNCHANGED <<restored, state, pending, records, page>>
    BY <1>3 DEF update
  <2>4. InOrder(Line', m, s) /\ (Past(Line, n, s) => Past(Line', m, s))
    BY <1>2, <2>1, <2>2, LineTail DEF Followed
  <2>5. Line'[m] = Line[n] /\ InMemory' = InMemory
    BY <2>2, <2>3, m \in 0..m DEF InMemory
  <2>6. Latest(s)'
    BY <1>2, <2>1, <2>3, <2>5 DEF Latest, Followed
  <2> QED BY <1>2, <2>1, <2>3, <2>4, <2>6 DEF Followed, Seen, Shown
<1>4. CASE onCreate \/ Collect
  <2>1. UNCHANGED <<restored, state, pending, writes, stored, records, page>>
    BY <1>4 DEF onCreate, Collect, service
  <2>2. Line' = Line /\ InMemory' = InMemory
    BY <2>1 DEF Line, InMemory
  <2> QED BY <2>1, <2>2 DEF Followed, Latest, Seen, Shown
<1>5. CASE applySettings
  <2>1. UNCHANGED <<writes, stored, records, page, undone>> /\ restored' /\ ~restored
        /\ read # None
    BY <1>5 DEF applySettings, history, mishaps
  <2>2. Line' = Line
    BY <2>1 DEF Line
  <2>4. About(Line[n], s) = About(InMemory', s)
    BY <1>1, <1>2, <1>5, <2>1, LineType, ApplyFacts, OfFacts, AboutFacts, n \in 0..n
    DEF Sound, Quiet, AllUndone
  <2>5. Latest(s)'
    BY <1>2, <2>1, <2>2, <2>4 DEF Latest
  <2> QED BY <2>1, <2>2, <2>5 DEF Followed, Seen, Shown
<1>6. CASE Kill
  <2>1. writes' = <<>> /\ ~restored' /\ page' = Shut /\ records' = records /\ stored' = stored
    BY <1>6 DEF Kill
  <2>2. Len(writes') = 0 /\ Line'[0] = Line[0] /\ 0 \in 0..n
    BY <1>2, <2>1, LineType DEF Sound, Line
  <2>3. InOrder(Line', 0, s)
    BY <1>2, <2>2, \A i \in 0..0 : i = 0 DEF Followed, InOrder
  <2>4. Seen(s)' => Seen(s)
    BY <1>1, <2>1, QuickStopAssumption DEF Seen, Shown, Shut
  <2>5. Seen(s) => Past(Line', 0, s)
    BY <1>2, <2>2, \A i \in 0..0 : i = 0 DEF Followed, Past
  <2> QED BY <2>1, <2>2, <2>3, <2>4, <2>5 DEF Followed, Latest
<1> QED BY <1>3, <1>4, <1>5, <1>6

(* The page, the clock, and a discard that finds nothing. *)
LEMMA PageFollowed ==
    ASSUME NEW s, Sound(s), Followed(s),
           \/ Tick \/ (discardPending /\ pending = None) \/ UNCHANGED vars
           \/ onOpen \/ onDestroy \/ pushState \/ handleSave \/ handleDiscardPending
    PROVE  Followed(s)'
<1>1. s \in Nat /\ s # None
  BY QuickStopAssumption DEF Sound
<1>2. UNCHANGED <<restored, state, pending, writes, stored>>
  BY DEF Tick, discardPending, onOpen, onDestroy, pushState, handleSave,
         handleDiscardPending, vars, service
<1>3. Line' = Line /\ InMemory' = InMemory /\ Len(writes') = Len(writes)
  BY <1>2 DEF Line, InMemory
<1>4. Latest(s)' /\ InOrder(Line', Len(writes'), s)
  BY <1>2, <1>3 DEF Followed, Latest
<1>5. Seen(s)' => Past(Line, Len(writes), s)
  <2>1. CASE pushState
    <3>1. page'.pending = stored.pendingStop /\ records' = records
      BY <2>1 DEF pushState, Sound, Typed, history
    <3>2. Seen(s)' => Seen(s) \/ Awaits(stored, s)
      BY <1>1, <3>1 DEF Seen, Shown, Awaits, PendingId
    <3>3. Awaits(stored, s) => Past(Line, Len(writes), s)
      BY LineType, OrderPast DEF Followed, Sound
    <3> QED BY <3>2, <3>3 DEF Followed
  <2>2. CASE handleSave
    <3>1. PICK p : p = page.pending.id OBVIOUS
    <3>2. Shown = p /\ page'.pending = page.pending
      BY <2>2, <3>1 DEF handleSave, Shown, Sound, Typed
    <3>3. s # p => records'[s] = records[s]
      BY <2>2, <3>1 DEF handleSave, Sound, Typed
    <3>4. Seen(s)' => Seen(s)
      BY <3>2, <3>3 DEF Seen, Shown
    <3> QED BY <3>4 DEF Followed
  <2>3. CASE onOpen \/ onDestroy
    <3>1. page'.pending = None /\ records' = records
      BY <2>3 DEF onOpen, onDestroy, Shut, history
    <3>2. Seen(s)' => Seen(s)
      BY <1>1, <3>1 DEF Seen, Shown
    <3> QED BY <3>2 DEF Followed
  <2>4. CASE Tick \/ (discardPending /\ pending = None) \/ UNCHANGED vars
             \/ handleDiscardPending
    <3>1. page' = page /\ records' = records
      BY <2>4 DEF Tick, discardPending, vars, handleDiscardPending
    <3> QED BY <3>1 DEF Seen, Shown, Followed
  <2> QED BY <2>1, <2>2, <2>3, <2>4
<1> QED BY <1>3, <1>4, <1>5 DEF Followed

(* A mishap is not taken back, and only start begins a stop. *)
LEMMA UndoneGrows ==
    ASSUME [Next]_vars
    PROVE  /\ undone \subseteq undone'
           /\ begun' \in {begun, begun + 1} /\ (begun' # begun => start)
BY DEF Next, vars, Tick, start, pause, resume, end, Steps, discardPending, update,
       onCreate, Collect, applySettings, Kill, onOpen, onDestroy, pushState,
       handleSave, handleDiscardPending, history, mishaps

(* Every stop begun that no mishap undid is followed. *)
LEMMA NextFollowed ==
    ASSUME Typed, BeforeRestore, OneAtATime, AllFollowed, [Next]_vars
    PROVE  AllFollowed'
<1>1. undone \subseteq undone' /\ begun' \in {begun, begun + 1} /\ (begun' # begun => start)
  BY UndoneGrows
<1>2. SUFFICES ASSUME NEW s \in 1..begun', s \notin undone' PROVE Followed(s)'
  BY DEF AllFollowed
<1>3. CASE s \in 1..begun
  <2>1. Sound(s) /\ Followed(s)
    BY <1>1, <1>2, <1>3 DEF Sound, AllFollowed
  <2>2. CASE start \/ pause \/ resume \/ end \/ (discardPending /\ pending # None)
    <3>1. Latest(s)
      BY <2>1 DEF Followed
    <3> QED BY <1>2, <2>1, <2>2, <3>1, CommandMoves, PersistFollowed
  <2> QED
    BY <1>2, <2>1, <2>2, ProcessFollowed, PageFollowed DEF Next
<1>4. CASE s \notin 1..begun
  <2>1. s = begun + 1 /\ start
    BY <1>1, <1>2, <1>4 DEF Typed
  <2> QED BY <2>1, StartFollowed
<1> QED BY <1>3, <1>4

-----------------------------------------------------------------------------
(* How long a sound stop ran is what every copy says of it.                *)
Elapsed(timer, t) ==
    timer.accumulated + (IF timer.running THEN t - timer.segStart ELSE 0)
Timely(s) ==
    /\ \A i \in 0..Len(writes) : Awaits(Line[i], s) => Line[i].pendingStop.duration = ran[s]
    /\ Awaits(InMemory, s) => pending.duration = ran[s]
    /\ Shown = s => page.pending.duration = ran[s]
    /\ \A i \in DOMAIN records[s] : records[s][i] = ran[s]
    /\ state.id = s => ran[s] = Elapsed(state, now)
    /\ ~restored /\ stored.inProgress.id = s => ran[s] = Elapsed(stored.inProgress, now)
AllTimely == \A s \in 1..begun : s \notin undone => Timely(s)

(* A stop that is being timed awaits no reason anywhere, nor was it shown. *)
LEMMA TimedIsNotPast ==
    ASSUME NEW s, Sound(s), Followed(s),
           state.id = s \/ (~restored /\ stored.inProgress.id = s)
    PROVE  /\ \A i \in 0..Len(writes) : ~Awaits(Line[i], s)
           /\ ~Awaits(InMemory, s) /\ ~Seen(s)
           /\ state.id # s => state = Idle
<1>1. s \in Nat /\ s # None
  BY QuickStopAssumption DEF Sound
<1>2. PICK n \in Nat : n = Len(writes)
  BY LineType DEF Sound
<1>3. ~AllUndone
  BY <1>1, LineType, 0 \in 0..Len(writes)
  DEF AllUndone, Of, InMemory, Sound
<1>4. restored \/ Quiet
  BY <1>3 DEF Sound, BeforeRestore
<1>5. Times(Line[n], s)
  <2>1. CASE restored
    <3>1. Times(InMemory, s)
      BY <2>1 DEF Times, InMemory
    <3>2. About(Line[n], s) = About(InMemory, s)
      BY <1>2, <2>1 DEF Followed, Latest
    <3> QED BY <1>1, <3>1, <3>2, AboutFacts
  <2>2. CASE ~restored
    BY <1>1, <1>2, <1>4, <2>2, LineType DEF Quiet, Times, Idle, Sound
  <2> QED BY <2>1, <2>2
<1>6. n \in 0..n /\ \A i \in 0..n : i <= n
  OBVIOUS
<1>7. \A i \in 0..n : ~Awaits(Line[i], s)
  BY <1>2, <1>5, <1>6 DEF Followed, InOrder
<1>8. ~Seen(s)
  BY <1>2, <1>5, <1>6 DEF Followed, Past
<1>9. ~Awaits(InMemory, s) /\ (state.id # s => state = Idle)
  <2>1. CASE state.id = s
    BY <2>1, SoundSingle DEF Times, InMemory
  <2>2. CASE state.id # s
    BY <1>1, <1>4, <2>2 DEF Quiet, Awaits, PendingId, InMemory
  <2> QED BY <2>1, <2>2
<1> QED BY <1>2, <1>7, <1>8, <1>9

(* The clock. *)
LEMMA TickTimely ==
    ASSUME NEW s, Sound(s), Followed(s), Timely(s), Tick
    PROVE  Timely(s)'
<1>1. s \in Nat /\ s # None /\ s \in StopIds /\ now \in Nat
  BY QuickStopAssumption DEF Sound, Typed, StopIds
<1>2. /\ UNCHANGED <<restored, state, pending, writes, stored, records, page>>
      /\ now' = now + 1
  BY DEF Tick, service
<1>3. Line' = Line /\ InMemory' = InMemory /\ Shown' = Shown
  BY <1>2 DEF Line, InMemory, Shown
<1>4. PICK r : r = ran OBVIOUS
<1>5. r[s] \in Nat /\ r \in [StopIds -> Nat]
  BY <1>1, <1>4 DEF Sound, Typed
<1>6. CASE Timed.running /\ Timed.id = s
  <2>1. ran'[s] = r[s] + 1
    BY <1>1, <1>4, <1>5, <1>6 DEF Tick
  <2>2. state.id = s \/ (~restored /\ stored.inProgress.id = s)
    BY <1>1, <1>6 DEF Timed, Idle
  <2>3. state.id # s => state = Idle
    BY <2>2, TimedIsNotPast
  <2>4. Timed = IF state.id = s THEN state ELSE stored.inProgress
    BY <1>1, <2>2, <2>3, <1>6 DEF Timed, active, Idle
  <2>5. Timed \in Timers(now, begun)
    BY <2>4 DEF Sound, Typed, Copies
  <2>6. Elapsed(Timed, now + 1) = Elapsed(Timed, now) + 1
    BY <1>1, <1>6, <2>5 DEF Elapsed, Timers
  <2>7. ran'[s] = Elapsed(Timed, now')
    BY <1>2, <1>4, <2>1, <2>2, <2>3, <2>4, <2>6, <1>1 DEF Timely, Idle
  <2>8. /\ \A i \in 0..Len(writes) : ~Awaits(Line[i], s)
        /\ ~Awaits(InMemory, s) /\ Shown # s /\ records[s] = <<>>
    BY <2>2, TimedIsNotPast DEF Seen
  <2>9. state.id = s => ran'[s] = Elapsed(state, now')
    BY <2>4, <2>7
  <2>10. ~restored /\ stored.inProgress.id = s => ran'[s] = Elapsed(stored.inProgress, now')
    <3>1. CASE state.id # s
      BY <2>4, <2>7, <3>1
    <3>2. CASE state.id = s
      BY <1>1, <3>2, QuickStopAssumption, LineType, 0 \in 0..Len(writes)
      DEF Sound, BeforeRestore, Quiet, Idle, AllUndone, Of, InMemory
    <3> QED BY <3>1, <3>2
  <2> QED BY <1>2, <1>3, <2>8, <2>9, <2>10 DEF Timely
<1>7. CASE ~(Timed.running /\ Timed.id = s)
  <2>1. ran'[s] = r[s]
    <3>1. CASE Timed.running
      <4>1. PICK id : id = Timed.id OBVIOUS
      <4>2. ran' = [r EXCEPT ![id] = @ + 1] /\ id # s
        BY <1>4, <1>7, <3>1, <4>1 DEF Tick
      <4> QED BY <1>1, <1>5, <4>2
    <3>2. CASE ~Timed.running
      BY <1>4, <3>2 DEF Tick
    <3> QED BY <3>1, <3>2
  <2>2. ASSUME state.id = s PROVE r[s] = Elapsed(state, now + 1)
    <3>1. Timed = state /\ ~state.running
      BY <1>1, <1>7, <2>2 DEF Timed, active
    <3> QED BY <1>4, <2>2, <3>1 DEF Timely, Elapsed
  <2>3. ASSUME ~restored, stored.inProgress.id = s
        PROVE  r[s] = Elapsed(stored.inProgress, now + 1)
    <3>1. state.id # s
      BY <1>1, <2>3, QuickStopAssumption, LineType, 0 \in 0..Len(writes)
      DEF Sound, BeforeRestore, Quiet, Idle, AllUndone, Of, InMemory
    <3>2. state = Idle
      BY <2>3, <3>1, TimedIsNotPast
    <3>3. Timed = stored.inProgress /\ ~stored.inProgress.running
      BY <1>7, <2>3, <3>2 DEF Timed, active, Idle
    <3> QED BY <1>4, <2>3, <3>3 DEF Timely, Elapsed
  <2> QED BY <1>2, <1>3, <1>4, <2>1, <2>2, <2>3 DEF Timely
<1> QED BY <1>6, <1>7

(* A command that leaves no other duration behind. *)
LEMMA PersistTimely ==
    ASSUME NEW s, Sound(s), Timely(s), persist,
           UNCHANGED <<restored, stored, records, page, ran, now>>,
           Awaits(InMemory', s) => pending'.duration = ran[s],
           state'.id = s => ran[s] = Elapsed(state', now)
    PROVE  Timely(s)'
<1>1. PICK n \in Nat : n = Len(writes)
  BY LinePersist DEF Sound
<1>2. PICK d : d = Line' OBVIOUS
<1>3. /\ Len(writes') = n + 1
      /\ \A i \in 0..n : d[i] = Line[i]
      /\ d[n + 1] = InMemory'
  BY <1>1, <1>2, LinePersist DEF Sound
<1>4. InMemory'.pendingStop = pending'
  BY DEF InMemory
<1>5. \A i \in 0..(n + 1) : Awaits(d[i], s) => d[i].pendingStop.duration = ran[s]
  <2>1. \A i \in 0..n : Awaits(d[i], s) => d[i].pendingStop.duration = ran[s]
    BY <1>1, <1>3 DEF Timely
  <2>2. Awaits(d[n + 1], s) => d[n + 1].pendingStop.duration = ran[s]
    BY <1>3, <1>4
  <2> QED BY <2>1, <2>2, \A i \in 0..(n + 1) : i \in 0..n \/ i = n + 1
<1>6. Shown' = Shown
  BY DEF Shown
<1> QED BY <1>2, <1>3, <1>5, <1>6 DEF Timely

(* The operator's commands and the discards. *)
LEMMA CommandTimely ==
    ASSUME NEW s, Sound(s), Followed(s), Timely(s), s \notin undone',
           start \/ pause \/ resume \/ end \/ (discardPending /\ pending # None)
    PROVE  Timely(s)'
<1>1. s \in Nat /\ s # None /\ s <= begun /\ begun \in Nat /\ now \in Nat
  BY QuickStopAssumption DEF Sound, Typed
<1>2. /\ persist
      /\ UNCHANGED <<restored, stored, records, page, ran, now>>
      /\ Awaits(InMemory', s) => Times(InMemory, s) \/ Awaits(InMemory, s)
  BY CommandMoves DEF Followed
<1>3. Times(InMemory, s) <=> state.id = s
  BY DEF Times, InMemory
<1>4. Awaits(InMemory', s) => pending' # None /\ pending'.id = s
  BY <1>1 DEF Awaits, PendingId, InMemory
<1>5. CASE start \/ discardPending
  <2>1. pending' = None
    BY <1>5 DEF start, discardPending
  <2>2. state'.id = s => state' = state
    BY <1>1, <1>5 DEF start, discardPending
  <2> QED BY <1>2, <1>4, <2>1, <2>2, PersistTimely DEF Timely
<1>6. CASE pause \/ resume
  <2>1. state \in Timers(now, begun) /\ pending' = pending
    BY <1>6 DEF Sound, Typed, pause, resume
  <2>2. state'.id = state.id
    BY <1>6, <2>1 DEF pause, resume, Timers
  <2>3. Elapsed(state', now) = Elapsed(state, now)
    <3>1. CASE pause
      <4>1. elapsed = Elapsed(state, now)
        BY DEF elapsed, Elapsed
      <4>2. Elapsed(state, now) \in Nat
        BY <1>1, <2>1 DEF Timers, Elapsed
      <4>3. state'.running = FALSE /\ state'.accumulated = Elapsed(state, now)
        BY <2>1, <3>1, <4>1 DEF pause, Timers
      <4> QED BY <4>2, <4>3 DEF Elapsed
    <3>2. CASE resume
      <4>1. ~state.running /\ state.accumulated \in Nat
        BY <1>1, <2>1, <3>2 DEF resume, paused, Timers
      <4>2. state'.running = TRUE /\ state'.accumulated = state.accumulated
            /\ state'.segStart = now
        BY <2>1, <3>2 DEF resume, Timers
      <4> QED BY <1>1, <4>1, <4>2 DEF Elapsed
    <3> QED BY <1>6, <3>1, <3>2
  <2>4. Awaits(InMemory', s) <=> Awaits(InMemory, s)
    BY <2>1 DEF Awaits, PendingId, InMemory
  <2> QED BY <1>2, <2>1, <2>2, <2>3, <2>4, PersistTimely DEF Timely
<1>7. CASE end
  <2>1. pending' = [id |-> state.id, duration |-> Elapsed(state, now)] /\ state' = Idle
    BY <1>7 DEF end, elapsed, Elapsed
  <2>2. state'.id # s
    BY <1>1, <2>1 DEF Idle
  <2>3. Awaits(InMemory', s) => pending'.duration = ran[s]
    BY <1>4, <2>1 DEF Timely
  <2> QED BY <1>2, <2>2, <2>3, PersistTimely
<1> QED BY <1>5, <1>6, <1>7

(* The stop that is begun. *)
LEMMA StartTimely ==
    ASSUME NEW s, Typed, start, s = begun + 1, Followed(s)'
    PROVE  Timely(s)'
<1>1. s \in Nat /\ s # None /\ begun \in Nat /\ now \in Nat /\ s \in StopIds
  BY QuickStopAssumption DEF Typed, start, StopIds
<1>2. /\ persist /\ stored' = stored /\ pending' = None
      /\ state' = [id |-> s, running |-> TRUE, accumulated |-> 0, segStart |-> now]
      /\ UNCHANGED <<records, page, ran, now>>
  BY DEF start
<1>3. ran[s] = 0 /\ records[s] = <<>>
  BY <1>1 DEF Typed
<1>4. Shown # s
  BY <1>1 DEF Shown, Typed, StopsDone
<1>5. Elapsed(state', now) = 0 /\ state'.id = s
  BY <1>1, <1>2 DEF Elapsed
<1>6. PICK n \in Nat : n = Len(writes)
  BY LineType
<1>7. PICK d : d = Line' OBVIOUS
<1>8. /\ Len(writes') = n + 1
      /\ \A i \in 0..n : d[i] = Line[i]
      /\ d[n + 1] = InMemory'
  BY <1>2, <1>6, <1>7, LinePersist
<1>9. ~Awaits(InMemory', s)
  BY <1>1, <1>2 DEF Awaits, PendingId, InMemory
<1>10. \A i \in 0..n : s \notin Of(Line[i])
  BY <1>1, <1>6, LineType, OfBegun
<1>11. \A i \in 0..(n + 1) : ~Awaits(d[i], s)
  BY <1>1, <1>8, <1>9, <1>10, OfFacts, \A i \in 0..(n + 1) : i \in 0..n \/ i = n + 1
<1>12. stored.inProgress.id # s
  BY <1>1, <1>6, <1>10, LineType, 0 \in 0..n, OfFacts DEF Times
<1>13. Shown' = Shown
  BY <1>2 DEF Shown
<1> QED
  BY <1>2, <1>3, <1>4, <1>5, <1>7, <1>8, <1>9, <1>11, <1>12, <1>13 DEF Timely

(* When the process dies, a sound stop is saved as memory had it. *)
LEMMA KillSaved ==
    ASSUME NEW s, Sound(s), Latest(s), s \notin undone', Kill, restored
    PROVE  About(stored, s) = About(InMemory, s)
<1>1. PICK n \in Nat : n = Len(writes)
  BY LineType DEF Sound
<1>2. About(Line[n], s) = About(InMemory, s)
  BY <1>1 DEF Latest
<1>3. CASE n = 0
  BY <1>1, <1>2, <1>3, LineType DEF Sound
<1>4. CASE n # 0
  <2>1. n \in DOMAIN writes /\ Line[n] = writes[n]
    BY <1>1, <1>4 DEF Sound, Typed, Line
  <2>2. s \in StopIds
    BY QuickStopAssumption DEF Sound, Typed, StopIds
  <2>3. About(writes[n], s) = About(stored, s)
    BY <2>1, <2>2 DEF Kill
  <2> QED BY <1>2, <2>1, <2>3
<1> QED BY <1>3, <1>4

(* The edits, the restore and the end of the process. *)
LEMMA ProcessTimely ==
    ASSUME NEW s, Sound(s), Followed(s), Timely(s), s \notin undone',
           update \/ onCreate \/ Collect \/ applySettings \/ Kill
    PROVE  Timely(s)'
<1>1. s \in Nat /\ s # None
  BY QuickStopAssumption DEF Sound
<1>2. PICK n \in Nat : n = Len(writes)
  BY LineType DEF Sound
<1>3. CASE update
  <2>1. PICK m \in Nat : m = Len(writes')
    BY <1>3, LineUpdate DEF Sound
  <2>2. n = m + 1 /\ \A i \in 0..m : Line'[i] = Line[i + 1] /\ i + 1 \in 0..n
    BY <1>2, <1>3, <2>1, LineUpdate DEF Sound
  <2>3. UNCHANGED <<restored, state, pending, records, page, ran, now>>
    BY <1>3 DEF update, history
  <2>4. InMemory' = InMemory /\ Shown' = Shown
    BY <2>3 DEF InMemory, Shown
  <2>5. ~restored => stored'.inProgress.id # s
    <3>1. Line'[0] = stored'
      BY DEF Line
    <3>2. ~restored => AllUndone
      BY <1>3 DEF update, Quiet, Sound, BeforeRestore
    <3>3. ~restored => s \notin Of(stored')
      BY <1>2, <2>2, <3>1, <3>2, 0 \in 0..m DEF AllUndone, Sound
    <3> QED BY <1>1, <3>3, OfFacts DEF Times
  <2>6. \A i \in 0..m : Awaits(Line'[i], s) => Line'[i].pendingStop.duration = ran[s]
    BY <1>2, <2>2 DEF Timely
  <2> QED BY <2>1, <2>3, <2>4, <2>5, <2>6 DEF Timely
<1>4. CASE onCreate \/ Collect
  <2>1. UNCHANGED <<restored, state, pending, writes, stored, records, page, ran, now>>
    BY <1>4 DEF onCreate, Collect, service, history
  <2>2. Line' = Line /\ InMemory' = InMemory /\ Shown' = Shown
    BY <2>1 DEF Line, InMemory, Shown
  <2> QED BY <2>1, <2>2 DEF Timely
<1>5. CASE applySettings
  <2>1. UNCHANGED <<writes, stored, records, page, ran, now>> /\ restored' /\ ~restored
    BY <1>5 DEF applySettings, history
  <2>2. Line' = Line /\ Shown' = Shown
    BY <2>1 DEF Line, Shown
  <2>3. Awaits(InMemory', s) => pending'.duration = ran[s]
    <3> SUFFICES ASSUME Awaits(InMemory', s) PROVE pending'.duration = ran[s]
      OBVIOUS
    <3>1. About(stored, s) = About(InMemory', s) /\ pending' = stored.pendingStop
      BY <1>1, <1>5, ApplyFacts, OfFacts
    <3>2. Awaits(stored, s)
      BY <1>1, <3>1, AboutFacts
    <3> QED BY <3>1, <3>2, LineType, 0 \in 0..Len(writes) DEF Timely, Sound
  <2>4. state'.id = s => ran[s] = Elapsed(state', now)
    <3> SUFFICES ASSUME state'.id = s PROVE ran[s] = Elapsed(state', now)
      OBVIOUS
    <3>1. Times(InMemory', s) /\ InMemory'.inProgress = state'
      BY DEF Times, InMemory
    <3>2. About(stored, s) = About(InMemory', s)
      BY <1>1, <1>5, <3>1, ApplyFacts, OfFacts
    <3>3. Times(stored, s) /\ stored.inProgress = state'
      BY <1>1, <3>1, <3>2, AboutFacts
    <3> QED BY <2>1, <3>3 DEF Timely, Times
  <2> QED BY <2>1, <2>2, <2>3, <2>4 DEF Timely
<1>6. CASE Kill
  <2>1. /\ writes' = <<>> /\ ~restored' /\ page' = Shut /\ state' = Idle /\ pending' = None
        /\ UNCHANGED <<stored, records, ran, now>>
    BY <1>6 DEF Kill
  <2>2. Len(writes') = 0 /\ Line'[0] = Line[0] /\ 0 \in 0..n
    BY <1>2, <2>1, LineType DEF Sound, Line
  <2>3. \A i \in 0..0 : Awaits(Line'[i], s) => Line'[i].pendingStop.duration = ran[s]
    BY <1>2, <2>2, \A i \in 0..0 : i = 0 DEF Timely
  <2>4. ~Awaits(InMemory', s) /\ state'.id # s /\ Shown' # s
    BY <1>1, <2>1 DEF Awaits, PendingId, InMemory, Shown, Shut, Idle
  <2>5. stored.inProgress.id = s => ran[s] = Elapsed(stored.inProgress, now)
    <3>1. CASE restored
      <4>1. About(stored, s) = About(InMemory, s)
        BY <1>6, <3>1, KillSaved DEF Followed
      <4>2. Times(stored, s) => Times(InMemory, s) /\ stored.inProgress = InMemory.inProgress
        BY <1>1, <4>1, AboutFacts
      <4> QED BY <4>2 DEF Timely, Times, InMemory
    <3>2. CASE ~restored
      BY <3>2 DEF Timely
    <3> QED BY <3>1, <3>2
  <2> QED BY <2>1, <2>2, <2>3, <2>4, <2>5 DEF Timely
<1> QED BY <1>3, <1>4, <1>5, <1>6

(* The page, and a discard that finds nothing. *)
LEMMA PageTimely ==
    ASSUME NEW s, Sound(s), Timely(s),
           \/ (discardPending /\ pending = None) \/ UNCHANGED vars
           \/ onOpen \/ onDestroy \/ pushState \/ handleSave \/ handleDiscardPending
    PROVE  Timely(s)'
<1>1. s \in Nat /\ s # None /\ s \in StopIds
  BY QuickStopAssumption DEF Sound, Typed, StopIds
<1>2. UNCHANGED <<restored, state, pending, writes, stored, ran, now>>
  BY DEF discardPending, onOpen, onDestroy, pushState, handleSave,
         handleDiscardPending, vars, service, history
<1>3. Line' = Line /\ InMemory' = InMemory
  BY <1>2 DEF Line, InMemory
<1>4. Shown' = s => page'.pending.duration = ran[s]
  <2>1. CASE pushState
    <3>1. page'.pending = stored.pendingStop
      BY <2>1 DEF pushState, Sound, Typed
    <3>2. Shown' = s => Awaits(stored, s)
      BY <1>1, <3>1 DEF Shown, Awaits, PendingId
    <3> QED BY <3>1, <3>2, LineType, 0 \in 0..Len(writes) DEF Timely, Sound
  <2>2. CASE onOpen \/ onDestroy
    BY <1>1, <2>2 DEF onOpen, onDestroy, Shut, Shown
  <2>3. CASE (discardPending /\ pending = None) \/ UNCHANGED vars \/ handleSave
             \/ handleDiscardPending
    <3>1. page'.pending = page.pending
      BY <2>3 DEF discardPending, vars, handleSave, handleDiscardPending, Sound, Typed
    <3> QED BY <3>1 DEF Shown, Timely
  <2> QED BY <2>1, <2>2, <2>3
<1>5. \A i \in DOMAIN records'[s] : records'[s][i] = ran[s]
  <2>1. CASE handleSave
    <3>1. PICK p : p = page.pending OBVIOUS
    <3>2. records' = [records EXCEPT ![p.id] = Append(@, p.duration)] /\ Shown = p.id
      BY <2>1, <3>1 DEF handleSave, Shown
    <3>3. PICK q \in Seq(0..now) : q = records[s]
      BY <1>1 DEF Sound, Typed
    <3>4. CASE p.id = s
      <4>1. records'[s] = Append(q, ran[s])
        BY <1>1, <3>1, <3>2, <3>3, <3>4 DEF Timely, Sound, Typed
      <4>2. \A i \in DOMAIN q : q[i] = ran[s]
        BY <3>3 DEF Timely
      <4> QED BY <4>1, <4>2
    <3>5. CASE p.id # s
      BY <1>1, <3>2, <3>5 DEF Timely, Sound, Typed
    <3> QED BY <3>4, <3>5
  <2>2. CASE ~handleSave
    <3>1. records' = records
      BY <2>2 DEF discardPending, onOpen, onDestroy, pushState, handleDiscardPending,
                  vars, history
    <3> QED BY <3>1 DEF Timely
  <2> QED BY <2>1, <2>2
<1> QED BY <1>2, <1>3, <1>4, <1>5 DEF Timely

(* Every sound stop is timed right. *)
LEMMA NextTimely ==
    ASSUME Typed, BeforeRestore, OneAtATime, AllFollowed, AllTimely, [Next]_vars
    PROVE  AllTimely'
<1>1. undone \subseteq undone' /\ begun' \in {begun, begun + 1} /\ (begun' # begun => start)
  BY UndoneGrows
<1>2. SUFFICES ASSUME NEW s \in 1..begun', s \notin undone' PROVE Timely(s)'
  BY DEF AllTimely
<1>3. CASE s \in 1..begun
  <2>1. Sound(s) /\ Followed(s) /\ Timely(s)
    BY <1>1, <1>2, <1>3 DEF Sound, AllFollowed, AllTimely
  <2> QED
    BY <1>2, <2>1, TickTimely, CommandTimely, ProcessTimely, PageTimely DEF Next
<1>4. CASE s \notin 1..begun
  <2>1. s = begun + 1 /\ start
    BY <1>1, <1>2, <1>4 DEF Typed
  <2> QED BY <2>1, StartFollowed, StartTimely
<1> QED BY <1>3, <1>4

-----------------------------------------------------------------------------
(* A stop that was recorded is not asked about again: its discard is under *)
(* way or it is in no copy that a restart would find.                      *)
Answered(s) ==
    records[s] # <<>> =>
        s \in Members(discards) \/ s \notin Of(IF restored THEN InMemory ELSE stored)
AllAnswered == \A s \in 1..begun : s \notin undone => Answered(s)

(* A recorded stop that no page was opened again for is recorded once; the *)
(* page that is open remembers it, or shows another and will not see it.   *)
Once(s) ==
    s \notin reopened =>
        /\ Len(records[s]) <= 1
        /\ records[s] # <<>> /\ page.open =>
              /\ page.sig # s => Shown # s
              /\ page.sig # s \/ Shown \notin {None, s} => ~Awaits(stored, s)
AllOnce == \A s \in 1..begun : s \notin undone => Once(s)

(* A discard under way is for a stop that was recorded or dismissed. *)
DiscardsAreMeant == \A s \in Members(discards) : records[s] # <<>> \/ s \in dismissed

(* What a queue of discards holds when one is taken off or put to it. *)
LEMMA MembersFacts ==
    ASSUME NEW b, NEW q \in Seq(1..b), NEW x \in 1..b
    PROVE  /\ Members(Append(q, x)) = Members(q) \union {x}
           /\ Members(<<>>) = {}
           /\ q # <<>> => /\ Head(q) \in Members(q)
                          /\ Members(Tail(q)) \subseteq Members(q)
                          /\ Members(q) \subseteq {Head(q)} \union Members(Tail(q))
<1>1. Members(Append(q, x)) = Members(q) \union {x}
  <2>1. \A y \in Members(q) : y \in Members(Append(q, x))
    BY DEF Members
  <2>2. x \in Members(Append(q, x))
    <3>1. Append(q, x)[Len(q) + 1] = x /\ Len(q) + 1 \in DOMAIN Append(q, x)
      OBVIOUS
    <3> QED BY <3>1 DEF Members
  <2>3. \A y \in Members(Append(q, x)) : y \in Members(q) \/ y = x
    BY DEF Members
  <2> QED BY <2>1, <2>2, <2>3
<1>2. Members(<<>>) = {}
  BY DEF Members
<1>3. ASSUME q # <<>>
      PROVE  /\ Head(q) \in Members(q)
             /\ Members(Tail(q)) \subseteq Members(q)
             /\ Members(q) \subseteq {Head(q)} \union Members(Tail(q))
  <2>1. Head(q) = q[1] /\ 1 \in DOMAIN q
    BY <1>3
  <2>2. \A i \in DOMAIN Tail(q) : Tail(q)[i] = q[i + 1] /\ i + 1 \in DOMAIN q
    BY <1>3
  <2>3. \A i \in DOMAIN q : i = 1 \/ (i - 1 \in DOMAIN Tail(q) /\ Tail(q)[i - 1] = q[i])
    BY <1>3
  <2>4. \A y \in Members(q) : y = Head(q) \/ y \in Members(Tail(q))
    BY <2>1, <2>3 DEF Members
  <2> QED BY <2>1, <2>2, <2>4 DEF Members
<1> QED BY <1>1, <1>2, <1>3

(* A stop that was seen is not timed any more. *)
LEMMA SeenIsPast ==
    ASSUME NEW s, Sound(s), Followed(s), Seen(s), restored \/ AllUndone
    PROVE  ~Times(InMemory, s)
<1>1. s \in Nat /\ Len(writes) \in 0..Len(writes)
  BY LineType DEF Sound
<1>2. ~Times(Line[Len(writes)], s)
  BY <1>1 DEF Followed, Past
<1>3. About(Line[Len(writes)], s) = About(InMemory, s)
  BY LastSaysMemory DEF Followed
<1> QED BY <1>1, <1>2, <1>3, AboutFacts

(* The operator's commands and the discards. *)
LEMMA CommandAnswered ==
    ASSUME NEW s, Sound(s), Followed(s), Answered(s), s \notin undone',
           start \/ pause \/ resume \/ end \/ discardPending
    PROVE  Answered(s)'
<1>1. s \in Nat /\ s # None
  BY QuickStopAssumption DEF Sound
<1>2. UNCHANGED <<restored, stored, records>>
  BY DEF start, pause, resume, end, Steps, discardPending
<1>3. CASE start \/ pause \/ resume \/ end
  <2>1. s \in Of(InMemory') => s \in Of(InMemory)
    <3>1. /\ Times(InMemory', s) => Times(InMemory, s)
          /\ Awaits(InMemory', s) => Times(InMemory, s) \/ Awaits(InMemory, s)
      BY <1>3, CommandMoves DEF Followed
    <3> QED BY <1>1, <3>1, OfFacts
  <2>2. discards' = discards
    BY <1>3 DEF start, pause, resume, end, Steps
  <2> QED BY <1>2, <2>1, <2>2 DEF Answered
<1>4. CASE discardPending
  <2>1. discards \in Seq(1..begun) /\ discards # <<>> /\ discards' = Tail(discards)
        /\ (restored \/ Head(discards) # s)
    BY <1>4 DEF discardPending, Sound, Typed
  <2>2. s \in Members(discards) => s \in Members(discards') \/ s = Head(discards)
    BY <2>1, MembersFacts DEF Sound
  <2>3. pending' = None /\ state' = state
    BY <1>4 DEF discardPending
  <2>4. s \in Of(InMemory') => Times(InMemory, s)
    BY <1>1, <2>3 DEF Of, PendingId, InMemory, Times
  <2>5. CASE restored
    <3>1. records[s] # <<>> => s \notin Of(InMemory')
      BY <2>4, <2>5, SeenIsPast DEF Seen
    <3> QED BY <1>2, <2>5, <3>1 DEF Answered
  <2>6. CASE ~restored
    BY <1>2, <2>1, <2>2, <2>6 DEF Answered
  <2> QED BY <2>5, <2>6
<1> QED BY <1>3, <1>4

(* The edits, the restore and the end of the process. *)
LEMMA ProcessAnswered ==
    ASSUME NEW s, Sound(s), Followed(s), Answered(s), s \notin undone',
           update \/ onCreate \/ Collect \/ applySettings \/ Kill
    PROVE  Answered(s)'
<1>1. s \in Nat /\ s # None
  BY QuickStopAssumption DEF Sound
<1>2. records' = records
  BY DEF update, onCreate, Collect, applySettings, Kill
<1>3. CASE update
  <2>1. UNCHANGED <<restored, state, pending, discards>>
    BY <1>3 DEF update
  <2>2. ~restored => s \notin Of(stored')
    <3>1. PICK m \in Nat : m = Len(writes')
      BY <1>3, LineUpdate DEF Sound
    <3>2. Line'[0] = Line[1] /\ 1 \in 0..Len(writes) /\ Line'[0] = stored'
      BY <1>3, <3>1, LineUpdate, 0 \in 0..m, 0 + 1 = 1 DEF Sound, Line
    <3> QED BY <1>3, <3>2 DEF update, Quiet, Sound, BeforeRestore, AllUndone
  <2> QED BY <1>2, <2>1, <2>2 DEF Answered, InMemory
<1>4. CASE onCreate \/ Collect
  <2>1. UNCHANGED <<restored, state, pending, stored, discards>>
    BY <1>4 DEF onCreate, Collect, service
  <2> QED BY <1>2, <2>1 DEF Answered, InMemory
<1>5. CASE applySettings
  <2>1. discards' = discards /\ restored' /\ ~restored
    BY <1>5 DEF applySettings
  <2>2. s \in Of(InMemory') => s \in Of(stored)
    BY <1>1, <1>5, ApplyFacts, OfFacts, AboutFacts
  <2> QED BY <1>2, <2>1, <2>2 DEF Answered
<1>6. CASE Kill
  <2>1. ~restored' /\ stored' = stored
        /\ (discards' = discards \/ (discards' = <<>> /\ Members(discards) \subseteq undone'))
    BY <1>6 DEF Kill
  <2>2. s \in Members(discards) => s \in Members(discards')
    BY <2>1
  <2>3. restored => (s \in Of(stored) => s \in Of(InMemory))
    BY <1>1, <1>6, KillSaved, OfFacts, AboutFacts DEF Followed
  <2> QED BY <1>2, <2>1, <2>2, <2>3 DEF Answered
<1> QED BY <1>3, <1>4, <1>5, <1>6

(* The clock and the page. *)
LEMMA PageAnswered ==
    ASSUME NEW s, Sound(s), Answered(s),
           \/ Tick \/ UNCHANGED vars
           \/ onOpen \/ onDestroy \/ pushState \/ handleSave \/ handleDiscardPending
    PROVE  Answered(s)'
<1>1. UNCHANGED <<restored, state, pending, stored>>
  BY DEF Tick, onOpen, onDestroy, pushState, handleSave, handleDiscardPending, vars, service
<1>2. InMemory' = InMemory
  BY <1>1 DEF InMemory
<1>3. CASE handleSave \/ handleDiscardPending
  <2>1. PICK p : p = page.pending OBVIOUS
  <2>2. p.id \in 1..begun /\ discards \in Seq(1..begun)
    <3>1. p \in StopsDone(now, begun)
      BY <1>3, <2>1 DEF handleSave, handleDiscardPending, Sound, Typed
    <3> QED BY <3>1 DEF StopsDone, Sound, Typed
  <2>3. discards' = Append(discards, p.id)
    BY <1>3, <2>1 DEF handleSave, handleDiscardPending
  <2>4. Members(discards') = Members(discards) \union {p.id}
    BY <2>2, <2>3, MembersFacts
  <2>5. s # p.id => records'[s] = records[s]
    <3>1. \/ records' = [records EXCEPT ![p.id] = Append(@, p.duration)]
          \/ records' = records
      BY <1>3, <2>1 DEF handleSave, handleDiscardPending
    <3>2. s \in StopIds /\ records \in [StopIds -> Seq(0..now)]
      BY QuickStopAssumption DEF Sound, Typed, StopIds
    <3> QED BY <3>1, <3>2
  <2> QED BY <1>1, <1>2, <2>4, <2>5 DEF Answered
<1>4. CASE Tick \/ UNCHANGED vars \/ onOpen \/ onDestroy \/ pushState
  <2>1. UNCHANGED <<records, discards>>
    BY <1>4 DEF Tick, onOpen, onDestroy, pushState, vars, history
  <2> QED BY <1>1, <1>2, <2>1 DEF Answered
<1> QED BY <1>3, <1>4

(* A discard stays meant: the queue grows by what is recorded or dismissed. *)
LEMMA NextMeant ==
    ASSUME Typed, DiscardsAreMeant, [Next]_vars
    PROVE  DiscardsAreMeant'
<1>1. CASE handleSave \/ handleDiscardPending
  <2>1. PICK p : p = page.pending OBVIOUS
  <2>2. p.id \in 1..begun /\ p.id \in StopIds /\ discards \in Seq(1..begun)
    <3>1. p \in StopsDone(now, begun)
      BY <1>1, <2>1 DEF handleSave, handleDiscardPending, Typed
    <3> QED BY <3>1, QuickStopAssumption DEF StopsDone, Typed, StopIds
  <2>3. discards' = Append(discards, p.id)
    BY <1>1, <2>1 DEF handleSave, handleDiscardPending
  <2>4. Members(discards') = Members(discards) \union {p.id}
    BY <2>2, <2>3, MembersFacts
  <2>5. CASE handleSave
    <3>1. records' = [records EXCEPT ![p.id] = Append(@, p.duration)] /\ dismissed' = dismissed
      BY <2>1, <2>5 DEF handleSave, history
    <3>2. records[p.id] \in Seq(0..now)
      BY <2>2 DEF Typed
    <3>3. Append(records[p.id], p.duration) # <<>>
      BY <3>2
    <3>4. records'[p.id] # <<>>
      BY <2>2, <3>1, <3>3 DEF Typed
    <3>5. \A s : s # p.id => records'[s] = records[s]
      BY <3>1 DEF Typed
    <3> QED BY <2>4, <3>1, <3>4, <3>5 DEF DiscardsAreMeant
  <2>6. CASE handleDiscardPending
    BY <2>1, <2>4, <2>6 DEF handleDiscardPending, DiscardsAreMeant
  <2> QED BY <1>1, <2>5, <2>6
<1>2. CASE ~(handleSave \/ handleDiscardPending)
  <2>1. UNCHANGED <<records, dismissed>>
    BY <1>2 DEF Next, vars, Tick, start, pause, resume, end, Steps, discardPending, update,
         onCreate, Collect, applySettings, Kill, onOpen, onDestroy, pushState, history
  <2>2. discards' = discards \/ discards' = <<>> \/ (discards # <<>> /\ discards' = Tail(discards))
    BY <1>2 DEF Next, vars, Tick, start, pause, resume, end, Steps, discardPending, update,
         onCreate, Collect, applySettings, Kill, onOpen, onDestroy, pushState, history
  <2>3. Members(discards') \subseteq Members(discards)
    <3>1. discards \in Seq(1..begun)
      BY DEF Typed
    <3>2. discards # <<>> => Members(Tail(discards)) \subseteq Members(discards)
      <4>1. PICK q : q = discards OBVIOUS
      <4>2. SUFFICES ASSUME q # <<>> PROVE Members(Tail(q)) \subseteq Members(q)
        BY <4>1
      <4>3. q[1] \in 1..begun
        <5>1. PICK S : S = 1..begun OBVIOUS
        <5>2. q \in Seq(S) /\ q # <<>>
          BY <3>1, <4>1, <4>2, <5>1
        <5>3. 1 \in 1..Len(q)
          BY <5>2
        <5>4. q[1] \in S
          BY <5>2, <5>3
        <5> QED BY <5>1, <5>4
      <4> QED BY <3>1, <4>1, <4>2, <4>3, MembersFacts
    <3>3. Members(<<>>) = {}
      BY DEF Members
    <3> QED BY <2>2, <3>2, <3>3
  <2> QED BY <2>1, <2>3 DEF DiscardsAreMeant
<1> QED BY <1>1, <1>2

(* Nobody but the page records; the page is the last to see a stop.        *)
LEMMA PageOnce ==
    ASSUME NEW s, Sound(s), Followed(s), Answered(s), Once(s), s \notin undone',
           onOpen \/ onDestroy \/ pushState \/ handleSave \/ handleDiscardPending
    PROVE  Once(s)'
<1>1. s \in Nat /\ s # None /\ s \in StopIds
  BY QuickStopAssumption DEF Sound, Typed, StopIds
<1>2. stored' = stored /\ reopened \subseteq reopened'
  BY DEF onOpen, onDestroy, pushState, handleSave, handleDiscardPending, history, mishaps
<1>3. SUFFICES ASSUME s \notin reopened'
               PROVE  /\ Len(records'[s]) <= 1
                      /\ records'[s] # <<>> /\ page'.open =>
                            /\ page'.sig # s => Shown' # s
                            /\ page'.sig # s \/ Shown' \notin {None, s} => ~Awaits(stored, s)
  BY <1>2 DEF Once
<1>4. Len(records[s]) <= 1
  BY <1>2, <1>3 DEF Once
<1>5. CASE onOpen
  <2>1. page'.open /\ page'.sig = None /\ Shown' = None /\ records' = records /\ up
    BY <1>5 DEF onOpen, Shut, Shown
  <2>2. ASSUME records[s] # <<>>, Awaits(stored, s) PROVE FALSE
    <3>1. s \notin Members(discards)
      BY <1>3, <1>5 DEF onOpen
    <3>2. s \in Of(stored)
      BY <1>1, <2>2, OfFacts
    <3>3. restored /\ s \notin Of(InMemory)
      BY <2>2, <3>1, <3>2 DEF Answered
    <3>4. ~Awaits(InMemory, s)
      BY <1>1, <3>3, OfFacts
    <3>5. PendingId(stored) = s /\ PendingId(InMemory) # s
      BY <2>2, <3>4 DEF Awaits
    <3> QED BY <1>1, <1>3, <1>5, <3>3, <3>5 DEF onOpen
  <2> QED BY <1>1, <1>4, <2>1, <2>2
<1>6. CASE onDestroy
  BY <1>4, <1>6 DEF onDestroy, Shut, history
<1>7. CASE pushState
  <2>1. /\ records' = records /\ page.open
        /\ page'.open /\ page'.sig = page.sig /\ page'.pending = stored.pendingStop
    BY <1>7 DEF pushState, history, Sound, Typed
  <2>2. Shown' = PendingId(stored)
    BY <2>1 DEF Shown, PendingId
  <2>3. records[s] # <<>> => (page.sig # s => ~Awaits(stored, s))
    BY <1>2, <1>3, <2>1 DEF Once
  <2> QED BY <1>4, <2>1, <2>2, <2>3 DEF Awaits
<1>8. CASE handleSave
  <2>1. PICK p : p = page.pending OBVIOUS
  <2>2. /\ p # None /\ Shown = p.id /\ page.sig # p.id /\ page.open
        /\ records' = [records EXCEPT ![p.id] = Append(@, p.duration)]
        /\ page' = [page EXCEPT !.sig = p.id]
    BY <1>8, <2>1 DEF handleSave, Shown
  <2>3. page'.sig = p.id /\ page'.open /\ Shown' = p.id
    BY <2>1, <2>2 DEF Sound, Typed, Shown
  <2>4. CASE p.id = s
    <3>1. records[s] = <<>>
      BY <1>2, <1>3, <2>2, <2>4 DEF Once
    <3>2. records'[s] = Append(<<>>, p.duration)
      BY <1>1, <2>2, <2>4, <3>1 DEF Sound, Typed
    <3>3. Len(Append(<<>>, p.duration)) = 1
      OBVIOUS
    <3> QED BY <2>3, <2>4, <3>2, <3>3
  <2>5. CASE p.id # s
    <3>1. records'[s] = records[s]
      BY <1>1, <2>2, <2>5 DEF Sound, Typed
    <3>2. p.id # None
      <4>1. p \in StopsDone(now, begun)
        BY <2>1, <2>2 DEF Sound, Typed
      <4> QED BY <4>1, QuickStopAssumption DEF StopsDone, Sound, Typed
    <3>3. records[s] # <<>> => ~Awaits(stored, s)
      BY <1>2, <1>3, <2>2, <2>5, <3>2 DEF Once
    <3> QED BY <1>4, <2>3, <2>5, <3>1, <3>3
  <2> QED BY <2>4, <2>5
<1>9. CASE handleDiscardPending
  <2>1. records' = records /\ page' = page
    BY <1>9 DEF handleDiscardPending
  <2>2. Shown' = Shown
    BY <2>1 DEF Shown
  <2> QED BY <1>2, <1>3, <2>1, <2>2 DEF Once
<1> QED BY <1>5, <1>6, <1>7, <1>8, <1>9

(* What is stored next does not bring a recorded stop back; nothing else   *)
(* that the service does can be seen by the page.                          *)
LEMMA ServiceOnce ==
    ASSUME NEW s, Sound(s), Followed(s), Once(s),
           \/ Tick \/ start \/ pause \/ resume \/ end \/ discardPending
           \/ update \/ onCreate \/ Collect \/ applySettings \/ Kill \/ UNCHANGED vars
    PROVE  Once(s)'
<1>1. records' = records /\ reopened' = reopened
  BY DEF Tick, start, pause, resume, end, Steps, discardPending, update, onCreate,
         Collect, applySettings, Kill, vars, history, mishaps
<1>2. CASE Kill
  <2>1. ~page'.open
    BY <1>2 DEF Kill, Shut
  <2> QED BY <1>1, <2>1 DEF Once
<1>3. CASE update
  <2>1. page' = page
    BY <1>3 DEF update
  <2>2. PICK m \in Nat : m = Len(writes')
    BY <1>3, LineUpdate DEF Sound
  <2>3. /\ Line'[0] = Line[1] /\ Line'[0] = stored' /\ Line[0] = stored
        /\ 0 \in 0..Len(writes) /\ 1 \in 0..Len(writes)
    BY <1>3, <2>2, LineUpdate, LineType, 0 \in 0..m, 0 + 1 = 1 DEF Sound, Line
  <2>4. records[s] # <<>> => (Awaits(stored', s) => Awaits(stored, s))
    BY <2>3, 0 <= 1 DEF Followed, Past, Seen
  <2>5. Shown' = Shown
    BY <2>1 DEF Shown
  <2> QED BY <1>1, <2>1, <2>4, <2>5 DEF Once
<1>4. CASE ~(Kill \/ update)
  <2>1. UNCHANGED <<page, stored>>
    BY <1>4 DEF Tick, start, pause, resume, end, Steps, discardPending, onCreate,
         Collect, applySettings, vars
  <2>2. Shown' = Shown
    BY <2>1 DEF Shown
  <2> QED BY <1>1, <2>1, <2>2 DEF Once
<1> QED BY <1>2, <1>3, <1>4

(* Every sound stop that was recorded is not asked about again, and is     *)
(* recorded once.                                                          *)
LEMMA NextAnswered ==
    ASSUME Typed, BeforeRestore, OneAtATime, AllFollowed, AllAnswered, AllOnce,
           [Next]_vars
    PROVE  AllAnswered' /\ AllOnce'
<1>1. undone \subseteq undone' /\ begun' \in {begun, begun + 1} /\ (begun' # begun => start)
  BY UndoneGrows
<1>2. SUFFICES ASSUME NEW s \in 1..begun', s \notin undone' PROVE Answered(s)' /\ Once(s)'
  BY DEF AllAnswered, AllOnce
<1>3. CASE s \in 1..begun
  <2>1. Sound(s) /\ Followed(s) /\ Answered(s) /\ Once(s)
    BY <1>1, <1>2, <1>3 DEF Sound, AllFollowed, AllAnswered, AllOnce
  <2>2. Answered(s)'
    BY <1>2, <2>1, CommandAnswered, ProcessAnswered, PageAnswered DEF Next
  <2>3. Once(s)'
    BY <1>2, <2>1, PageOnce, ServiceOnce DEF Next
  <2> QED BY <2>2, <2>3
<1>4. CASE s \notin 1..begun
  <2>1. s = begun + 1 /\ start
    BY <1>1, <1>2, <1>4 DEF Typed
  <2>2. records'[s] = <<>>
    <3>1. s \in StopIds /\ s > begun /\ records' = records
      BY <2>1, QuickStopAssumption DEF start, Typed, StopIds
    <3> QED BY <3>1 DEF Typed
  <2> QED BY <2>2, Len(<<>>) = 0 DEF Answered, Once
<1> QED BY <1>3, <1>4

-----------------------------------------------------------------------------
(* Nothing is lost. *)
AllKept == \A s \in 1..begun : s \notin undone => NotLost(s)

(* The operator's commands and the discards: only a discard drops. *)
LEMMA CommandKept ==
    ASSUME NEW s, Sound(s), Followed(s), NotLost(s), DiscardsAreMeant, s \notin undone',
           start \/ pause \/ resume \/ end \/ discardPending
    PROVE  NotLost(s)'
<1>1. s \in Nat /\ s # None
  BY QuickStopAssumption DEF Sound
<1>2. /\ UNCHANGED <<restored, stored, records, dismissed>>
      /\ mistaken \subseteq mistaken'
  BY DEF start, pause, resume, end, Steps, discardPending, history, mishaps
<1>3. /\ ~(Times(InMemory, s) /\ pending # None)
      /\ ~(Awaits(InMemory, s) /\ state.id # None)
  BY SoundSingle
<1>4. SUFFICES ASSUME records[s] = <<>>, s \in Of(InMemory)
               PROVE  s \in Of(InMemory') \/ s \in dismissed \/ s \in mistaken'
  <2>1. ~restored /\ s \in Of(stored) /\ s \notin undone'
          => s \in Kept'
    BY <1>2 DEF Kept
  <2>2. s \in Of(InMemory') => s \in Kept'
    BY DEF Kept
  <2> QED BY <1>2, <1>4, <2>1, <2>2 DEF NotLost, Kept, Sound
<1>5. Times(InMemory, s) \/ Awaits(InMemory, s)
  BY <1>1, <1>4, OfFacts
<1>6. CASE start
  BY <1>1, <1>5, <1>6 DEF start, active, Times, Awaits, PendingId, InMemory
<1>7. CASE pause \/ resume
  <2>1. state'.id = state.id /\ pending' = pending
    BY <1>7 DEF pause, resume, Sound, Typed, Timers
  <2> QED BY <1>4, <2>1 DEF Of, PendingId, InMemory
<1>8. CASE end
  <2>1. state.id # None /\ state.id \in 1..begun
    BY <1>8 DEF end, active, Sound, Typed, Timers
  <2>2. state.id = s
    BY <1>3, <1>5, <2>1 DEF Times, InMemory
  <2>3. elapsed \in Nat
    BY <1>8 DEF end, active, elapsed, Sound, Typed, Timers
  <2>4. pending' = [id |-> s, duration |-> elapsed]
    BY <1>8, <2>2 DEF end
  <2>5. pending' # None /\ pending'.id = s
    <3>1. pending' \in [id : Nat, duration : Nat]
      BY <1>1, <2>3, <2>4
    <3> QED BY <2>4, <3>1, QuickStopAssumption
  <2>6. Awaits(InMemory', s)
    BY <2>5 DEF Awaits, PendingId, InMemory
  <2> QED BY <1>1, <2>6, OfFacts
<1>9. CASE discardPending
  <2>1. CASE Awaits(InMemory, s)
    <3>1. pending # None /\ pending.id = s
      BY <1>1, <2>1 DEF Awaits, PendingId, InMemory
    <3>2. discards \in Seq(1..begun) /\ discards # <<>>
      BY <1>9 DEF discardPending, Sound, Typed
    <3>3. Head(discards) \in Members(discards)
      <4>1. Head(discards) = discards[1] /\ 1 \in DOMAIN discards
        BY <3>2
      <4> QED BY <4>1 DEF Members
    <3>4. CASE Head(discards) = s
      BY <1>4, <3>3, <3>4 DEF DiscardsAreMeant
    <3>5. CASE Head(discards) # s
      BY <1>9, <3>1, <3>5 DEF discardPending
    <3> QED BY <3>4, <3>5
  <2>2. CASE Times(InMemory, s)
    <3>1. state' = state
      BY <1>9 DEF discardPending
    <3>2. Times(InMemory', s)
      BY <2>2, <3>1 DEF Times, InMemory
    <3> QED BY <1>1, <3>2, OfFacts
  <2> QED BY <1>5, <2>1, <2>2
<1> QED BY <1>6, <1>7, <1>8, <1>9

(* The edits, the restore and the end of the process. *)
LEMMA ProcessKept ==
    ASSUME NEW s, Sound(s), Followed(s), NotLost(s), s \notin undone',
           update \/ onCreate \/ Collect \/ applySettings \/ Kill
    PROVE  NotLost(s)'
<1>1. s \in Nat /\ s # None
  BY QuickStopAssumption DEF Sound
<1>2. UNCHANGED <<records, dismissed, mistaken>>
  BY DEF update, onCreate, Collect, applySettings, Kill, history, mishaps
<1>3. s \in Kept => s \in Kept'
  <2>1. CASE update
    <3>1. UNCHANGED <<restored, state, pending>>
      BY <2>1 DEF update
    <3>2. ~restored => s \notin Of(stored)
      BY <2>1, LineType, 0 \in 0..Len(writes)
      DEF update, Quiet, Sound, BeforeRestore, AllUndone
    <3> QED BY <3>1, <3>2 DEF Kept, InMemory
  <2>2. CASE onCreate \/ Collect
    <3>1. UNCHANGED <<restored, state, pending, stored>>
      BY <2>2 DEF onCreate, Collect, service
    <3> QED BY <3>1 DEF Kept, InMemory
  <2>3. CASE applySettings
    <3>1. restored' /\ ~restored
      BY <2>3 DEF applySettings
    <3>2. Quiet => s \notin Of(InMemory)
      BY <1>1 DEF Quiet, Idle, Of, PendingId, InMemory
    <3>3. s \in Of(InMemory) \/ s \in Of(stored) => s \in Of(InMemory')
      BY <1>1, <2>3, <3>2, ApplyFacts, OfFacts, AboutFacts
    <3> QED BY <3>1, <3>3 DEF Kept
  <2>4. CASE Kill
    <3>1. ~restored' /\ stored' = stored
      BY <2>4 DEF Kill
    <3>2. restored => (s \in Of(InMemory) => s \in Of(stored))
      BY <1>1, <2>4, KillSaved, OfFacts, AboutFacts DEF Followed
    <3>3. ~restored => s \notin Of(InMemory)
      BY <1>1 DEF Quiet, Idle, Of, PendingId, InMemory, Sound, BeforeRestore, AllUndone
    <3> QED BY <3>1, <3>2, <3>3 DEF Kept
  <2> QED BY <2>1, <2>2, <2>3, <2>4
<1> QED BY <1>2, <1>3 DEF NotLost, Sound

(* The clock and the page. *)
LEMMA PageKept ==
    ASSUME NEW s, Sound(s), NotLost(s),
           \/ Tick \/ UNCHANGED vars
           \/ onOpen \/ onDestroy \/ pushState \/ handleSave \/ handleDiscardPending
    PROVE  NotLost(s)'
<1>1. UNCHANGED <<restored, state, pending, stored>>
  BY DEF Tick, onOpen, onDestroy, pushState, handleSave, handleDiscardPending, vars, service
<1>2. Kept' = Kept
  BY <1>1 DEF Kept, InMemory
<1>3. dismissed \subseteq dismissed' /\ mistaken' = mistaken
  BY DEF Tick, onOpen, onDestroy, pushState, handleSave, handleDiscardPending, vars,
         history, mishaps
<1>4. records'[s] = <<>> => records[s] = <<>>
  <2>1. CASE handleSave
    <3>1. PICK p : p = page.pending OBVIOUS
    <3>2. records' = [records EXCEPT ![p.id] = Append(@, p.duration)]
      BY <2>1, <3>1 DEF handleSave
    <3>3. s \in StopIds /\ records \in [StopIds -> Seq(0..now)]
      BY QuickStopAssumption DEF Sound, Typed, StopIds
    <3>4. CASE p.id = s
      <4>1. records'[s] = Append(records[s], p.duration)
        BY <3>2, <3>3, <3>4
      <4>2. Append(records[s], p.duration) # <<>>
        BY <3>3
      <4> QED BY <4>1, <4>2
    <3>5. CASE p.id # s
      BY <3>2, <3>3, <3>5
    <3> QED BY <3>4, <3>5
  <2>2. CASE ~handleSave
    BY <2>2 DEF Tick, onOpen, onDestroy, pushState, handleDiscardPending, vars, history
  <2> QED BY <2>1, <2>2
<1> QED BY <1>2, <1>3, <1>4 DEF NotLost, Sound

(* Nothing begun, and neither recorded nor undone, is lost by a step. *)
LEMMA NextKept ==
    ASSUME Typed, BeforeRestore, OneAtATime, AllFollowed, DiscardsAreMeant, AllKept,
           [Next]_vars
    PROVE  AllKept'
<1>1. undone \subseteq undone' /\ begun' \in {begun, begun + 1} /\ (begun' # begun => start)
  BY UndoneGrows
<1>2. SUFFICES ASSUME NEW s \in 1..begun', s \notin undone' PROVE NotLost(s)'
  BY DEF AllKept
<1>3. CASE s \in 1..begun
  <2>1. Sound(s) /\ Followed(s) /\ NotLost(s)
    BY <1>1, <1>2, <1>3 DEF Sound, AllFollowed, AllKept
  <2> QED BY <1>2, <2>1, CommandKept, ProcessKept, PageKept DEF Next
<1>4. CASE s \notin 1..begun
  <2>1. s = begun + 1 /\ start /\ s # None
    BY <1>1, <1>2, <1>4, QuickStopAssumption DEF Typed
  <2>2. state'.id = s
    BY <2>1 DEF start
  <2>3. s \in Of(InMemory')
    BY <2>1, <2>2 DEF Of, InMemory
  <2> QED BY <2>3 DEF NotLost, Kept
<1> QED BY <1>3, <1>4

-----------------------------------------------------------------------------
(* The inductive invariant: types, the line of copies, and for every stop  *)
(* that no mishap undid its way along that line, its time, its record and  *)
(* its discard.                                                            *)
Inv ==
    /\ Typed /\ BeforeRestore /\ OneAtATime
    /\ AllFollowed /\ AllTimely /\ AllAnswered /\ AllOnce
    /\ DiscardsAreMeant /\ AllKept

(* It holds at first: nothing was begun. *)
LEMMA InitInv == Init => Inv
<1> SUFFICES ASSUME Init PROVE Inv
  OBVIOUS
<1>1. Typed
  BY InitTyped
<1>2. BeforeRestore
  BY DEF Init, BeforeRestore, Quiet
<1>3. OneAtATime
  <2>1. Line[0] = Nothing /\ Len(writes) = 0
    BY <1>1, LineType DEF Init
  <2>2. \A i \in 0..Len(writes) : Line[i] = Nothing
    BY <2>1
  <2>3. Single(InMemory, undone) /\ Single(Nothing, undone)
    BY DEF Init, Single, InMemory, Nothing, Idle
  <2> QED BY <2>2, <2>3 DEF OneAtATime, Init
<1>4. \A s \in 1..begun : FALSE
  BY DEF Init
<1>5. AllFollowed /\ AllTimely /\ AllAnswered /\ AllOnce /\ AllKept
  BY <1>4 DEF AllFollowed, AllTimely, AllAnswered, AllOnce, AllKept
<1>6. DiscardsAreMeant
  BY DEF Init, DiscardsAreMeant, Members
<1> QED BY <1>1, <1>2, <1>3, <1>5, <1>6 DEF Inv

(* Every step keeps it. *)
LEMMA NextInv == Inv /\ [Next]_vars => Inv'
<1> SUFFICES ASSUME Inv, [Next]_vars PROVE Inv'
  OBVIOUS
<1>1. Typed'
  BY NextTyped DEF Inv
<1>2. BeforeRestore' /\ OneAtATime'
  BY NextRestore DEF Inv
<1>3. AllFollowed'
  BY NextFollowed DEF Inv
<1>4. AllTimely'
  BY NextTimely DEF Inv
<1>5. AllAnswered' /\ AllOnce'
  BY NextAnswered DEF Inv
<1>6. DiscardsAreMeant'
  BY NextMeant DEF Inv
<1>7. AllKept'
  BY NextKept DEF Inv
<1> QED BY <1>1, <1>2, <1>3, <1>4, <1>5, <1>6, <1>7 DEF Inv

(* In every run the invariant holds in every state. *)
THEOREM Invariance == Spec => []Inv
<1>1. Init => Inv
  BY InitInv
<1>2. Inv /\ [Next]_vars => Inv'
  BY NextInv
<1> QED BY <1>1, <1>2, PTL DEF Spec

(* The stop timer keeps its types: no timer and no finished stop, in       *)
(* memory, stored or on its way there, claims more time than there was,    *)
(* and a dead process holds nothing.                                       *)
THEOREM TypeCorrect == Spec => []TypeOK
<1>1. Inv => TypeOK
  BY TypedTypeOK DEF Inv
<1> QED BY <1>1, Invariance, PTL

(* Every stop begun is timed, awaits a reason, is recorded once for as     *)
(* long as it ran or was dismissed, unless one of the mishaps that the     *)
(* code allows befell it.                                                  *)
THEOREM StopsOnce == Spec => []EveryStopOnce
<1>1. ASSUME Inv, NEW s \in 1..begun
      PROVE  NotLost(s) /\ NotTwice(s) /\ AsLongAsItRan(s)
  <2>1. CASE s \in undone
    BY <2>1 DEF NotLost, NotTwice, AsLongAsItRan
  <2>2. CASE s \notin undone
    <3>1. NotLost(s) /\ Once(s) /\ Timely(s)
      BY <1>1, <2>2 DEF Inv, AllKept, AllOnce, AllTimely
    <3> QED BY <3>1 DEF Once, Timely, NotTwice, AsLongAsItRan
  <2> QED BY <2>1, <2>2
<1>2. Inv => EveryStopOnce
  BY <1>1 DEF EveryStopOnce
<1> QED BY <1>2, Invariance, PTL
=============================================================================
