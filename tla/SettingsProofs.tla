--------------------------- MODULE SettingsProofs ---------------------------
(* What TLAPS proves of the factory's settings, for any devices, any        *)
(* skews and any bounds.                                                    *)
EXTENDS Settings, FiniteSetTheorems, TLAPS

(* The part of TypeOK that counts nothing; an edit is stamped by the clock *)
(* of its device.                                                          *)
Edit == [by : Devices, at : Nat \ {0}, crossed : BOOLEAN]
Typed ==
    /\ TypeOK
    /\ IsFiniteSet(edits) /\ edits \subseteq Edit
    /\ \A e \in edits : e.at <= now + Skew[e.by]

(* What the page shows is what it stored. *)
ShownIsStored == shown = stored

(* A stamp the server gave is not in its future, and not after the blob's.  *)
StampsAreClamped ==
    /\ served.at <= now /\ served.at <= served.config.at
    /\ \A d \in Devices : flush[d].got.at <= flush[d].got.config.at

(* While a flush awaits its GET, what it will compare is as new as each     *)
(* edit of its device that was made before.                                *)
Asking(d) == flush[d].pc \in {"get", "got"}
FlushKnows ==
    \A e \in edits : ~e.crossed /\ Asking(e.by) => flush[e.by].mine.at >= e.at

Inv == Typed /\ ShownIsStored /\ StampsAreClamped /\ FlushKnows /\ EditsAreKept

(* A stamp is the time of the edit by the clock of its device, in whatever *)
(* copy of the settings; a PUT is sent no earlier than the edit was made,   *)
(* and the server stamps it no earlier.                                    *)
Copies ==
    {served.config, backup} \cup {stored[d] : d \in Devices}
    \cup {flush[d].mine : d \in Devices} \cup {flush[d].got.config : d \in Devices}
    \cup {put.config : put \in stray}
Honest(b) == b.at = b.val.when + SkewOf(b.val.by) /\ b.val.when <= now
Dated ==
    /\ \A b \in Copies : Honest(b)
    /\ \A put \in PutsUnderWay : put.config.val.when <= put.sent
    /\ served.config.val.when <= served.at

-----------------------------------------------------------------------------
(* Facts of a state. *)

(* The constants. *)
LEMMA ConstantFacts ==
    /\ MaxTime \in Nat \ {0} /\ MaxEdits \in Nat /\ MaxStops \in Nat /\ MaxStray \in Nat
    /\ Factory \notin Devices
    /\ \A d \in Devices : Skew[d] \in Nat
BY SettingsAssumption

(* The built-in settings and the empty answer. *)
LEMMA DefaultFacts ==
    /\ Default \in Blob /\ Default.at = 0 /\ Default \notin Edited
    /\ None \in Served /\ None.at = 0 /\ None.config = Default
    /\ Idle \in Flush /\ Idle.pc = "idle" /\ Idle.mine = Default /\ Idle.got = None
<1>1. Default \in Blob /\ Default.at = 0
  BY DEF Default, Blob, Author
<1>2. None \in Served /\ None.at = 0 /\ None.config = Default
  BY <1>1 DEF None, Served
<1>3. Idle \in Flush
  BY <1>1, <1>2 DEF Idle, Flush
<1> QED BY <1>1, <1>2, <1>3 DEF Edited, Idle

(* The types of what a step of a device reads. *)
LEMMA DeviceFacts ==
    ASSUME Inv, NEW d \in Devices
    PROVE  /\ now \in Nat /\ now >= 1 /\ Clock(d) \in Nat /\ Clock(d) = now + Skew[d]
           /\ Clock(d) >= 1
           /\ stored[d] \in Blob /\ stored[d].at \in Nat /\ shown[d] = stored[d]
           /\ flush[d] \in Flush /\ flush[d].mine \in Blob /\ flush[d].mine.at \in Nat
           /\ flush[d].got \in Served /\ flush[d].got.at \in Nat
           /\ flush[d].got.config \in Blob /\ flush[d].got.config.at \in Nat
<1>1. now \in Nat /\ now >= 1 /\ Clock(d) \in Nat /\ Clock(d) = now + Skew[d] /\ Clock(d) >= 1
  BY ConstantFacts DEF Inv, Typed, TypeOK, Clock
<1>2. stored[d] \in Blob /\ flush[d] \in Flush /\ shown[d] = stored[d]
  BY DEF Inv, Typed, TypeOK, ShownIsStored
<1>3. flush[d].mine \in Blob /\ flush[d].got \in Served
  BY <1>2 DEF Flush
<1>4. flush[d].got.at \in Nat /\ flush[d].got.config \in Blob
  BY <1>3 DEF Served
<1> QED BY <1>1, <1>2, <1>3, <1>4 DEF Blob

(* The types of what the server has. *)
LEMMA ServerFacts ==
    ASSUME Inv
    PROVE  /\ served \in Served /\ served.at \in Nat /\ served.config \in Blob
           /\ served.config.at \in Nat
           /\ served.at <= now /\ served.at <= served.config.at
<1>1. served \in Served
  BY DEF Inv, Typed, TypeOK
<1>2. served.at \in Nat /\ served.config \in Blob
  BY <1>1 DEF Served
<1> QED BY <1>1, <1>2 DEF Blob, Inv, StampsAreClamped

(* The types of an edit. *)
LEMMA EditFacts ==
    ASSUME Inv, NEW e \in edits
    PROVE  /\ e.by \in Devices /\ e.at \in Nat \ {0} /\ e.crossed \in BOOLEAN
           /\ e.at <= now + Skew[e.by]
<1>1. e \in Edit
  BY DEF Inv, Typed
<1> QED BY <1>1 DEF Edit, Inv, Typed

(* Sending, and giving up, leave only PUTs of edited settings under way. *)
LEMMA StrayFacts ==
    ASSUME Inv, NEW d \in Devices
    PROVE  /\ \A put \in Put : Send(put) => \A p \in stray' : p \in Put
           /\ flush[d].pc = "put" => PutOf(d) \in Put
           /\ GiveUp(d) => \A p \in stray' : p \in Put
<1>1. flush[d].pc = "put" => PutOf(d) \in Put
  BY DEF PutOf, Put, Flush, Inv, Typed, TypeOK
<1> QED BY <1>1 DEF Send, GiveUp, Inv, Typed, TypeOK

(* What the server does with a PUT that arrived at t: it stamps it no later *)
(* than t and than the PUT itself.                                         *)
LEMMA TakeFacts ==
    ASSUME Inv, NEW config \in Edited, NEW t \in Nat, t <= now, Take(config, t)
    PROVE  /\ served' \in Served /\ served'.at <= now
           /\ served'.at <= served'.config.at
<1>1. config \in Blob /\ config.at \in Nat
  BY DEF Edited, Blob
<1>2. now \in Nat /\ served \in Served /\ served.at <= now /\ served.at <= served.config.at
  BY ServerFacts DEF Inv, Typed, TypeOK
<1>3. CASE Applies(config, t)
  <2>1. PICK s : s = [at |-> Smaller(config.at, t), config |-> config]
    OBVIOUS
  <2>2. served' = s /\ s.at = Smaller(config.at, t) /\ s.config = config
    BY <1>3, <2>1 DEF Take
  <2>3. Smaller(config.at, t) \in Nat /\ Smaller(config.at, t) <= now
        /\ Smaller(config.at, t) <= config.at
    BY <1>1, <1>2 DEF Smaller
  <2>4. s \in Served
    BY <1>1, <2>1, <2>3 DEF Served
  <2> QED BY <2>2, <2>3, <2>4
<1>4. CASE ~Applies(config, t)
  BY <1>2, <1>4 DEF Take
<1> QED BY <1>3, <1>4

-----------------------------------------------------------------------------
(* Kinds of steps. *)

(* A step of a flush: it moves on, and nothing else that the invariant is   *)
(* about changes but the PUTs under way.                                   *)
LEMMA FlushMoves ==
    ASSUME Inv, NEW d \in Devices, NEW f \in Flush,
           flush' = [flush EXCEPT ![d] = f],
           f.pc = "put" => f.mine \in Edited,
           f.got.at <= f.got.config.at,
           f.pc \in {"get", "got"} =>
             \A e \in edits : e.by = d /\ ~e.crossed => f.mine.at >= e.at,
           UNCHANGED <<now, served, stored, shown, on, edits, backup>>,
           rejected' \in [Devices -> BOOLEAN],
           \A put \in stray' : put \in Put,
           stops' \in 0..MaxStops
    PROVE  Inv'
<1>1. flush' \in [Devices -> Flush]
      /\ \A c \in Devices : flush'[c] = IF c = d THEN f ELSE flush[c]
  BY DEF Inv, Typed, TypeOK
<1>2. Typed'
  BY <1>1 DEF Inv, Typed, TypeOK
<1>3. ShownIsStored' /\ EditsAreKept'
  BY DEF Inv, ShownIsStored, EditsAreKept
<1>4. StampsAreClamped'
  BY <1>1 DEF Inv, StampsAreClamped
<1>5. FlushKnows'
  BY <1>1, EditFacts DEF Inv, FlushKnows, Asking
<1> QED BY <1>2, <1>3, <1>4, <1>5 DEF Inv

(* A step of the server. *)
LEMMA ServerMoves ==
    ASSUME Inv, NEW config \in Edited, NEW t \in Nat, t <= now, Take(config, t),
           UNCHANGED <<now, stored, shown, on, rejected, backup, edits, stops, flush>>,
           \A p \in stray' : p \in Put
    PROVE  Inv'
<1>1. served' \in Served /\ served'.at <= now /\ served'.at <= served'.config.at
  BY TakeFacts
<1>2. Typed'
  BY <1>1 DEF Inv, Typed, TypeOK
<1>3. ShownIsStored' /\ EditsAreKept' /\ FlushKnows'
  BY DEF Inv, ShownIsStored, EditsAreKept, FlushKnows, Asking
<1>4. StampsAreClamped'
  BY <1>1 DEF Inv, StampsAreClamped
<1> QED BY <1>2, <1>3, <1>4 DEF Inv

(* A device takes over settings, its flush idle afterwards: they are as new *)
(* as each of its edits.                                                   *)
LEMMA StoredMoves ==
    ASSUME Inv, NEW d \in Devices, NEW b \in Blob,
           stored' = [stored EXCEPT ![d] = b], shown' = [shown EXCEPT ![d] = b],
           flush' = [flush EXCEPT ![d] = Idle],
           \A e \in edits : e.by = d /\ ~e.crossed => b.at >= e.at,
           UNCHANGED <<now, served, on, edits, backup>>,
           rejected' \in [Devices -> BOOLEAN],
           \A put \in stray' : put \in Put,
           stops' \in 0..MaxStops
    PROVE  Inv'
<1>1. flush' \in [Devices -> Flush]
      /\ \A c \in Devices : flush'[c] = IF c = d THEN Idle ELSE flush[c]
  BY DefaultFacts DEF Inv, Typed, TypeOK
<1>2. stored' \in [Devices -> Blob] /\ shown' \in [Devices -> Blob]
      /\ \A c \in Devices : stored'[c] = IF c = d THEN b ELSE stored[c]
  BY DEF Inv, Typed, TypeOK
<1>3. Typed'
  BY <1>1, <1>2, DefaultFacts DEF Inv, Typed, TypeOK
<1>4. ShownIsStored'
  BY DEF Inv, ShownIsStored
<1>5. EditsAreKept'
  BY <1>2, EditFacts DEF Inv, EditsAreKept
<1>6. StampsAreClamped'
  BY <1>1, DefaultFacts DEF Inv, StampsAreClamped
<1>7. FlushKnows'
  BY <1>1, EditFacts, DefaultFacts DEF Inv, FlushKnows, Asking
<1> QED BY <1>3, <1>4, <1>5, <1>6, <1>7 DEF Inv

-----------------------------------------------------------------------------
(* The initial states, and each action. *)

(* A device starts with the built-in settings and the server with none.    *)
LEMMA InitInv == Init => Inv
<1> SUFFICES ASSUME Init PROVE Inv
  OBVIOUS
<1>1. IsFiniteSet(edits) /\ Cardinality(edits) = 0
  BY FS_EmptySet DEF Init
<1>2. Typed
  BY <1>1, DefaultFacts, ConstantFacts DEF Init, Typed, TypeOK
<1>3. ShownIsStored /\ StampsAreClamped /\ FlushKnows /\ EditsAreKept
  BY DefaultFacts DEF Init, ShownIsStored, StampsAreClamped, FlushKnows, EditsAreKept
<1> QED BY <1>2, <1>3 DEF Inv

(* Time passes; stamps do not. *)
LEMMA TickInv ==
    ASSUME Inv, Tick
    PROVE  Inv'
<1>1. now \in Nat /\ now' = now + 1 /\ now' \in 1..MaxTime
  BY ConstantFacts DEF Tick, Inv, Typed, TypeOK
<1>2. \A e \in edits : e.at <= now' + Skew[e.by]
  BY <1>1, EditFacts, ConstantFacts
<1>3. Typed'
  BY <1>1, <1>2 DEF Tick, Inv, Typed, TypeOK
<1>4. StampsAreClamped'
  BY <1>1, ServerFacts DEF Tick, Inv, StampsAreClamped
<1>5. ShownIsStored' /\ FlushKnows' /\ EditsAreKept'
  BY DEF Tick, Inv, ShownIsStored, FlushKnows, Asking, EditsAreKept
<1> QED BY <1>3, <1>4, <1>5 DEF Inv

(* The edit is as new as all edits of its device. *)
LEMMA persistConfigInv ==
    ASSUME Inv, NEW d \in Devices, persistConfig(d)
    PROVE  Inv'
<1>1. PICK next : next = [at |-> Clock(d), val |-> [by |-> d, when |-> now]]
  OBVIOUS
<1>2. PICK e : e = [by |-> d, at |-> next.at, crossed |-> flush[d].pc \in {"get", "got"}]
  OBVIOUS
<1>3. /\ shown' = [shown EXCEPT ![d] = next] /\ stored' = [stored EXCEPT ![d] = next]
      /\ Send([config |-> next, sent |-> now]) \/ UNCHANGED stray
      /\ edits' = edits \cup {e} /\ Cardinality(edits) < MaxEdits
      /\ UNCHANGED <<now, served, on, flush, rejected, backup, stops>>
  BY <1>1, <1>2 DEF persistConfig
<1>4. next \in Edited /\ next \in Blob /\ next.at = Clock(d) /\ next.at \in Nat \ {0}
  BY <1>1, DeviceFacts DEF Edited, Blob, Author
<1>5. e \in Edit /\ e.by = d /\ e.at = Clock(d) /\ (e.crossed <=> Asking(d))
  <2>1. CASE Asking(d)
    <3>1. e = [by |-> d, at |-> next.at, crossed |-> TRUE]
      BY <1>2, <2>1 DEF Asking
    <3> QED BY <1>4, <2>1, <3>1 DEF Edit
  <2>2. CASE ~Asking(d)
    <3>2. (flush[d].pc \in {"get", "got"}) = FALSE
      BY <2>2 DEF Asking
    <3>1. e = [by |-> d, at |-> next.at, crossed |-> FALSE]
      BY <1>2, <3>2
    <3> QED BY <1>4, <2>2, <3>1 DEF Edit
  <2> QED BY <2>1, <2>2
<1>6. stored' \in [Devices -> Blob] /\ shown' \in [Devices -> Blob]
      /\ \A c \in Devices : stored'[c] = IF c = d THEN next ELSE stored[c]
  BY <1>3, <1>4 DEF Inv, Typed, TypeOK
<1>7. IsFiniteSet(edits') /\ Cardinality(edits') <= MaxEdits
  <2>1. /\ IsFiniteSet(edits \cup {e})
        /\ \/ Cardinality(edits \cup {e}) = Cardinality(edits)
           \/ Cardinality(edits \cup {e}) = Cardinality(edits) + 1
        /\ Cardinality(edits) \in Nat
    BY FS_AddElement, FS_CardinalityType DEF Inv, Typed
  <2> QED BY <1>3, <2>1, ConstantFacts
<1>8. Typed'
  <2>1. \A put \in stray' : put \in Put
    <3>1. now \in Nat
      BY DeviceFacts
    <3>2. [config |-> next, sent |-> now] \in Put
      BY <1>4, <3>1 DEF Put
    <3> QED BY <1>3, <3>2, StrayFacts DEF Inv, Typed, TypeOK
  <2>2. edits' \subseteq Edit /\ \A x \in edits' : x.at <= now + Skew[x.by]
    BY <1>3, <1>5, DeviceFacts DEF Inv, Typed
  <2> QED BY <1>3, <1>6, <1>7, <2>1, <2>2 DEF Inv, Typed, TypeOK
<1>9. ShownIsStored' /\ StampsAreClamped'
  BY <1>3 DEF Inv, ShownIsStored, StampsAreClamped
<1>10. FlushKnows'
  BY <1>3, <1>5 DEF Inv, FlushKnows, Asking
<1>11. EditsAreKept'
  <2>1. \A x \in edits : x.by = d => next.at >= x.at
    BY <1>4, EditFacts, DeviceFacts
  <2> QED BY <1>3, <1>4, <1>5, <1>6, <2>1, EditFacts, DeviceFacts DEF Inv, EditsAreKept
<1> QED BY <1>8, <1>9, <1>10, <1>11 DEF Inv

(* Sync is turned on and off, and the settings are written to a file.      *)
LEMMA SwitchInv ==
    ASSUME Inv, NEW d \in Devices, EnableSync(d) \/ DisableSync(d) \/ downloadBackup(d)
    PROVE  Inv'
<1>1. UNCHANGED <<now, served, stored, shown, flush, rejected, stray, edits>>
  BY DEF EnableSync, DisableSync, downloadBackup
<1>2. on' \in [Devices -> BOOLEAN]
  BY DEF EnableSync, DisableSync, downloadBackup, Inv, Typed, TypeOK
<1>3. backup' \in Blob /\ stops' \in 0..MaxStops
  BY DeviceFacts, ConstantFacts
     DEF EnableSync, DisableSync, downloadBackup, Stops, Inv, Typed, TypeOK
<1> QED BY <1>1, <1>2, <1>3 DEF Inv, Typed, TypeOK, ShownIsStored, StampsAreClamped,
            FlushKnows, Asking, EditsAreKept

(* A load shows what is stored, or what a file has that is as new.         *)
LEMMA ReloadInv ==
    ASSUME Inv, NEW d \in Devices, Reload(d) \/ handleRestoreFile(d)
    PROVE  Inv'
<1>1. PICK b : /\ b \in Blob
               /\ b = stored[d] \/ stored[d] = Default \/ b.at >= stored[d].at
               /\ stored' = [stored EXCEPT ![d] = b] /\ Reloaded(d, b)
  <2>1. CASE Reload(d)
    BY <2>1, DeviceFacts DEF Reload, Inv, Typed, TypeOK
  <2>2. CASE handleRestoreFile(d)
    <3>1. PICK b : b = IF backup # Default /\ (stored[d] = Default \/ backup.at >= stored[d].at)
                       THEN backup ELSE stored[d]
      OBVIOUS
    <3>2. b \in Blob /\ (b = stored[d] \/ stored[d] = Default \/ b.at >= stored[d].at)
      BY <3>1, DeviceFacts DEF Inv, Typed, TypeOK
    <3>3. stored' = [stored EXCEPT ![d] = b] /\ Reloaded(d, b)
      BY <2>2, <3>1 DEF handleRestoreFile
    <3> QED BY <3>2, <3>3
  <2> QED BY <2>1, <2>2
<1>2. UNCHANGED <<now, served, on, backup, edits>>
  BY DEF Reload, handleRestoreFile
<1>3. \A e \in edits : e.by = d /\ ~e.crossed => b.at >= e.at
  <2>1. b.at \in Nat /\ stored[d].at \in Nat
    BY <1>1, DeviceFacts DEF Blob
  <2>2. \A e \in edits : e.by = d /\ ~e.crossed => stored[d].at >= e.at
    BY DEF Inv, EditsAreKept
  <2> QED BY <1>1, <2>1, <2>2, EditFacts, DefaultFacts
<1>4. rejected' \in [Devices -> BOOLEAN] /\ stops' \in 0..MaxStops
      /\ \A put \in stray' : put \in Put
  BY <1>1, StrayFacts, ConstantFacts DEF Reloaded, Stops, Inv, Typed, TypeOK
<1>5. shown' = [shown EXCEPT ![d] = b] /\ flush' = [flush EXCEPT ![d] = Idle]
  BY <1>1 DEF Reloaded
<1> QED BY <1>1, <1>2, <1>3, <1>4, <1>5, StoredMoves

(* A PUT nobody waits for is handled, or lost. *)
LEMMA StrayInv ==
    ASSUME Inv, NEW put \in stray, HandleStray(put) \/ LoseStray(put)
    PROVE  Inv'
<1>1. put \in Put /\ \A p \in stray' : p \in Put
  BY DEF HandleStray, LoseStray, Inv, Typed, TypeOK
<1>2. CASE HandleStray(put)
  <2>1. now \in Nat /\ put.config \in Edited /\ put.sent \in Nat
    BY <1>1 DEF Put, Inv, Typed, TypeOK
  <2>2. PICK t \in put.sent..now : Take(put.config, t)
    BY <1>2 DEF HandleStray
  <2>3. t \in Nat /\ t <= now
    BY <2>1
  <2> QED BY <1>1, <1>2, <2>1, <2>2, <2>3, ServerMoves DEF HandleStray
<1>3. CASE LoseStray(put)
  BY <1>1, <1>3 DEF LoseStray, Inv, Typed, TypeOK, ShownIsStored, StampsAreClamped,
     FlushKnows, Asking, EditsAreKept
<1> QED BY <1>2, <1>3

(* A flush takes what is shown, which is what is stored. *)
LEMMA StartConfigInv ==
    ASSUME Inv, NEW d \in Devices, StartConfig(d)
    PROVE  Inv'
<1>1. PICK f : f = [Idle EXCEPT !.pc = "get", !.mine = shown[d]]
  OBVIOUS
<1>2. f \in Flush /\ f.pc = "get" /\ f.mine = stored[d] /\ f.got = None
  BY <1>1, DefaultFacts, DeviceFacts DEF Flush, Idle
<1>3. f.got.at <= f.got.config.at
  BY <1>2, DefaultFacts
<1>4. /\ flush' = [flush EXCEPT ![d] = f]
      /\ UNCHANGED <<now, served, stored, shown, on, edits, backup, rejected, stray, stops>>
  BY <1>1 DEF StartConfig, Step
<1>5. rejected \in [Devices -> BOOLEAN] /\ stops \in 0..MaxStops
      /\ \A put \in stray : put \in Put
  BY DEF Inv, Typed, TypeOK
<1>6. \A e \in edits : e.by = d /\ ~e.crossed => f.mine.at >= e.at
  BY <1>2 DEF Inv, EditsAreKept
<1> QED BY <1>2, <1>3, <1>4, <1>5, <1>6, FlushMoves

(* The server answers with what it has. *)
LEMMA HandleGetInv ==
    ASSUME Inv, NEW d \in Devices, HandleGet(d)
    PROVE  Inv'
<1>1. PICK f : f = [flush[d] EXCEPT !.pc = "got", !.got = served]
  OBVIOUS
<1>2. f \in Flush /\ f.pc = "got" /\ f.mine = flush[d].mine /\ f.got = served
  BY <1>1, DeviceFacts, ServerFacts DEF Flush
<1>3. f.got.at <= f.got.config.at
  BY <1>2, ServerFacts
<1>4. /\ flush' = [flush EXCEPT ![d] = f] /\ flush[d].pc = "get"
      /\ UNCHANGED <<now, served, stored, shown, on, edits, backup, rejected, stray, stops>>
  BY <1>1 DEF HandleGet, Step
<1>5. rejected \in [Devices -> BOOLEAN] /\ stops \in 0..MaxStops
      /\ \A put \in stray : put \in Put
  BY DEF Inv, Typed, TypeOK
<1>6. \A e \in edits : e.by = d /\ ~e.crossed => f.mine.at >= e.at
  BY <1>2, <1>4 DEF Inv, FlushKnows, Asking
<1> QED BY <1>2, <1>3, <1>4, <1>5, <1>6, FlushMoves

(* What is sent is newer than what the server is taken to have: it is edited.*)
LEMMA PutIfNewerInv ==
    ASSUME Inv, NEW d \in Devices, NEW got \in Served, got.at <= got.config.at,
           PutIfNewer(d, got)
    PROVE  Inv'
<1>1. PICK f : f = IF ClampAt(d, flush[d].mine.at) > ClampAt(d, got.at)
                   THEN [Idle EXCEPT !.pc = "put", !.mine = flush[d].mine, !.sent = now]
                   ELSE Idle
  OBVIOUS
<1>2. /\ f \in Flush /\ f.pc \in {"put", "idle"} /\ f.got = None
      /\ f.pc = "put" => f.mine = flush[d].mine
                         /\ ClampAt(d, flush[d].mine.at) > ClampAt(d, got.at)
  BY <1>1, DeviceFacts, DefaultFacts DEF Flush, Idle
<1>3. f.pc = "put" => f.mine \in Edited
  <2>1. got.at \in Nat
    BY DEF Served
  <2>2. ClampAt(d, flush[d].mine.at) > ClampAt(d, got.at) => flush[d].mine.at # 0
    BY <2>1, DeviceFacts DEF ClampAt, Smaller
  <2> QED BY <1>2, <2>2, DeviceFacts DEF Blob, Edited
<1>4. f.got.at <= f.got.config.at
  BY <1>2, DefaultFacts
<1>5. /\ flush' = [flush EXCEPT ![d] = f]
      /\ UNCHANGED <<now, served, stored, shown, on, edits, backup, rejected, stray, stops>>
  BY <1>1 DEF PutIfNewer, Step
<1>6. rejected \in [Devices -> BOOLEAN] /\ stops \in 0..MaxStops
      /\ \A put \in stray : put \in Put
  BY DEF Inv, Typed, TypeOK
<1>7. f.pc \notin {"get", "got"}
  BY <1>2
<1> QED BY <1>2, <1>3, <1>4, <1>5, <1>6, <1>7, FlushMoves

(* What a GET brings replaces settings it was compared with: it is as new   *)
(* as every edit the comparison knew.                                      *)
LEMMA GetAnsweredInv ==
    ASSUME Inv, NEW d \in Devices, GetAnswered(d)
    PROVE  Inv'
<1>1. CASE ~RemoteNewer(d)
  <2>1. PutIfNewer(d, flush[d].got) /\ flush[d].got \in Served
        /\ flush[d].got.at <= flush[d].got.config.at
    BY <1>1, DeviceFacts DEF GetAnswered, Inv, StampsAreClamped
  <2> QED BY <2>1, PutIfNewerInv
<1>2. CASE RemoteNewer(d)
  <2>1. PICK b : b = flush[d].got.config
    OBVIOUS
  <2>2. /\ stored' = [stored EXCEPT ![d] = b] /\ shown' = [shown EXCEPT ![d] = b]
        /\ flush' = [flush EXCEPT ![d] = Idle]
        /\ UNCHANGED <<now, served, on, edits, backup, rejected, stray, stops>>
    BY <1>2, <2>1 DEF GetAnswered, applyRemoteConfig, Step
  <2>3. b \in Blob /\ b.at \in Nat /\ flush[d].got.at <= b.at
    BY <2>1, DeviceFacts DEF Inv, StampsAreClamped
  <2>4. ASSUME NEW e \in edits, e.by = d, ~e.crossed
        PROVE  b.at >= e.at
    <3>1. flush[d].mine.at >= e.at
      BY <2>4 DEF GetAnswered, Inv, FlushKnows, Asking
    <3>2. ClampAt(d, flush[d].got.at) > ClampAt(d, flush[d].mine.at)
      BY <1>2 DEF RemoteNewer
    <3>3. e.at \in Nat /\ e.at <= Clock(d)
      BY <2>4, EditFacts, DeviceFacts
    <3> QED BY <2>3, <3>1, <3>2, <3>3, DeviceFacts, ServerFacts DEF ClampAt, Smaller
  <2>5. rejected \in [Devices -> BOOLEAN] /\ stops \in 0..MaxStops
        /\ \A put \in stray : put \in Put
    BY DEF Inv, Typed, TypeOK
  <2> QED BY <2>2, <2>3, <2>4, <2>5, StoredMoves
<1> QED BY <1>1, <1>2

(* A GET that fails counts as one that found nothing. *)
LEMMA GetFailsInv ==
    ASSUME Inv, NEW d \in Devices, GetFails(d)
    PROVE  Inv'
BY PutIfNewerInv, DefaultFacts DEF GetFails

(* The server handles the PUT, and the flush has its answer on the way.    *)
LEMMA HandlePutInv ==
    ASSUME Inv, NEW d \in Devices, HandlePut(d)
    PROVE  Inv'
<1>1. flush[d].mine \in Edited /\ flush[d].pc = "put"
  BY DEF HandlePut, Inv, Typed, TypeOK
<1>2. PICK t \in flush[d].sent..now :
         /\ Take(flush[d].mine, t)
         /\ Step(d, [Idle EXCEPT !.pc = IF Applies(flush[d].mine, t) THEN "taken" ELSE "refused"])
  BY DEF HandlePut
<1>3. t \in Nat /\ t <= now
  BY DeviceFacts DEF Flush
<1>4. PICK f : f = [Idle EXCEPT !.pc = IF Applies(flush[d].mine, t) THEN "taken" ELSE "refused"]
  OBVIOUS
<1>5. f \in Flush /\ f.pc \in {"taken", "refused"} /\ f.got = None
  BY <1>4, DefaultFacts DEF Flush, Idle
<1>6. /\ flush' = [flush EXCEPT ![d] = f]
      /\ UNCHANGED <<now, stored, shown, on, edits, backup, rejected, stray, stops>>
  BY <1>2, <1>4 DEF HandlePut, Step
<1>7. served' \in Served /\ served'.at <= now /\ served'.at <= served'.config.at
  BY <1>1, <1>2, <1>3, TakeFacts
<1>8. flush' \in [Devices -> Flush]
      /\ \A c \in Devices : flush'[c] = IF c = d THEN f ELSE flush[c]
  BY <1>5, <1>6 DEF Inv, Typed, TypeOK
<1>9. Typed'
  BY <1>5, <1>6, <1>7, <1>8 DEF Inv, Typed, TypeOK
<1>10. ShownIsStored' /\ EditsAreKept'
  BY <1>6 DEF Inv, ShownIsStored, EditsAreKept
<1>11. StampsAreClamped'
  BY <1>5, <1>6, <1>7, <1>8, DefaultFacts DEF Inv, StampsAreClamped
<1>12. FlushKnows'
  BY <1>5, <1>6, <1>8, EditFacts DEF Inv, FlushKnows, Asking
<1> QED BY <1>9, <1>10, <1>11, <1>12 DEF Inv

(* A flush ends with its PUT, answered or given up. *)
LEMMA PutEndsInv ==
    ASSUME Inv, NEW d \in Devices, PutAnswered(d) \/ PutFails(d)
    PROVE  Inv'
<1>1. /\ flush' = [flush EXCEPT ![d] = Idle]
      /\ UNCHANGED <<now, served, stored, shown, on, edits, backup, stops>>
  BY DEF PutAnswered, PutFails, Step
<1>2. rejected' \in [Devices -> BOOLEAN]
  <2>1. PICK refused \in BOOLEAN : rejected' = [rejected EXCEPT ![d] = refused]
    BY DEF PutAnswered, PutFails
  <2> QED BY <2>1 DEF Inv, Typed, TypeOK
<1>3. stops' \in 0..MaxStops /\ \A put \in stray' : put \in Put
  BY <1>1, StrayFacts DEF PutAnswered, PutFails, Inv, Typed, TypeOK
<1>4. /\ Idle \in Flush /\ Idle.pc \notin {"put", "get", "got"}
      /\ Idle.got.at <= Idle.got.config.at
  BY DefaultFacts
<1> QED BY <1>1, <1>2, <1>3, <1>4, FlushMoves

(* Every step keeps the invariant. *)
LEMMA NextInv == Inv /\ [Next]_vars => Inv'
<1> SUFFICES ASSUME Inv, [Next]_vars PROVE Inv'
  OBVIOUS
<1>1. CASE UNCHANGED vars
  BY <1>1 DEF vars, Inv, Typed, TypeOK, ShownIsStored, StampsAreClamped, FlushKnows, Asking,
     EditsAreKept
<1>2. CASE Next
  BY <1>2, TickInv, persistConfigInv, SwitchInv, ReloadInv, StrayInv, StartConfigInv,
     HandleGetInv, GetAnsweredInv, GetFailsInv, HandlePutInv, PutEndsInv DEF Next
<1> QED BY <1>1, <1>2

-----------------------------------------------------------------------------
(* The theorems. *)

(* The inductive invariant, in every reachable state (persistConfig, useSync,*)
(* applyRemoteConfig, importAll, PUT /config).                             *)
THEOREM Invariance == Spec => []Inv
BY InitInv, NextInv, PTL DEF Spec

(* Every variable keeps its type. *)
THEOREM TypeCorrect == Spec => []TypeOK
<1>1. Inv => TypeOK
  BY DEF Inv, Typed
<1> QED BY <1>1, Invariance, PTL

(* No edit is lost that was not made while a flush awaited its GET, for any *)
(* number of devices and whatever their clocks say (persistConfig against   *)
(* the settings part of flush).                                            *)
THEOREM NoEditIsLost == Spec => []EditsAreKept
<1>1. Inv => EditsAreKept
  BY DEF Inv
<1> QED BY <1>1, Invariance, PTL

-----------------------------------------------------------------------------
(* When the settings go back. *)

(* A new edit. *)
Fresh(d) == [at |-> Clock(d), val |-> [by |-> d, when |-> now]]

(* What is sent, or given up, was there. *)
LEMMA SentCopies ==
    ASSUME NEW d \in Devices
    PROVE  /\ \A put : Send(put) => stray' \subseteq stray \cup {put}
           /\ GiveUp(d) => stray' \subseteq stray \cup {PutOf(d)}
           /\ GiveUp(d) => {p.config : p \in stray'} \subseteq Copies
<1>1. PutOf(d).config = flush[d].mine
  BY DEF PutOf
<1>2. /\ \A put : Send(put) => stray' \subseteq stray \cup {put}
      /\ GiveUp(d) => stray' \subseteq stray \cup {PutOf(d)}
  BY DEF Send, GiveUp
<1> QED BY <1>1, <1>2 DEF Copies

(* The flush of one device changes. *)
LEMMA FlushCopies ==
    ASSUME Inv, NEW d \in Devices, NEW f \in Flush, NEW new,
           flush' = [flush EXCEPT ![d] = f],
           {f.mine, f.got.config} \subseteq Copies \cup new,
           {served'.config, backup'} \subseteq Copies \cup new,
           \A c \in Devices : stored'[c] \in Copies \cup new,
           {p.config : p \in stray'} \subseteq Copies \cup new
    PROVE  Copies' \subseteq Copies \cup new
<1>1. \A c \in Devices : flush'[c] = IF c = d THEN f ELSE flush[c]
  BY DEF Inv, Typed, TypeOK
<1>2. \A c \in Devices : {flush'[c].mine, flush'[c].got.config} \subseteq Copies \cup new
  BY <1>1 DEF Copies
<1> QED BY <1>2 DEF Copies

(* A step copies settings, or makes an edit. *)
LEMMA CopiesMove ==
    ASSUME Inv, [Next]_vars
    PROVE  Copies' \subseteq Copies \cup {Default} \cup {Fresh(d) : d \in Devices}
<1> DEFINE new == {Default} \cup {Fresh(d) : d \in Devices}
<1>1. CASE UNCHANGED <<served, stored, flush, stray, backup>>
  BY <1>1 DEF Copies
<1>2. ASSUME NEW d \in Devices, persistConfig(d)
      PROVE  Copies' \subseteq Copies \cup new
  <2>1. PICK next : next = Fresh(d)
    OBVIOUS
  <2>2. /\ stored' = [stored EXCEPT ![d] = next]
        /\ UNCHANGED <<served, flush, backup>>
        /\ stray' \subseteq stray \cup {[config |-> next, sent |-> now]}
    BY <1>2, <2>1, SentCopies DEF persistConfig, Fresh
  <2>3. \A c \in Devices : stored'[c] = IF c = d THEN next ELSE stored[c]
    BY <2>2 DEF Inv, Typed, TypeOK
  <2>4. {p.config : p \in stray'} \subseteq {p.config : p \in stray} \cup {next}
    BY <2>2
  <2> QED BY <2>1, <2>2, <2>3, <2>4 DEF Copies
<1>3. ASSUME NEW d \in Devices, downloadBackup(d)
      PROVE  Copies' \subseteq Copies \cup new
  BY <1>3 DEF downloadBackup, Copies
<1>4. ASSUME NEW d \in Devices, Reload(d) \/ handleRestoreFile(d)
      PROVE  Copies' \subseteq Copies \cup new
  <2>1. PICK b \in {stored[d], backup} :
              stored' = [stored EXCEPT ![d] = b] /\ Reloaded(d, b)
    <3>1. CASE Reload(d)
      BY <1>4, <3>1 DEF Reload, Inv, Typed, TypeOK
    <3>2. CASE handleRestoreFile(d)
      BY <3>2 DEF handleRestoreFile
    <3> QED BY <1>4, <3>1, <3>2
  <2>2. \A c \in Devices : stored'[c] = IF c = d THEN b ELSE stored[c]
    BY <2>1 DEF Inv, Typed, TypeOK
  <2>3. /\ UNCHANGED <<served, backup>> /\ flush' = [flush EXCEPT ![d] = Idle]
        /\ {p.config : p \in stray'} \subseteq Copies
    BY <1>4, <2>1, SentCopies DEF Reload, handleRestoreFile, Reloaded
  <2>4. \A c \in Devices : stored'[c] \in Copies \cup new
    BY <2>2 DEF Copies
  <2>5. {served'.config, backup'} \subseteq Copies \cup new
    BY <2>3 DEF Copies
  <2> QED BY <2>3, <2>4, <2>5, FlushCopies, DefaultFacts
<1>5. ASSUME NEW put \in stray, HandleStray(put) \/ LoseStray(put)
      PROVE  Copies' \subseteq Copies \cup new
  <2>1. served'.config \in {served.config, put.config}
    BY <1>5 DEF HandleStray, LoseStray, Take
  <2>2. UNCHANGED <<stored, flush, backup>> /\ stray' \subseteq stray
    BY <1>5 DEF HandleStray, LoseStray
  <2> QED BY <2>1, <2>2 DEF Copies
<1>6. ASSUME NEW d \in Devices,
             \/ StartConfig(d) \/ HandleGet(d) \/ GetAnswered(d) \/ GetFails(d)
             \/ HandlePut(d) \/ PutAnswered(d) \/ PutFails(d)
      PROVE  Copies' \subseteq Copies \cup new
  <2>1. PICK f : /\ flush' = [flush EXCEPT ![d] = f] /\ backup' = backup
                 /\ \/ f = [Idle EXCEPT !.pc = "get", !.mine = shown[d]]
                    \/ f = [flush[d] EXCEPT !.pc = "got", !.got = served]
                    \/ f = [Idle EXCEPT !.pc = "put", !.mine = flush[d].mine, !.sent = now]
                    \/ f = [Idle EXCEPT !.pc = "taken"]
                    \/ f = [Idle EXCEPT !.pc = "refused"]
                    \/ f = Idle
    BY <1>6 DEF StartConfig, HandleGet, GetAnswered, GetFails, HandlePut, PutAnswered,
                PutFails, PutIfNewer, Step
  <2>2. f \in Flush /\ {f.mine, f.got.config} \subseteq Copies \cup new
    <3>1. {stored[d], served.config, flush[d].mine, flush[d].got.config, Default} \subseteq Copies \cup new
      BY DEF Copies
    <3>2. f \in Flush /\ f.mine \in {Default, shown[d], flush[d].mine}
          /\ f.got \in {None, served, flush[d].got}
      BY <2>1, DefaultFacts, DeviceFacts, ServerFacts DEF Flush, Idle
    <3> QED BY <3>1, <3>2, DefaultFacts, DeviceFacts
  <2>3. served'.config \in {served.config, flush[d].mine}
    <3>1. served' = served \/ \E t : Take(flush[d].mine, t)
      BY <1>6 DEF StartConfig, HandleGet, GetAnswered, GetFails, HandlePut, PutAnswered,
                PutFails, PutIfNewer
    <3>2. ASSUME NEW t, Take(flush[d].mine, t)
          PROVE  served'.config \in {served.config, flush[d].mine}
      BY <3>2 DEF Take
    <3> QED BY <3>1, <3>2
  <2>4. {p.config : p \in stray'} \subseteq Copies
    <3>1. stray' = stray \/ GiveUp(d)
      BY <1>6 DEF StartConfig, HandleGet, GetAnswered, GetFails, HandlePut, PutAnswered,
                PutFails, PutIfNewer
    <3> QED BY <3>1, SentCopies DEF Copies
  <2>5. \A c \in Devices : stored'[c] \in {stored[c], flush[d].got.config}
    BY <1>6 DEF StartConfig, HandleGet, GetAnswered, GetFails, HandlePut, PutAnswered,
                PutFails, PutIfNewer, applyRemoteConfig, Inv, Typed, TypeOK
  <2>6. \A c \in Devices : stored'[c] \in Copies
    BY <2>5 DEF Copies
  <2>7. {served'.config, backup'} \subseteq Copies \cup new
    BY <2>1, <2>3 DEF Copies
  <2> QED BY <2>1, <2>2, <2>4, <2>6, <2>7, FlushCopies
<1>7. \/ UNCHANGED <<served, stored, flush, stray, backup>>
      \/ \E d \in Devices :
            \/ persistConfig(d) \/ downloadBackup(d) \/ Reload(d) \/ handleRestoreFile(d)
            \/ StartConfig(d) \/ HandleGet(d) \/ GetAnswered(d) \/ GetFails(d)
            \/ HandlePut(d) \/ PutAnswered(d) \/ PutFails(d)
      \/ \E put \in stray : HandleStray(put) \/ LoseStray(put)
  BY DEF Next, vars, Tick, EnableSync, DisableSync
<1> QED BY <1>1, <1>2, <1>3, <1>4, <1>5, <1>6, <1>7

(* What is sent is a copy, or an edit, and sent now. *)
LEMMA PutsMove ==
    ASSUME Inv, [Next]_vars, NEW put \in PutsUnderWay'
    PROVE  \/ put \in PutsUnderWay
           \/ put.sent = now /\ (put.config \in Copies \/ \E d \in Devices : put.config = Fresh(d))
<1> DEFINE Sent(p) == p.sent = now /\ (p.config \in Copies \/ \E d \in Devices : p.config = Fresh(d))
<1>1. \A d \in Devices : flush[d].pc = "put" => PutOf(d) \in PutsUnderWay
  BY DEF PutsUnderWay
<1>2. CASE put \in stray'
  <2>1. \/ stray' \subseteq stray
        \/ \E d \in Devices : GiveUp(d)
        \/ \E d \in Devices : persistConfig(d)
    BY DEF Next, vars, Tick, persistConfig, EnableSync, DisableSync, Reload, downloadBackup,
         handleRestoreFile, Reloaded, HandleStray, LoseStray, StartConfig, HandleGet,
         GetAnswered, GetFails, HandlePut, PutAnswered, PutFails, PutIfNewer, Step
  <2>2. ASSUME NEW d \in Devices, GiveUp(d)
        PROVE  put \in PutsUnderWay
    <3>1. stray' \subseteq stray \/ (flush[d].pc = "put" /\ stray' \subseteq stray \cup {PutOf(d)})
      BY <2>2, SentCopies DEF GiveUp
    <3> QED BY <1>1, <1>2, <3>1 DEF PutsUnderWay
  <2>3. ASSUME NEW d \in Devices, persistConfig(d)
        PROVE  put \in PutsUnderWay \/ Sent(put)
    <3>1. PICK p : p = [config |-> Fresh(d), sent |-> now]
      OBVIOUS
    <3>2. stray' \subseteq stray \cup {p}
      BY <2>3, <3>1, SentCopies DEF persistConfig, Fresh
    <3>3. p.sent = now /\ p.config = Fresh(d)
      BY <3>1
    <3> QED BY <1>2, <3>2, <3>3 DEF PutsUnderWay
  <2> QED BY <1>2, <2>1, <2>2, <2>3 DEF PutsUnderWay
<1>3. ASSUME NEW d \in Devices, flush'[d].pc = "put", put = PutOf(d)'
      PROVE  put \in PutsUnderWay \/ Sent(put)
  <2>1. put = [config |-> flush'[d].mine, sent |-> flush'[d].sent]
    BY <1>3 DEF PutOf
  <2>2. CASE flush'[d] = flush[d]
    BY <1>1, <1>3, <2>1, <2>2 DEF PutOf
  <2>3. CASE flush'[d] # flush[d]
    <3>1. PICK c \in Devices : \E f :
            /\ flush' = [flush EXCEPT ![c] = f]
            /\ \/ f.pc # "put"
               \/ f = [Idle EXCEPT !.pc = "put", !.mine = flush[c].mine, !.sent = now]
      <4>1. Idle.pc # "put"
        BY DefaultFacts
      <4>2. \A c \in Devices : \A x : [Idle EXCEPT !.pc = "get", !.mine = x].pc # "put"
        BY DEF Idle
      <4>3. \A c \in Devices : \A x : [flush[c] EXCEPT !.pc = "got", !.got = x].pc # "put"
        BY DeviceFacts DEF Flush
      <4>4. [Idle EXCEPT !.pc = "taken"].pc # "put" /\ [Idle EXCEPT !.pc = "refused"].pc # "put"
        BY DEF Idle
      <4>5. \/ flush' = flush
            \/ \E c \in Devices :
                 \/ flush' = [flush EXCEPT ![c] = Idle]
                 \/ flush' = [flush EXCEPT ![c] = [Idle EXCEPT !.pc = "get", !.mine = shown[c]]]
                 \/ flush' = [flush EXCEPT ![c] = [flush[c] EXCEPT !.pc = "got", !.got = served]]
                 \/ flush' = [flush EXCEPT ![c] =
                                [Idle EXCEPT !.pc = "put", !.mine = flush[c].mine, !.sent = now]]
                 \/ flush' = [flush EXCEPT ![c] = [Idle EXCEPT !.pc = "taken"]]
                 \/ flush' = [flush EXCEPT ![c] = [Idle EXCEPT !.pc = "refused"]]
        BY DEF Next, vars, Tick, persistConfig, EnableSync, DisableSync, Reload, downloadBackup,
           handleRestoreFile, Reloaded, HandleStray, LoseStray, StartConfig, HandleGet,
           GetAnswered, GetFails, HandlePut, PutAnswered, PutFails, PutIfNewer, Step
      <4> QED BY <2>3, <4>1, <4>2, <4>3, <4>4, <4>5
    <3>2. PICK f :
            /\ flush' = [flush EXCEPT ![c] = f]
            /\ \/ f.pc # "put"
               \/ f = [Idle EXCEPT !.pc = "put", !.mine = flush[c].mine, !.sent = now]
      BY <3>1
    <3>3. \A e \in Devices : flush'[e] = IF e = c THEN f ELSE flush[e]
      BY <3>2 DEF Inv, Typed, TypeOK
    <3>4. c = d /\ flush'[d] = f
      BY <2>3, <3>3
    <3>5. f.mine = flush[d].mine /\ f.sent = now
      BY <1>3, <3>2, <3>4 DEF Idle
    <3>6. put.sent = now /\ put.config = flush[d].mine
      BY <2>1, <3>4, <3>5
    <3> QED BY <3>6 DEF Copies
  <2> QED BY <2>2, <2>3
<1>4. put \in stray' \/ \E d \in Devices : flush'[d].pc = "put" /\ put = PutOf(d)'
  BY DEF PutsUnderWay, PutOf
<1> QED BY <1>2, <1>3, <1>4 DEF PutsUnderWay

(* The server changes its settings by taking a PUT, at a clock it read since *)
(* the PUT was sent.                                                       *)
LEMMA ServedMoves ==
    ASSUME Inv, [Next]_vars
    PROVE  \/ served' = served
           \/ /\ now' = now
              /\ \E put \in PutsUnderWay \cap Put : \E t \in put.sent..now : Take(put.config, t)
<1>1. ASSUME NEW put \in stray, HandleStray(put) \/ LoseStray(put)
      PROVE  \/ served' = served
             \/ /\ now' = now
                /\ \E p \in PutsUnderWay \cap Put : \E t \in p.sent..now : Take(p.config, t)
  <2>1. put \in PutsUnderWay \cap Put
    BY DEF PutsUnderWay, Inv, Typed, TypeOK
  <2> QED BY <1>1, <2>1 DEF HandleStray, LoseStray
<1>2. ASSUME NEW d \in Devices, HandlePut(d)
      PROVE  /\ now' = now
             /\ \E p \in PutsUnderWay \cap Put : \E t \in p.sent..now : Take(p.config, t)
  <2>1. PICK p : p = PutOf(d)
    OBVIOUS
  <2>2. p \in PutsUnderWay \cap Put
    BY <1>2, <2>1, StrayFacts DEF HandlePut, PutsUnderWay
  <2>3. p.config = flush[d].mine /\ p.sent = flush[d].sent
    BY <2>1 DEF PutOf
  <2> QED BY <1>2, <2>2, <2>3 DEF HandlePut, Step
<1>3. \/ served' = served
      \/ \E put \in stray : HandleStray(put) \/ LoseStray(put)
      \/ \E d \in Devices : HandlePut(d)
  BY DEF Next, vars, Tick, persistConfig, EnableSync, DisableSync, Reload, downloadBackup,
         handleRestoreFile, StartConfig, HandleGet, GetAnswered, GetFails, PutAnswered,
         PutFails, PutIfNewer
<1> QED BY <1>1, <1>2, <1>3

(* The time of the built-in settings and of a new edit. *)
LEMMA DatedFacts ==
    ASSUME Inv
    PROVE  /\ Honest(Default)
           /\ \A d \in Devices : Honest(Fresh(d)) /\ Fresh(d).val.when = now
<1>1. Factory \notin Devices /\ now \in Nat /\ now >= 1
  BY ConstantFacts DEF Inv, Typed, TypeOK
<1>2. Default.at = 0 /\ Default.val.when = 0 /\ SkewOf(Default.val.by) = 0
  BY <1>1 DEF Default, SkewOf
<1>3. ASSUME NEW d \in Devices
      PROVE  Honest(Fresh(d)) /\ Fresh(d).val.when = now
  <2>1. Fresh(d).at = now + Skew[d] /\ Fresh(d).val.when = now /\ Fresh(d).val.by = d
    BY DEF Fresh, Clock
  <2> QED BY <1>1, <2>1 DEF Honest, SkewOf
<1> QED BY <1>1, <1>2, <1>3 DEF Honest

(* What the server does with a PUT, by the time of the edits. *)
LEMMA TakeMoves ==
    ASSUME Inv, Dated, NEW put \in PutsUnderWay, put \in Put,
           NEW t \in put.sent..now, Take(put.config, t)
    PROVE  /\ served'.config.val.when <= served'.at
           /\ \/ served' = served
              \/ /\ served'.config = put.config
                 /\ put.config.val.when + SkewOf(put.config.val.by) >= served.config.val.when
              \/ /\ served'.config = put.config
                 /\ put.sent <= served'.at /\ served'.at <= put.config.at
                 /\ served'.at < served.at
<1>1. PICK c : c = put.config
  OBVIOUS
<1>2. PICK w : w = c.val.when
  OBVIOUS
<1>3. c.at \in Nat /\ w \in Nat /\ put.sent \in Nat
  BY <1>1, <1>2 DEF Put, Edited, Author
<1>4. c \in Copies
  BY <1>1 DEF Copies, PutsUnderWay, PutOf
<1>5. SkewOf(c.val.by) \in Nat
  BY ConstantFacts DEF SkewOf
<1>6. c.at = w + SkewOf(c.val.by) /\ w <= put.sent
  BY <1>1, <1>2, <1>4 DEF Dated, Honest
<1>7. now \in Nat /\ t \in Nat /\ put.sent <= t
  BY <1>3, ServerFacts DEF Inv, Typed, TypeOK
<1>8. served.at \in Nat /\ served.config.val.when \in Nat /\ served.config.val.when <= served.at
  BY ServerFacts DEF Dated, Blob, Author
<1>9. CASE Applies(c, t)
  <2>1. served'.at = Smaller(c.at, t) /\ served'.config = c
    BY <1>1, <1>9 DEF Take
  <2>2. w <= Smaller(c.at, t)
    BY <1>3, <1>5, <1>6, <1>7 DEF Smaller
  <2>3. CASE served.at <= t
    <3>1. c.at >= served.at
      BY <1>3, <1>7, <1>8, <1>9, <2>3 DEF Applies, Smaller
    <3>2. c.at >= served.config.val.when
      BY <1>3, <1>8, <3>1
    <3> QED BY <1>1, <1>2, <1>6, <2>1, <2>2, <3>2
  <2>4. CASE ~(served.at <= t)
    <3>1. c.at >= t /\ Smaller(c.at, t) = t
      BY <1>3, <1>7, <1>8, <1>9, <2>4 DEF Applies, Smaller
    <3>2. put.sent <= Smaller(c.at, t) /\ Smaller(c.at, t) <= c.at /\ Smaller(c.at, t) < served.at
      BY <1>3, <1>7, <1>8, <2>4, <3>1
    <3> QED BY <1>1, <1>2, <2>1, <2>2, <3>2
  <2> QED BY <2>3, <2>4
<1>10. CASE ~Applies(c, t)
  BY <1>1, <1>8, <1>10 DEF Take
<1> QED BY <1>9, <1>10

(* A step of the model, in the terms of the property. *)
Reverts ==
    LET edit == served'.config.val
    IN  \/ edit.when + SkewOf(edit.by) >= served.config.val.when
        \/ \E put \in PutsUnderWay :
              /\ put.config = served'.config
              /\ put.sent <= served'.at /\ served'.at <= put.config.at
              /\ served'.at < served.at

(* Every step keeps the times, and reverts only so. *)
LEMMA DatedMove ==
    ASSUME Inv, Dated, [Next]_vars
    PROVE  Dated' /\ Reverts
<1>1. now \in Nat /\ now' \in Nat /\ now <= now'
  <2>1. now' = now \/ now' = now + 1
    BY DEF Next, vars, Tick, persistConfig, EnableSync, DisableSync, Reload, downloadBackup,
         handleRestoreFile, StartConfig, HandleGet, GetAnswered, GetFails, PutAnswered,
         PutFails, PutIfNewer, HandlePut, HandleStray, LoseStray, Step
  <2> QED BY <2>1, ServerFacts, DefaultFacts DEF Inv, Typed, TypeOK
<1>2. \A b \in Copies : b.val.when \in Nat
  <2>1. \A b \in Copies : b \in Blob
    BY DeviceFacts, ServerFacts DEF Copies, Inv, Typed, TypeOK, Put, Edited, Blob
  <2> QED BY <2>1 DEF Blob, Author
<1>3. \A b \in Copies' : Honest(b)'
  <2>1. ASSUME NEW b \in Copies'
        PROVE  b.at = b.val.when + SkewOf(b.val.by) /\ b.val.when <= now'
    <3>1. b \in Copies \/ b = Default \/ \E d \in Devices : b = Fresh(d)
      BY CopiesMove
    <3>2. Honest(b)
      BY <3>1, DatedFacts DEF Dated
    <3>3. b.val.when \in Nat
      BY <1>1, <1>2, <3>1, DatedFacts DEF Default
    <3> QED BY <1>1, <3>2, <3>3 DEF Honest
  <2> QED BY <2>1 DEF Honest, SkewOf
<1>4. \A put \in PutsUnderWay' : put.config.val.when <= put.sent
  BY PutsMove, DatedFacts, <1>1 DEF Dated, Honest
<1>5. served'.config.val.when <= served'.at /\ Reverts
  <2>1. CASE served' = served
    <3>1. served.config \in Copies
      BY DEF Copies
    <3>2. PICK w : w = served.config.val.when
      OBVIOUS
    <3>3. PICK k : k = SkewOf(served.config.val.by)
      OBVIOUS
    <3>4. w \in Nat /\ k \in Nat
      BY <1>2, <3>1, <3>2, <3>3, ConstantFacts DEF SkewOf
    <3>5. w + k >= w
      BY <3>4
    <3> QED BY <2>1, <3>2, <3>3, <3>5 DEF Dated, Reverts
  <2>2. ASSUME NEW put \in PutsUnderWay \cap Put, NEW t \in put.sent..now, Take(put.config, t)
        PROVE  served'.config.val.when <= served'.at /\ Reverts
    <3>1. CASE served' = served
      BY <2>1, <3>1
    <3>2. CASE served' # served
      BY <2>2, <3>2, TakeMoves DEF Reverts
    <3> QED BY <3>1, <3>2
  <2> QED BY <2>1, <2>2, ServedMoves
<1> QED BY <1>3, <1>4, <1>5 DEF Dated

(* The factory's settings go back to an older edit only by as much as its   *)
(* author's clock was ahead, or by a PUT whose body was slow or that came   *)
(* late, for any devices and any skews (PUT /config and its clock, the      *)
(* comparison in flush, importAll).                                         *)
THEOREM RevertsOnlyBySkewOrSlowPut == Spec => RevertsBySkewOrSlowPut
<1> DEFINE Timed == Inv /\ Dated
<1>1. Init => Timed
  <2> SUFFICES ASSUME Init PROVE Timed
    OBVIOUS
  <2>1. Inv
    BY InitInv
  <2>2. \A b \in Copies : b = Default
    BY DefaultFacts DEF Init, Copies
  <2>3. PutsUnderWay = {}
    BY DefaultFacts DEF Init, PutsUnderWay
  <2>4. served.config.val.when <= served.at
    BY DefaultFacts DEF Init, Default
  <2> QED BY <2>1, <2>2, <2>3, <2>4, DatedFacts DEF Dated
<1>2. Timed /\ [Next]_vars => Timed'
  BY NextInv, DatedMove
<1>3. Timed /\ [Next]_vars => [Reverts]_vars
  BY DatedMove
<1> HIDE DEF Timed
<1>4. Spec => []Timed
  BY <1>1, <1>2, PTL DEF Spec
<1>5. Spec => [][Reverts]_vars
  BY <1>3, <1>4, PTL DEF Spec
<1> QED BY <1>5 DEF RevertsBySkewOrSlowPut, Reverts
=============================================================================
