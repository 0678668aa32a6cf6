------------------------------ MODULE Settings ------------------------------
(***************************************************************************)
(* The factory's shared settings (machines, reasons, shifts, rates, the    *)
(* supervisor's PIN): StopTrack.tsx on each device, GET and PUT /config on *)
(* the server.  All of them are one blob under one stamp, and the last     *)
(* write of any of them wins.                                              *)
(*                                                                         *)
(* A step is what a device does without awaiting the network; the settings *)
(* part of a flush (useSync) awaits a GET and perhaps a PUT.  The server   *)
(* reads its clock when a PUT arrives (server.js:305) and compares when the *)
(* body is in, an await later (:422): a PUT is handled at any clock the     *)
(* server read since it was sent.  The content of a blob is who last edited *)
(* it and when in real time, which no device knows if its clock is off.    *)
(* React has rendered an edit before the user or the flush looks at it     *)
(* again.                                                                  *)
(***************************************************************************)
EXTENDS Integers, FiniteSets

CONSTANTS
    Devices,
    Factory,     \* the author of the built-in settings
    Patient,     \* the devices that stay, and whose requests are answered
                 \* now and then; any other may go away for good
    Skew,        \* Skew[d]: how far the device's clock is ahead
    MaxTime,     \* bound of real time, which is the server's clock
    MaxEdits,    \* bound of the edits
    MaxStray,    \* bound of the PUTs nobody waits for
    MaxStops     \* bound of reloads, restores and times sync is turned off

ASSUME SettingsAssumption ==
    /\ Factory \notin Devices /\ Patient \subseteq Devices
    /\ Skew \in [Devices -> Nat]
    /\ MaxTime \in Nat \ {0}
    /\ {MaxEdits, MaxStray, MaxStops} \subseteq Nat

VARIABLES
    now,      \* real time
    served,   \* the server's config: its stamp and the blob
    stored,   \* stored[d]: config:lists in localStorage
    shown,    \* shown[d]: the React state, with configUpdatedAt
    on,       \* on[d]: sync is configured and enabled
    flush,    \* flush[d]: where the settings part of the flush is
    rejected, \* rejected[d]: configRejectedRef
    stray,    \* PUTs that nobody waits for (any longer), under way, with when
              \* they were sent
    backup,   \* the settings in the backup file, of whichever device
    edits,    \* the edits so far: by whom, under which stamp, and whether the
              \* device was waiting for the answer to a GET (history)
    stops

vars == <<now, served, stored, shown, on, flush, rejected, stray, backup, edits, stops>>

Author == [by : Devices \cup {Factory}, when : Nat]
Blob == [at : Nat, val : Author]
Edited == [at : Nat \ {0}, val : Author]

(* The defaults of a device that has no settings stored: stamp 0. *)
Default == [at |-> 0, val |-> [by |-> Factory, when |-> 0]]
None == [at |-> 0, config |-> Default]
Idle == [pc |-> "idle", mine |-> Default, got |-> None, sent |-> 0]

Served == [at : Nat, config : Blob]
Flush == [pc : {"idle", "get", "got", "put", "taken", "refused"}, mine : Blob,
          got : Served, sent : Nat]
Put == [config : Edited, sent : Nat]

(* The built-in settings of a new device are never sent to the server. *)
TypeOK ==
    /\ now \in 1..MaxTime
    /\ served \in Served
    /\ stored \in [Devices -> Blob] /\ shown \in [Devices -> Blob]
    /\ on \in [Devices -> BOOLEAN] /\ rejected \in [Devices -> BOOLEAN]
    /\ flush \in [Devices -> Flush]
    /\ \A d \in Devices : flush[d].pc = "put" => flush[d].mine \in Edited
    /\ \A put \in stray : put \in Put
    /\ backup \in Blob
    /\ Cardinality(edits) <= MaxEdits /\ stops \in 0..MaxStops

Init ==
    /\ now = 1
    /\ served = None
    /\ stored = [d \in Devices |-> Default] /\ shown = stored
    /\ on = [d \in Devices |-> TRUE]
    /\ flush = [d \in Devices |-> Idle]
    /\ rejected = [d \in Devices |-> FALSE]
    /\ stray = {} /\ backup = Default /\ edits = {} /\ stops = 0

Clock(d) == now + Skew[d]
Smaller(a, b) == IF a <= b THEN a ELSE b

Send(put) == stray' = stray \cup {put} /\ Cardinality(stray') <= MaxStray

PutOf(d) == [config |-> flush[d].mine, sent |-> flush[d].sent]

(* A request the device gives up on may be handled all the same. *)
GiveUp(d) ==
    IF flush[d].pc = "put" THEN UNCHANGED stray \/ Send(PutOf(d))
    ELSE UNCHANGED stray

Tick ==
    /\ now < MaxTime
    /\ now' = now + 1
    /\ UNCHANGED <<served, stored, shown, on, flush, rejected, stray, backup, edits,
                   stops>>

-----------------------------------------------------------------------------
(* The supervisor of a device. *)

(* updateMachines, updateShifts, updatePin...: the whole blob under a new   *)
(* stamp, stored and sent; nothing awaits the answer.                      *)
persistConfig(d) ==
    /\ Cardinality(edits) < MaxEdits
    /\ LET next == [at |-> Clock(d), val |-> [by |-> d, when |-> now]]
       IN  /\ shown' = [shown EXCEPT ![d] = next]
           /\ stored' = [stored EXCEPT ![d] = next]
           /\ IF on[d] THEN Send([config |-> next, sent |-> now]) ELSE UNCHANGED stray
           /\ edits' = edits \cup {[by |-> d, at |-> next.at,
                                    crossed |-> flush[d].pc \in {"get", "got"}]}
    /\ edits' # edits
    /\ UNCHANGED <<now, served, on, flush, rejected, backup, stops>>

EnableSync(d) ==
    /\ ~on[d]
    /\ on' = [on EXCEPT ![d] = TRUE]
    /\ UNCHANGED <<now, served, stored, shown, flush, rejected, stray, backup, edits, stops>>

Stops == stops < MaxStops /\ stops' = stops + 1

DisableSync(d) ==
    /\ Stops /\ on[d]
    /\ on' = [on EXCEPT ![d] = FALSE]
    /\ UNCHANGED <<now, served, stored, shown, flush, rejected, stray, backup, edits>>

(* The page loads again, with the settings config. *)
Reloaded(d, config) ==
    /\ Stops
    /\ shown' = [shown EXCEPT ![d] = config]
    /\ flush' = [flush EXCEPT ![d] = Idle]
    /\ rejected' = [rejected EXCEPT ![d] = FALSE]
    /\ GiveUp(d)

Reload(d) ==
    /\ Reloaded(d, stored[d])
    /\ UNCHANGED <<now, served, stored, on, backup, edits>>

(* exportAll *)
downloadBackup(d) ==
    /\ backup # stored[d]
    /\ backup' = stored[d]
    /\ UNCHANGED <<now, served, stored, shown, on, flush, rejected, stray, edits, stops>>

(* importAll: no settings in the file, none on the device, or those of the *)
(* file are as new.  Then the page is reloaded.                            *)
handleRestoreFile(d) ==
    /\ LET config == IF backup # Default /\ (stored[d] = Default \/ backup.at >= stored[d].at)
                     THEN backup ELSE stored[d]
       IN  /\ stored' = [stored EXCEPT ![d] = config]
           /\ Reloaded(d, config)
    /\ UNCHANGED <<now, served, on, backup, edits>>

-----------------------------------------------------------------------------
(* The server. *)

AppliesAlways(config, t) == TRUE
Applies(config, t) == Smaller(config.at, t) >= Smaller(served.at, t)

(* A PUT that arrived when the server's clock read t: the stamp is clamped  *)
(* to t; the blob keeps the one it came with.                              *)
Take(config, t) ==
    served' = IF Applies(config, t) THEN [at |-> Smaller(config.at, t), config |-> config]
              ELSE served

HandleStray(put) ==
    /\ \E t \in put.sent..now : Take(put.config, t)
    /\ stray' = stray \ {put}
    /\ UNCHANGED <<now, stored, shown, on, flush, rejected, backup, edits, stops>>

LoseStray(put) ==
    /\ stray' = stray \ {put}
    /\ UNCHANGED <<now, served, stored, shown, on, flush, rejected, backup, edits, stops>>

-----------------------------------------------------------------------------
(* The settings part of a flush. *)

Step(d, f) ==
    /\ flush' = [flush EXCEPT ![d] = f]
    /\ UNCHANGED <<now, on, backup, edits, stops>>

(* The records were pushed; what is shown now is what will be compared.    *)
StartConfig(d) ==
    /\ on[d] /\ flush[d].pc = "idle"
    /\ Step(d, [Idle EXCEPT !.pc = "get", !.mine = shown[d]])
    /\ UNCHANGED <<served, stored, shown, rejected, stray>>

HandleGet(d) ==
    /\ flush[d].pc = "get"
    /\ Step(d, [flush[d] EXCEPT !.pc = "got", !.got = served])
    /\ UNCHANGED <<served, stored, shown, rejected, stray>>

(* min(stamp, Date.now()) *)
ClampAt(d, stamp) == Smaller(stamp, Clock(d))

(* applyRemoteConfig: the blob, with the stamp in it. *)
applyRemoteConfig(d, config) ==
    /\ shown' = [shown EXCEPT ![d] = config]
    /\ stored' = [stored EXCEPT ![d] = config]

PutIfAsNew(d, got) ==
    /\ Step(d, IF ClampAt(d, flush[d].mine.at) >= ClampAt(d, got.at)
               THEN [Idle EXCEPT !.pc = "put", !.mine = flush[d].mine, !.sent = now]
               ELSE Idle)
    /\ UNCHANGED <<served, stored, shown, rejected, stray>>

PutIfNewer(d, got) ==
    /\ Step(d, IF ClampAt(d, flush[d].mine.at) > ClampAt(d, got.at)
               THEN [Idle EXCEPT !.pc = "put", !.mine = flush[d].mine, !.sent = now]
               ELSE Idle)
    /\ UNCHANGED <<served, stored, shown, rejected, stray>>

AnyRemote(d) == flush[d].got.config # Default
NewerThanOwn(d) ==
    /\ flush[d].got.config # Default /\ flush[d].mine # Default
    /\ ClampAt(d, flush[d].got.at) > ClampAt(d, flush[d].mine.at)
RemoteNewer(d) ==
    /\ flush[d].got.config # Default
    /\ ClampAt(d, flush[d].got.at) > ClampAt(d, flush[d].mine.at)

GetAnswered(d) ==
    /\ flush[d].pc = "got"
    /\ IF RemoteNewer(d)
       THEN /\ applyRemoteConfig(d, flush[d].got.config)
            /\ Step(d, Idle)
            /\ UNCHANGED <<served, rejected, stray>>
       ELSE PutIfNewer(d, flush[d].got)

(* A server that does not answer counts as one that has no settings.       *)
GetFails(d) ==
    /\ flush[d].pc \in {"get", "got"}
    /\ PutIfNewer(d, None)

HandlePut(d) ==
    /\ flush[d].pc = "put"
    /\ \E t \in flush[d].sent..now :
          /\ Take(flush[d].mine, t)
          /\ Step(d, [Idle EXCEPT !.pc = IF Applies(flush[d].mine, t) THEN "taken" ELSE "refused"])
    /\ UNCHANGED <<stored, shown, rejected, stray>>

PutAnswered(d) ==
    /\ flush[d].pc \in {"taken", "refused"}
    /\ rejected' = [rejected EXCEPT ![d] = flush[d].pc = "refused"]
    /\ Step(d, Idle)
    /\ UNCHANGED <<served, stored, shown, stray>>

PutFails(d) ==
    /\ flush[d].pc \in {"put", "taken", "refused"}
    /\ rejected' = [rejected EXCEPT ![d] = FALSE]
    /\ Step(d, Idle)
    /\ GiveUp(d)
    /\ UNCHANGED <<served, stored, shown>>

Next ==
    \/ Tick
    \/ \E d \in Devices :
          \/ persistConfig(d) \/ EnableSync(d) \/ DisableSync(d)
          \/ Reload(d) \/ downloadBackup(d) \/ handleRestoreFile(d)
          \/ StartConfig(d) \/ HandleGet(d) \/ GetAnswered(d) \/ GetFails(d)
          \/ HandlePut(d) \/ PutAnswered(d) \/ PutFails(d)
    \/ \E put \in stray : HandleStray(put) \/ LoseStray(put)

(* A flush runs every 25 s while the page is open. *)
Fairness ==
    \A d \in Patient :
        /\ WF_vars(StartConfig(d))
        /\ SF_vars(HandleGet(d)) /\ SF_vars(GetAnswered(d))
        /\ SF_vars(HandlePut(d)) /\ SF_vars(PutAnswered(d))

Spec == Init /\ [][Next]_vars /\ Fairness

-----------------------------------------------------------------------------
(* Properties. *)

PutsUnderWay == stray \cup {PutOf(d) : d \in {e \in Devices : flush[e].pc = "put"}}
SkewOf(author) == IF author \in Devices THEN Skew[author] ELSE 0

(* The factory's settings go back to an older edit in two ways only,       *)
(* whichever device was off line or restored a backup: by no more than its *)
(* author's clock was ahead, or by a PUT that was slow or late, to a moment *)
(* since it was sent, when it is stamped no earlier than that moment.      *)
(* Settings stamped before they are sent undo nothing.                     *)
RevertsBySkewOrSlowPut ==
    [][LET edit == served'.config.val
       IN  \/ edit.when + SkewOf(edit.by) >= served.config.val.when
           \/ \E put \in PutsUnderWay :
                 /\ put.config = served'.config
                 /\ put.sent <= served'.at /\ served'.at <= put.config.at
                 /\ served'.at < served.at]_vars

(* No edit is lost: whatever becomes of the server's settings, the device   *)
(* it was made on keeps settings at least as new and pushes them again.    *)
(* The one exception is an edit made while the flush waits for its GET: the *)
(* flush compares what was shown before, and its answer may replace the    *)
(* edit.                                                                   *)
EditsAreKept == \A e \in edits : e.crossed \/ stored[e.by].at >= e.at

(* Once nobody edits any more, a device that syncs and the server settle on *)
(* one stamp, as the device's clock compares them, whatever was lost,      *)
(* refused, given up on or restored, and whatever became of the other      *)
(* devices, one that is ahead among them.                                  *)
OneSettings ==
    <>[](\A d \in Patient : on[d] => ClampAt(d, shown[d].at) = served.at)
=============================================================================
