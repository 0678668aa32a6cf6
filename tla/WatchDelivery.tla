--------------------------- MODULE WatchDelivery ---------------------------
(***************************************************************************)
(* A stop's way off the watch: timed and documented in the app             *)
(* (OperatorViewModel.kt), put in the durable outbox (WatchStore.kt), sent *)
(* to the server and to the paired phone (PhoneConnector.kt), stored and   *)
(* acked there (WearListenerService.kt), removed from the outbox.          *)
(*                                                                         *)
(* Three kinds of threads rewrite the outbox, each by a read and a later   *)
(* write of the whole list: the coroutine that saves a stop, the server    *)
(* sync, and the service that receives acks.                               *)
(*                                                                         *)
(* A definition placed just before another with the same parameters and    *)
(* used nowhere is a slip that a property must catch (PROJECT.json).       *)
(***************************************************************************)
EXTENDS Naturals

CONSTANTS
    Stops,         \* stop records, each with an id of its own
    NoStop,
    MaxKills       \* bound of the kills of the app and of the phone's

ASSUME WatchAssumption ==
    /\ NoStop \notin Stops
    /\ MaxKills \in Nat

VARIABLES
    outbox,      \* DataStore: stops not known to be delivered
    saver,       \* saver[s]: saveStop's coroutine for stop s
    sync,        \* the server sync, one at a time (serverSyncLock)
    acker,       \* the service thread handling an ack
    toPhone,     \* stops sent to the phone: a message may stay under way, come
                 \* again, or never arrive, so none is taken out
    toWatch,     \* stops the phone acked
    server,      \* stops the server has stored
    phone,       \* stops in the phone's memory
    phoneFile,   \* stops in the phone's file
    kills,
    raced,       \* stops dropped by a write whose read was out of date (history)
    unfiled      \* stops the phone held and its file did not (history)

watchVars == <<outbox, saver, sync, acker>>
linkVars == <<toPhone, toWatch>>
remoteVars == <<server, phone, phoneFile>>
watchHistory == <<kills, raced, unfiled>>
allWatchVars == <<watchVars, linkVars, remoteVars, watchHistory>>

Saver(pc) == [pc |-> pc, seen |-> {}]
NoSync == [pc |-> "off", queued |-> {}, id |-> NoStop, seen |-> {}]
NoAck == [pc |-> "off", id |-> NoStop, seen |-> {}]

(* The variables have their types, and a sync is on exactly while it has   *)
(* stops to push or remove: serverSync's loop ends with what was pushed.   *)
WatchTypeOK ==
    /\ outbox \subseteq Stops
    /\ saver \in [Stops -> [pc : {"new", "read", "write", "send", "sent", "killed"},
                            seen : SUBSET Stops]]
    /\ sync \in [pc : {"off", "push", "read", "write"}, queued : SUBSET Stops,
                 id : Stops \cup {NoStop}, seen : SUBSET Stops]
    /\ sync.pc # "off" <=> sync.queued # {}
    /\ acker \in [pc : {"off", "write"}, id : Stops \cup {NoStop},
                  seen : SUBSET Stops]
    /\ toPhone \subseteq Stops
    /\ toWatch \subseteq Stops
    /\ server \subseteq Stops
    /\ phone \subseteq Stops
    /\ phoneFile \subseteq Stops
    /\ kills \in 0..MaxKills
    /\ raced \subseteq Stops
    /\ unfiled \subseteq Stops

WatchInit ==
    /\ outbox = {}
    /\ saver = [s \in Stops |-> Saver("new")]
    /\ sync = NoSync
    /\ acker = NoAck
    /\ toPhone = {}
    /\ toWatch = {}
    /\ server = {}
    /\ phone = {}
    /\ phoneFile = {}
    /\ kills = 0
    /\ raced = {}
    /\ unfiled = {}

-----------------------------------------------------------------------------
(* Rewriting the outbox.  A write drops what was added since its read.     *)

WriteOutbox(list, s) ==
    /\ outbox' = list
    /\ raced' = raced \cup (outbox \ (list \cup {s}))

(* saveStop: a coroutine is launched and the screen says saved. *)
Save(s) ==
    /\ saver[s].pc = "new"
    /\ saver' = [saver EXCEPT ![s] = Saver("read")]
    /\ UNCHANGED <<outbox, sync, acker, linkVars, remoteVars, watchHistory>>

(* addToOutbox. *)
AddRead(s) ==
    /\ saver[s].pc = "read"
    /\ saver' = [saver EXCEPT ![s] = [pc |-> "write", seen |-> outbox]]
    /\ UNCHANGED <<outbox, sync, acker, linkVars, remoteVars, watchHistory>>

AddWrite(s) ==
    /\ saver[s].pc = "write"
    /\ WriteOutbox(saver[s].seen \cup {s}, s)
    /\ saver' = [saver EXCEPT ![s] = Saver("send")]
    /\ UNCHANGED <<sync, acker, linkVars, remoteVars, kills, unfiled>>

(* phone.sendStop(record), after the server sync this coroutine asked for; *)
(* with no phone connected the message is not sent.                        *)
SendSaved(s) ==
    /\ saver[s].pc = "send"
    /\ saver' = [saver EXCEPT ![s] = Saver("sent")]
    /\ toPhone' \in {toPhone, toPhone \cup {s}}
    /\ UNCHANGED <<outbox, sync, acker, toWatch, remoteVars, watchHistory>>

-----------------------------------------------------------------------------
(* serverSync. *)

SyncStart ==
    /\ sync.pc = "off" /\ outbox # {}
    /\ sync' = [NoSync EXCEPT !.pc = "push", !.queued = outbox]
    /\ UNCHANGED <<outbox, saver, acker, linkVars, remoteVars, watchHistory>>

PushConfirmedKept ==
    /\ sync.pc = "push"
    /\ server' = server \cup sync.queued
    /\ sync' = NoSync
    /\ UNCHANGED <<outbox, saver, acker, linkVars, phone, phoneFile, watchHistory>>

PushConfirmed ==
    /\ sync.pc = "push"
    /\ server' = server \cup sync.queued
    /\ sync' = [sync EXCEPT !.pc = "read"]
    /\ UNCHANGED <<outbox, saver, acker, linkVars, phone, phoneFile, watchHistory>>

(* No answer: the server may have stored the stops all the same.           *)
PushFailsCleared ==
    /\ sync.pc = "push"
    /\ server' \in {server, server \cup sync.queued}
    /\ sync' = [sync EXCEPT !.pc = "read"]
    /\ UNCHANGED <<outbox, saver, acker, linkVars, phone, phoneFile, watchHistory>>

PushFails ==
    /\ sync.pc = "push"
    /\ server' \in {server, server \cup sync.queued}
    /\ sync' = NoSync
    /\ UNCHANGED <<outbox, saver, acker, linkVars, phone, phoneFile, watchHistory>>

(* removeFromOutbox, for each stop that was pushed. *)
RemoveRead(s) ==
    /\ sync.pc = "read" /\ s \in sync.queued
    /\ sync' = [sync EXCEPT !.pc = "write", !.id = s, !.seen = outbox]
    /\ UNCHANGED <<outbox, saver, acker, linkVars, remoteVars, watchHistory>>

RemoveWriteForever ==
    /\ sync.pc = "write"
    /\ WriteOutbox(sync.seen \ {sync.id}, sync.id)
    /\ sync' = [NoSync EXCEPT !.pc = "read", !.queued = sync.queued \ {sync.id}]
    /\ UNCHANGED <<saver, acker, linkVars, remoteVars, kills, unfiled>>

RemoveWrite ==
    /\ sync.pc = "write"
    /\ WriteOutbox(sync.seen \ {sync.id}, sync.id)
    /\ LET rest == sync.queued \ {sync.id} IN
       sync' = IF rest = {} THEN NoSync
               ELSE [NoSync EXCEPT !.pc = "read", !.queued = rest]
    /\ UNCHANGED <<saver, acker, linkVars, remoteVars, kills, unfiled>>

-----------------------------------------------------------------------------
(* The paired phone. *)

(* flushOutbox, on every heartbeat. *)
Resend ==
    /\ toPhone' = toPhone \cup outbox
    /\ toPhone' # toPhone
    /\ UNCHANGED <<watchVars, toWatch, remoteVars, watchHistory>>

(* handleStop: a stop the phone does not hold is stored and written to its *)
(* file; the stop is acked whatever became of the write.  One that failed  *)
(* may have emptied the file.                                              *)
PhoneStores(s) ==
    /\ s \in toPhone
    /\ phone' = phone \cup {s}
    /\ phoneFile' \in IF s \in phone THEN {phoneFile} ELSE {phone', phoneFile, {}}
    /\ unfiled' = unfiled \cup (phone' \ phoneFile')
    /\ toWatch' = toWatch \cup {s}
    /\ UNCHANGED <<watchVars, toPhone, server, kills, raced>>

(* PhoneMessageService, removeFromOutbox. *)
AckRead(s) ==
    /\ acker.pc = "off" /\ s \in toWatch
    /\ acker' = [pc |-> "write", id |-> s, seen |-> outbox]
    /\ UNCHANGED <<outbox, saver, sync, linkVars, remoteVars, watchHistory>>

AckWrite ==
    /\ acker.pc = "write"
    /\ WriteOutbox(acker.seen \ {acker.id}, acker.id)
    /\ acker' = NoAck
    /\ UNCHANGED <<saver, sync, linkVars, remoteVars, kills, unfiled>>

-----------------------------------------------------------------------------
(* The system kills the watch app: what is not in the DataStore is gone.   *)
KillWatch ==
    /\ kills < MaxKills
    /\ kills' = kills + 1
    /\ saver' = [s \in Stops |->
          CASE saver[s].pc \in {"read", "write"} -> Saver("killed")
            [] saver[s].pc = "send" -> Saver("sent")
            [] OTHER -> saver[s]]
    /\ sync' = NoSync
    /\ acker' = NoAck
    /\ UNCHANGED <<outbox, linkVars, remoteVars, raced, unfiled>>

(* ... or the phone app, at worst while it writes its file. *)
KillPhone ==
    /\ kills < MaxKills
    /\ kills' = kills + 1
    /\ phoneFile' \in {phoneFile} \cup {{} : s \in toPhone \ phone}
    /\ unfiled' = unfiled \cup (phone \ phoneFile')
    /\ phone' = phoneFile'
    /\ UNCHANGED <<watchVars, linkVars, server, raced>>

WatchNext ==
    \/ \E s \in Stops :
          \/ Save(s) \/ AddRead(s) \/ AddWrite(s) \/ SendSaved(s)
          \/ RemoveRead(s) \/ PhoneStores(s) \/ AckRead(s)
    \/ Resend
    \/ SyncStart \/ PushConfirmed \/ PushFails \/ RemoveWrite \/ AckWrite
    \/ KillWatch \/ KillPhone

(* Coroutines and the service thread run; the heartbeat starts a sync; a   *)
(* push is confirmed now and then.  Nothing is assumed of the phone.       *)
WatchFairness ==
    /\ \A s \in Stops :
          /\ WF_allWatchVars(AddRead(s)) /\ WF_allWatchVars(AddWrite(s))
          /\ SF_allWatchVars(RemoveRead(s))
    /\ WF_allWatchVars(SyncStart) /\ SF_allWatchVars(PushConfirmed)
    /\ WF_allWatchVars(RemoveWrite) /\ WF_allWatchVars(AckWrite)

WatchSpec == WatchInit /\ [][WatchNext]_allWatchVars /\ WatchFairness

-----------------------------------------------------------------------------

Reached(s) == saver[s].pc \in {"send", "sent"}

(* Whatever messages, answers or processes are lost, a stop that addToOutbox  *)
(* wrote stays in the outbox, on the server or in the phone's file, with two *)
(* exceptions: two rewrites of the outbox overlapped (WatchStore.kt:85-95),  *)
(* or the phone acked a stop its file did not get (PhoneStore.kt:120).       *)
LossOnlyByRaceOrFailedWrite ==
    \A s \in Stops :
        Reached(s) => s \in outbox \cup server \cup phoneFile \cup raced \cup unfiled

(* While the server confirms a push now and then, no stop stays in the     *)
(* outbox for ever, though a rewrite may bring back one that was removed.  *)
OutboxEmpties == \A s \in Stops : s \in outbox ~> s \notin outbox
=============================================================================
