-------------------------------- MODULE Lww --------------------------------
(***************************************************************************)
(* The last-write-wins rule that every store of StopTrack applies when a   *)
(* record arrives from somewhere else (server.js, StopTrack.tsx,           *)
(* PhoneStore.kt): compare two records by their stamp, after lowering a    *)
(* stamp that is ahead of the local clock to that clock.                   *)
(*                                                                         *)
(* A record is its raw stamp and its content.  The raw stamp stands for    *)
(* the first present field of updatedAt, loggedAt, end, start; content is  *)
(* a member of Vals.                                                       *)
(*                                                                         *)
(* In every module an operator defined just before another with the same   *)
(* parameters, and not used, is that definition with a slip in it: what a  *)
(* property is tried on to see that it can fail.                           *)
(***************************************************************************)
EXTENDS Integers

CONSTANTS
    Vals,     \* what a record says, as far as two records can differ
    NoRec     \* "no record is stored under this id"

Record == [at : Nat, val : Vals]

ASSUME NoRecAssumption == NoRec \notin Record

(* A clock value no later than now: Math.min(stamp, now). *)
ClampBelow(stamp, now) == IF stamp < now THEN stamp ELSE now - 1
ClampStamp(stamp, now) == IF stamp <= now THEN stamp ELSE now

RawStampOf(r) == r.at

StampOf(r, now) == ClampStamp(RawStampOf(r), now)

(* The record as it is stored: its stamp pinned to an honest value. *)
StoredAsSent(r, now) == r
NormalizeStamp(r, now) == [r EXCEPT !.at = ClampStamp(@, now)]

(* The incoming record replaces the stored one; a tie goes to the incoming. *)
AcceptsAnything(cur, inc, now) == TRUE
AcceptsStrictly(cur, inc, now) ==
    cur = NoRec \/ StampOf(inc, now) > StampOf(cur, now)
Accepts(cur, inc, now) ==
    cur = NoRec \/ StampOf(inc, now) >= StampOf(cur, now)

Upsert(cur, inc, now) ==
    IF Accepts(cur, inc, now) THEN NormalizeStamp(inc, now) ELSE cur

(* A batch is a function from the ids it carries to the records it carries. *)
UpsertAll(store, batch, now) ==
    [id \in DOMAIN store |->
        IF id \in DOMAIN batch THEN Upsert(store[id], batch[id], now)
                               ELSE store[id]]

(* The records of a store that a GET ...?since= returns. *)
ChangedSince(store, since, now) ==
    {id \in DOMAIN store :
        store[id] # NoRec /\ StampOf(store[id], now) > since}
=============================================================================
