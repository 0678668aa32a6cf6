----------------------------- MODULE ShiftClock -----------------------------
(***************************************************************************)
(* What "this shift" means (StopTrack.tsx): the occurrence of a shift that *)
(* the clock is in, when it ends, and where the board begins.  Time is in  *)
(* any unit; a day is Day units and every day is as long (no change to or  *)
(* from daylight saving time).                                             *)
(***************************************************************************)
EXTENDS Integers

CONSTANTS
    Day,
    Grace      \* SHIFT_OVERTIME_GRACE_MS

ASSUME ClockAssumption == Day \in Nat \ {0} /\ Grace \in Nat

(* Times of the day.  A shift whose end is not after its start is overnight.*)
Shift == [start : 0..(Day - 1), end : 0..(Day - 1)]

LengthSameDay(s) ==
    s.end - s.start + IF s.end < s.start THEN Day ELSE 0

shiftLength(s) ==
    s.end - s.start + IF s.end <= s.start THEN Day ELSE 0

(* setHours(0, 0, 0, 0) *)
Midnight(now) == now - (now % Day)

(* The end of the shift that is still ahead. *)
EndNotBefore(s, now) ==
    LET today == Midnight(now) + s.end
    IN  today + IF today < now THEN Day ELSE 0

shiftEndAt(s, now) ==
    LET today == Midnight(now) + s.end
    IN  today + IF today <= now THEN Day ELSE 0

(* The occurrence that started last. *)
WindowOfYesterday(s, now) ==
    LET start == Midnight(now) + s.start - Day
    IN  [start |-> start, end |-> start + shiftLength(s)]

shiftWindowAt(s, now) ==
    LET today == Midnight(now) + s.start
        start == today - IF today > now THEN Day ELSE 0
    IN  [start |-> start, end |-> start + shiftLength(s)]

LaterOf(a, b) == IF a >= b THEN a ELSE b

(* shiftStart: past the end and the grace the board begins where the grace  *)
(* ended, and never before the last New Shift.                             *)
shiftStart(window, now, clearedBefore) ==
    LET overtimeEnd == window.end + Grace
    IN  LaterOf(IF now > overtimeEnd THEN overtimeEnd ELSE window.start,
                clearedBefore)
=============================================================================
