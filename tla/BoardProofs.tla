---------------------------- MODULE BoardProofs -----------------------------
(* What TLAPS proves of the shift clock and of the board, for any shifts,   *)
(* any length of the day and any grace.                                    *)
EXTENDS Board, SequenceTheorems, FiniteSetTheorems, WellFoundedInduction, TLAPS

-----------------------------------------------------------------------------
(* The clock. *)

(* A midnight is at or less than a day before its instant. *)
LEMMA MidnightFacts ==
    ASSUME NEW n \in Int
    PROVE  /\ Midnight(n) \in Int
           /\ Midnight(n) <= n /\ n < Midnight(n) + Day
<1>1. Day \in Nat \ {0}
    BY ClockAssumption
<1>2. n % Day \in 0..(Day - 1)
    BY <1>1
<1>3. QED
    BY <1>1, <1>2 DEF Midnight

(* Two instants are of one day, of consecutive ones, or two days or more apart.*)
LEMMA MidnightSteps ==
    ASSUME NEW m \in Int, NEW n \in Int, m <= n
    PROVE  \/ Midnight(n) = Midnight(m)
           \/ Midnight(n) = Midnight(m) + Day
           \/ Midnight(n) >= Midnight(m) + 2 * Day
<1> DEFINE p == m \div Day
           q == n \div Day
<1>1. Day \in Nat \ {0}
    BY ClockAssumption
<1>2. p \in Int /\ q \in Int
    BY <1>1
<1>3. Midnight(m) = Day * p /\ Midnight(n) = Day * q
    BY <1>1 DEF Midnight
<1> HIDE DEF p, q
<1>4. CASE p = q
    BY <1>3, <1>4
<1>5. CASE p + 1 = q
    BY <1>1, <1>2, <1>3, <1>5
<1>6. CASE p + 2 <= q
    <2>1. Day * (q - p - 2) >= 0
        BY <1>1, <1>2, <1>6
    <2>2. Day * q = Day * p + 2 * Day + Day * (q - p - 2)
        BY <1>1, <1>2
    <2>3. QED
        BY <1>1, <1>2, <1>3, <2>1, <2>2
<1>7. CASE q + 1 <= p
    <2>1. Day * (p - q - 1) >= 0
        BY <1>1, <1>2, <1>7
    <2>2. Day * p = Day * q + Day + Day * (p - q - 1)
        BY <1>1, <1>2
    <2>3. Midnight(m) >= Midnight(n) + Day
        BY <1>1, <1>2, <1>3, <2>1, <2>2
    <2>4. QED
        BY <2>3, <1>1, MidnightFacts
<1>8. QED
    BY <1>2, <1>4, <1>5, <1>6, <1>7

(* The window of an instant holds it, or ended less than a day before it.  *)
LEMMA WindowFacts ==
    ASSUME NEW s \in Shift, NEW n \in Int
    PROVE  LET w == shiftWindowAt(s, n) IN
           /\ w.start \in Int /\ w.end \in Int
           /\ w.start <= n /\ n < w.start + Day
           /\ w.start < w.end /\ w.end <= w.start + Day
<1>1. Day \in Nat \ {0} /\ s.start \in 0..(Day - 1) /\ s.end \in 0..(Day - 1)
    BY ClockAssumption DEF Shift
<1>2. /\ Midnight(n) \in Int
      /\ Midnight(n) <= n /\ n < Midnight(n) + Day
    BY MidnightFacts
<1>3. QED
    BY <1>1, <1>2 DEF shiftWindowAt, shiftLength

(* While the shift lasts, the end still ahead is the end of its window.    *)
LEMMA EndIsTheWindows ==
    ASSUME NEW s \in Shift, NEW n \in Int, n < shiftWindowAt(s, n).end
    PROVE  shiftEndAt(s, n) = shiftWindowAt(s, n).end
<1>1. Day \in Nat \ {0} /\ s.start \in 0..(Day - 1) /\ s.end \in 0..(Day - 1)
    BY ClockAssumption DEF Shift
<1>2. /\ Midnight(n) \in Int
      /\ Midnight(n) <= n /\ n < Midnight(n) + Day
    BY MidnightFacts
<1>3. QED
    BY <1>1, <1>2 DEF shiftWindowAt, shiftLength, shiftEndAt

(* Windows follow each other: a later instant is in the same one, or in one *)
(* that started after the earlier instant.                                 *)
LEMMA WindowSteps ==
    ASSUME NEW s \in Shift, NEW m \in Int, NEW n \in Int, m <= n
    PROVE  \/ shiftWindowAt(s, n) = shiftWindowAt(s, m)
           \/ shiftWindowAt(s, n).start > m
<1>1. Day \in Nat \ {0} /\ s.start \in 0..(Day - 1) /\ s.end \in 0..(Day - 1)
    BY ClockAssumption DEF Shift
<1>2. /\ Midnight(m) \in Int /\ Midnight(m) <= m /\ m < Midnight(m) + Day
      /\ Midnight(n) \in Int /\ Midnight(n) <= n /\ n < Midnight(n) + Day
    BY MidnightFacts
<1>3. \/ Midnight(n) = Midnight(m)
      \/ Midnight(n) = Midnight(m) + Day
      \/ Midnight(n) >= Midnight(m) + 2 * Day
    BY MidnightSteps
<1>4. \/ shiftWindowAt(s, n).start = shiftWindowAt(s, m).start
      \/ shiftWindowAt(s, n).start > m
    BY <1>1, <1>2, <1>3 DEF shiftWindowAt
<1>5. shiftWindowAt(s, n).start = shiftWindowAt(s, m).start
        => shiftWindowAt(s, n) = shiftWindowAt(s, m)
    BY DEF shiftWindowAt
<1>6. QED
    BY <1>4, <1>5

-----------------------------------------------------------------------------
(* The board. *)

(* Where a board begins without New Shift: the start of the window, or the  *)
(* end of its overtime.                                                    *)
Base(w, n) == IF n > w.end + Grace THEN w.end + Grace ELSE w.start

(* A board without New Shift begins within the window, and not after now.  *)
LEMMA BaseFacts ==
    ASSUME NEW s \in Shift, NEW n \in Int
    PROVE  LET w == shiftWindowAt(s, n) IN
           /\ Base(w, n) \in Int
           /\ w.start <= Base(w, n) /\ Base(w, n) <= n
<1> DEFINE w == shiftWindowAt(s, n)
<1>1. Grace \in Nat
    BY ClockAssumption
<1>2. /\ w.start \in Int /\ w.end \in Int
      /\ w.start <= n /\ w.start < w.end
    BY WindowFacts
<1> HIDE DEF w
<1>3. Base(w, n) \in Int /\ w.start <= Base(w, n) /\ Base(w, n) <= n
    BY <1>1, <1>2 DEF Base
<1>4. QED
    BY <1>3 DEF w

(* It never moves back in time. *)
LEMMA BaseSteps ==
    ASSUME NEW s \in Shift, NEW m \in Int, NEW n \in Int, m <= n
    PROVE  Base(shiftWindowAt(s, m), m) <= Base(shiftWindowAt(s, n), n)
<1> DEFINE v == shiftWindowAt(s, m)
           w == shiftWindowAt(s, n)
<1>1. /\ v.start \in Int /\ v.end \in Int /\ v.start < v.end
      /\ Base(v, m) \in Int /\ Base(v, m) <= m
      /\ Base(w, n) \in Int /\ w.start <= Base(w, n) /\ w.start \in Int
    BY WindowFacts, BaseFacts
<1>2. CASE w = v
    <2> HIDE DEF v, w
    <2>1. Base(v, m) <= Base(v, n)
        BY <1>1, ClockAssumption DEF Base
    <2>2. QED
        BY <1>2, <2>1 DEF v, w
<1>3. CASE w.start > m
    BY <1>1, <1>3
<1>4. QED
    BY <1>2, <1>3, WindowSteps

(* What makes the properties of the board inductive: window and boardStart  *)
(* are those of the last recomputation and the last New Shift, which are    *)
(* not in the future.                                                      *)
BoardInv ==
    /\ now \in Nat /\ seen \in Nat /\ seen <= now
    /\ clearedBefore \in Nat /\ clearedBefore <= now
    /\ shiftId \in DOMAIN Shifts
    /\ window = shiftWindowAt(Shifts[shiftId], seen)
    /\ boardStart = shiftStart(window, seen, clearedBefore)

(* Every configured shift has a clock window.                             *)
LEMMA ShiftIsShift ==
    ASSUME NEW id \in DOMAIN Shifts
    PROVE  Shifts[id] \in Shift
BY BoardAssumption

(* shiftStart is the later of the window's own start and New Shift.       *)
LEMMA StartIsLater ==
    ASSUME NEW w, NEW n, NEW c
    PROVE  shiftStart(w, n, c) = LaterOf(Base(w, n), c)
BY DEF shiftStart, Base

(* The page opens on the board of its clock.                              *)
LEMMA InitBoard == Init => BoardInv
<1> SUFFICES ASSUME Init PROVE BoardInv
    OBVIOUS
<1>1. StartTime \in Nat
    BY BoardAssumption
<1>2. QED
    BY <1>1 DEF Init, BoardInv

(* A step leaves the clock's variables alone, or is one of four. *)
LEMMA BoardSteps ==
    ASSUME [Next]_vars
    PROVE  \/ now' = now /\ UNCHANGED clockVars
           \/ Tick \/ slowTick \/ startNewShift
           \/ \E id \in DOMAIN Shifts : selectShift(id)
<1>1. CASE UNCHANGED vars
    BY <1>1 DEF vars, clockVars
<1>2. CASE \E name \in Operators, m \in Machines, d \in Durations : LogStop(name, m, d)
    BY <1>2 DEF LogStop
<1>3. CASE \E m \in Machines : Arrive(m)
    BY <1>3 DEF Arrive
<1>4. CASE \E units \in Counts : handleSaveProduction(units)
    BY <1>4 DEF handleSaveProduction
<1>5. CASE \E i \in DOMAIN stops : discardStop(i) \/ deleteStop(i)
    BY <1>5 DEF discardStop, deleteStop
<1>6. CASE openHandover \/ persist \/ closeHandover
    BY <1>6 DEF openHandover, persist, closeHandover
<1>7. QED
    BY <1>1, <1>2, <1>3, <1>4, <1>5, <1>6 DEF Next

(* Every step of the page keeps the board the one of its window.          *)
LEMMA StepBoard ==
    ASSUME BoardInv, [Next]_vars
    PROVE  BoardInv'
<1>1. CASE now' = now /\ UNCHANGED clockVars
    BY <1>1 DEF BoardInv, clockVars
<1>2. CASE Tick
    BY <1>2 DEF Tick, BoardInv, clockVars
<1>3. CASE slowTick
    BY <1>3 DEF slowTick, Recompute, BoardInv
<1>4. CASE startNewShift
    <2>1. /\ now' = now /\ seen' = seen /\ shiftId' = shiftId /\ window' = window
          /\ clearedBefore' = now /\ boardStart' = shiftStart(window, now, now)
        BY <1>4 DEF startNewShift
    <2>2. LaterOf(Base(window, now), now) = now
        <3>1. /\ Shifts[shiftId] \in Shift /\ seen \in Int
              /\ window = shiftWindowAt(Shifts[shiftId], seen)
            BY ShiftIsShift DEF BoardInv
        <3>2. window.start \in Int /\ window.end \in Int /\ window.start <= seen
            BY <3>1, WindowFacts
        <3>3. QED
            BY <3>2, ClockAssumption DEF Base, LaterOf, BoardInv
    <2>3. LaterOf(Base(window, seen), now) = now
        <3>1. /\ Shifts[shiftId] \in Shift /\ seen \in Int
              /\ window = shiftWindowAt(Shifts[shiftId], seen)
            BY ShiftIsShift DEF BoardInv
        <3>2. Base(window, seen) \in Int /\ Base(window, seen) <= seen
            BY <3>1, BaseFacts
        <3>3. QED
            BY <3>2 DEF LaterOf, BoardInv
    <2>4. boardStart' = shiftStart(window', seen', clearedBefore')
        BY <2>1, <2>2, <2>3, StartIsLater
    <2>5. QED
        BY <2>1, <2>4 DEF BoardInv
<1>5. CASE \E id \in DOMAIN Shifts : selectShift(id)
    BY <1>5 DEF selectShift, Recompute, BoardInv
<1>6. QED
    BY <1>1, <1>2, <1>3, <1>4, <1>5, BoardSteps

(* The board is the one of its window in every reachable state.           *)
THEOREM BoardInvariance == Spec => []BoardInv
BY InitBoard, StepBoard, PTL DEF Spec

(* Whatever the shifts and the time, the two ways the code finds the end of *)
(* a shift agree while it lasts (shiftWindowAt, shiftEndAt).               *)
THEOREM EndsAlwaysAgree == Spec => []EndsAgree
<1>1. BoardInv => EndsAgree
    BY WindowFacts, EndIsTheWindows, ShiftIsShift DEF BoardInv, EndsAgree
<1>2. QED
    BY <1>1, BoardInvariance, PTL

(* No multi-day shift: a board is less than a day old when it is computed,  *)
(* though nobody taps New Shift (shiftStart).                              *)
THEOREM NoMultiDayShift == Spec => []BoardSpansADay
<1>1. BoardInv => BoardSpansADay
    <2> SUFFICES ASSUME BoardInv PROVE BoardSpansADay
        OBVIOUS
    <2>1. boardStart = LaterOf(Base(window, seen), clearedBefore)
        BY StartIsLater DEF BoardInv
    <2>2. /\ Base(window, seen) \in Int /\ Base(window, seen) <= seen
          /\ seen < Base(window, seen) + Day
        <3>1. Shifts[shiftId] \in Shift /\ seen \in Int
            BY ShiftIsShift DEF BoardInv
        <3>2. window = shiftWindowAt(Shifts[shiftId], seen)
            BY DEF BoardInv
        <3>3. /\ window.start \in Int /\ seen < window.start + Day
              /\ Base(window, seen) \in Int /\ Base(window, seen) <= seen
              /\ window.start <= Base(window, seen)
            <4> DEFINE w == shiftWindowAt(Shifts[shiftId], seen)
            <4>1. w.start \in Int /\ seen < w.start + Day
                BY <3>1, WindowFacts
            <4>2. Base(w, seen) \in Int /\ Base(w, seen) <= seen /\ w.start <= Base(w, seen)
                BY <3>1, BaseFacts
            <4> HIDE DEF w
            <4>3. window = w
                BY <3>2 DEF w
            <4>4. QED
                BY <4>1, <4>2, <4>3
        <3>4. QED
            BY <3>1, <3>3, ClockAssumption
    <2>3. QED
        BY <2>1, <2>2, ClockAssumption DEF LaterOf, BoardSpansADay, BoardInv
<1>2. QED
    BY <1>1, BoardInvariance, PTL

(* The board of an operator who keeps to a shift only moves forward: no stop *)
(* that has left it comes back (slowTick, startNewShift).                  *)
THEOREM BoardOnlyMovesForward == Spec => BoardMovesForward
<1>1. BoardInv /\ [Next]_vars => [shiftId' = shiftId => boardStart' >= boardStart]_vars
    <2> SUFFICES ASSUME BoardInv, [Next]_vars, shiftId' = shiftId
                 PROVE  boardStart' >= boardStart
        OBVIOUS
    <2>1. /\ Shifts[shiftId] \in Shift
          /\ window = shiftWindowAt(Shifts[shiftId], seen)
          /\ boardStart = LaterOf(Base(window, seen), clearedBefore)
        BY ShiftIsShift, StartIsLater DEF BoardInv
    <2>2. Base(window, seen) \in Int /\ Base(window, seen) <= seen
        BY <2>1, BaseFacts DEF BoardInv
    <2>3. boardStart \in Int /\ boardStart <= now
        BY <2>1, <2>2 DEF LaterOf, BoardInv
    <2>4. CASE boardStart' = boardStart
        BY <2>3, <2>4
    <2>5. CASE slowTick
        <3>1. /\ clearedBefore' = clearedBefore
              /\ boardStart' = shiftStart(shiftWindowAt(Shifts[shiftId], now), now, clearedBefore)
            BY <2>5 DEF slowTick, Recompute
        <3>2. Base(window, seen) <= Base(shiftWindowAt(Shifts[shiftId], now), now)
            BY <2>1, BaseSteps DEF BoardInv
        <3>3. Base(shiftWindowAt(Shifts[shiftId], now), now) \in Int
            BY <2>1, BaseFacts DEF BoardInv
        <3>4. boardStart' = LaterOf(Base(shiftWindowAt(Shifts[shiftId], now), now), clearedBefore)
            BY <3>1, StartIsLater
        <3>5. QED
            BY <2>1, <2>2, <3>2, <3>3, <3>4 DEF LaterOf, BoardInv
    <2>6. CASE startNewShift
        <3>1. BoardInv' /\ clearedBefore' = now
            BY <2>6, StepBoard DEF startNewShift
        <3>2. boardStart' = LaterOf(Base(window', seen'), clearedBefore')
            BY <3>1, StartIsLater DEF BoardInv
        <3>3. Base(window', seen') \in Int
            BY <3>1, <2>6, <2>1, <2>2 DEF startNewShift
        <3>4. QED
            BY <2>3, <3>1, <3>2, <3>3 DEF LaterOf, BoardInv
    <2>7. CASE \E id \in DOMAIN Shifts : selectShift(id)
        BY <2>7 DEF selectShift
    <2>8. QED
        BY <2>4, <2>5, <2>6, <2>7, BoardSteps DEF clockVars, Tick
<1>2. QED
    BY <1>1, BoardInvariance, PTL DEF Spec, BoardMovesForward

-----------------------------------------------------------------------------
(* The clock again, without midnights. *)

(* The only multiple of a day that is less than a day either way is none.  *)
LEMMA NoMultiple ==
    ASSUME NEW k \in Int, -Day < Day * k, Day * k < Day
    PROVE  k = 0
<1>1. Day \in Nat \ {0}
    BY ClockAssumption
<1>2. CASE k >= 1
    <2>1. Day * (k - 1) >= 0
        BY <1>1, <1>2
    <2>2. Day * k = Day * (k - 1) + Day
        BY <1>1
    <2>3. QED
        BY <1>1, <2>1, <2>2
<1>3. CASE k <= -1
    <2>1. Day * (-1 - k) >= 0
        BY <1>1, <1>3
    <2>2. Day * k = -(Day * (-1 - k)) - Day
        BY <1>1
    <2>3. QED
        BY <1>1, <2>1, <2>2
<1>4. QED
    BY <1>2, <1>3

(* An instant is a number of days and a time of the day. *)
LEMMA DaysAndTime ==
    ASSUME NEW n \in Int
    PROVE  \E q, a \in Int, r \in 0..(Day - 1) :
               a = Day * q /\ r = n % Day /\ n = a + r /\ Midnight(n) = a
<1> DEFINE q == n \div Day
<1>1. Day \in Nat \ {0}
    BY ClockAssumption
<1>2. q \in Int /\ n % Day \in 0..(Day - 1)
    BY <1>1
<1>3. Midnight(n) = Day * q
    BY <1>1 DEF Midnight
<1> HIDE DEF q
<1>4. PICK a \in Int : a = Day * q
    BY <1>1, <1>2
<1>5. PICK r \in 0..(Day - 1) : r = n % Day
    BY <1>2
<1>6. n - r = a
    BY <1>3, <1>4, <1>5 DEF Midnight
<1>7. n = a + r
    BY <1>1, <1>5, <1>6
<1>8. QED
    BY <1>2, <1>3, <1>4, <1>5, <1>7

(* Two instants less than a day apart at the same time of the day are one.  *)
LEMMA SameTimeOfDay ==
    ASSUME NEW m \in Int, NEW n \in Int, m % Day = n % Day, m < n + Day, n < m + Day
    PROVE  m = n
<1>1. Day \in Nat \ {0}
    BY ClockAssumption
<1>2. PICK p, a \in Int, r \in 0..(Day - 1) : a = Day * p /\ r = m % Day /\ m = a + r
    BY DaysAndTime
<1>3. PICK q, b \in Int, u \in 0..(Day - 1) : b = Day * q /\ u = n % Day /\ n = b + u
    BY DaysAndTime
<1>4. r = u
    BY <1>2, <1>3
<1>5. Day * (p - q) = a - b
    BY <1>1, <1>2, <1>3
<1>6. p - q = 0
    <2>1. a - b = m - n
        BY <1>1, <1>2, <1>3, <1>4
    <2>2. -Day < Day * (p - q) /\ Day * (p - q) < Day
        BY <1>1, <1>5, <2>1
    <2>3. QED
        BY <2>2, NoMultiple
<1>7. a = b
    BY <1>2, <1>3, <1>6
<1>8. QED
    BY <1>2, <1>3, <1>4, <1>7

(* An instant r after a midnight, or whole days from that, is at r. *)
LEMMA TimeOfDay ==
    ASSUME NEW q \in Int, NEW r \in 0..(Day - 1)
    PROVE  (Day * q + r) % Day = r
<1>1. Day \in Nat \ {0}
    BY ClockAssumption
<1>2. PICK b \in Int : b = Day * q
    BY <1>1
<1>3. PICK n \in Int : n = b + r
    BY <1>1, <1>2
<1>4. PICK p, a \in Int, u \in 0..(Day - 1) : a = Day * p /\ u = n % Day /\ n = a + u
    BY DaysAndTime
<1>5. Day * (q - p) = b - a
    BY <1>1, <1>2, <1>4
<1>6. q - p = 0
    <2>1. n = a + u
        BY <1>4
    <2>2. b - a = u - r
        BY <1>3, <2>1
    <2>3. -Day < u - r /\ u - r < Day
        BY <1>1
    <2>4. -Day < Day * (q - p) /\ Day * (q - p) < Day
        BY <1>5, <2>2, <2>3
    <2>5. QED
        BY <2>4, NoMultiple
<1>7. a = b
    BY <1>2, <1>4, <1>6
<1>8. u = r
    BY <1>1, <1>3, <1>4, <1>7
<1>9. QED
    BY <1>2, <1>3, <1>4, <1>8

(* A window begins and ends at the times its shift says. *)
LEMMA WindowTimes ==
    ASSUME NEW s \in Shift, NEW n \in Int
    PROVE  LET w == shiftWindowAt(s, n) IN
           w.start % Day = s.start /\ w.end % Day = s.end
<1> DEFINE w == shiftWindowAt(s, n)
           q == n \div Day
<1>1. Day \in Nat \ {0} /\ s.start \in 0..(Day - 1) /\ s.end \in 0..(Day - 1)
    BY ClockAssumption DEF Shift
<1>2. q \in Int /\ Midnight(n) = Day * q
    BY <1>1 DEF Midnight
<1> HIDE DEF q
<1>3. Day * (q - 1) = Day * q - Day /\ Day * (q + 1) = Day * q + Day
    BY <1>1, <1>2
<1>4. PICK k \in {q - 1, q} : w.start = Day * k + s.start
    BY <1>1, <1>2, <1>3 DEF shiftWindowAt
<1>5. k \in Int /\ Day * (k + 1) = Day * k + Day
    BY <1>1, <1>2
<1>6. w.end = w.start + shiftLength(s)
    BY DEF shiftWindowAt
<1>7. PICK j \in {k, k + 1} : w.end = Day * j + s.end
    BY <1>1, <1>4, <1>5, <1>6 DEF shiftLength
<1>8. k \in Int /\ j \in Int
    BY <1>2, <1>4, <1>7
<1>9. (Day * k + s.start) % Day = s.start /\ (Day * j + s.end) % Day = s.end
    BY <1>1, <1>8, TimeOfDay
<1>10. QED
    BY <1>4, <1>7, <1>9

(* The board is where a search for the shift's hours on the clock puts it,  *)
(* for any shift, day and grace (shiftWindowAt, shiftLengthMs, shiftStart). *)
THEOREM BoardAlwaysMatchesTheClock == Spec => []BoardMatchesTheClock
<1>1. BoardInv => BoardMatchesTheClock
    <2> SUFFICES ASSUME BoardInv PROVE BoardMatchesTheClock
        OBVIOUS
    <2> DEFINE s == Shifts[shiftId]
               began == CHOOSE t \in (seen - Day + 1)..seen : t % Day = s.start
               ended == CHOOSE t \in (began + 1)..(began + Day) : t % Day = s.end
               later == IF ended + Grace < seen THEN {ended + Grace} ELSE {}
    <2>1. /\ s \in Shift /\ seen \in Int /\ window = shiftWindowAt(s, seen)
          /\ boardStart = LaterOf(Base(window, seen), clearedBefore)
          /\ clearedBefore \in Int
        BY ShiftIsShift, StartIsLater DEF BoardInv
    <2>2. Day \in Nat \ {0} /\ Grace \in Nat
        BY ClockAssumption
    <2> HIDE DEF s
    <2>3. /\ window.start \in Int /\ window.end \in Int
          /\ window.start <= seen /\ seen < window.start + Day
          /\ window.start < window.end /\ window.end <= window.start + Day
        BY <2>1, WindowFacts
    <2>4. window.start % Day = s.start /\ window.end % Day = s.end
        BY <2>1, WindowTimes
    <2>5. began = window.start
        <3>1. window.start \in (seen - Day + 1)..seen
            BY <2>1, <2>2, <2>3
        <3>2. ASSUME NEW t \in (seen - Day + 1)..seen, t % Day = s.start
              PROVE  t = window.start
            <4>1. t < window.start + Day /\ window.start < t + Day /\ t \in Int
                BY <2>1, <2>2, <2>3
            <4>2. QED
                BY <2>3, <2>4, <3>2, <4>1, SameTimeOfDay
        <3>3. QED
            BY <2>4, <3>1, <3>2
    <2> HIDE DEF began
    <2>6. ended = window.end
        <3>1. window.end \in (began + 1)..(began + Day)
            BY <2>2, <2>3, <2>5
        <3>2. ASSUME NEW t \in (began + 1)..(began + Day), t % Day = s.end
              PROVE  t = window.end
            BY <2>2, <2>3, <2>4, <2>5, <3>2, SameTimeOfDay
        <3>3. QED
            BY <2>4, <3>1, <3>2
    <2> HIDE DEF ended
    <2>7. PICK S : S = {began, clearedBefore} \cup later
        OBVIOUS
    <2>8. boardStart \in S /\ boardStart \in Int /\ \A t \in S : t \in Int /\ boardStart >= t
        BY <2>1, <2>2, <2>3, <2>5, <2>6, <2>7 DEF Base, LaterOf
    <2>9. boardStart = Max(S)
        <3>1. ASSUME NEW t \in S, \A u \in S : t >= u
              PROVE  t = boardStart
            BY <2>8, <3>1
        <3>2. QED
            BY <2>8, <3>1 DEF Max
    <2>10. QED
        BY <2>7, <2>9 DEF BoardMatchesTheClock, s, began, ended
<1>2. QED
    BY <1>1, BoardInvariance, PTL

(* An operator's shift so far is never longer than the shift (myShift's      *)
(* shiftElapsed, which stops at the end of the window).                     *)
THEOREM ElapsedAlwaysFits == Spec => []ElapsedFits
<1>1. BoardInv => ElapsedFits
    <2> SUFFICES ASSUME BoardInv PROVE ElapsedFits
        OBVIOUS
    <2>1. PICK s : s = Shifts[shiftId]
        OBVIOUS
    <2>2. /\ s \in Shift /\ seen \in Int /\ window = shiftWindowAt(s, seen)
          /\ boardStart = LaterOf(Base(window, seen), clearedBefore)
          /\ clearedBefore \in Int /\ now \in Int
        BY <2>1, ShiftIsShift, StartIsLater DEF BoardInv
    <2>3. window.end = window.start + shiftLength(s)
        BY <2>2 DEF shiftWindowAt
    <2>4. /\ window.start \in Int /\ window.end \in Int /\ window.start < window.end
          /\ Base(window, seen) \in Int /\ window.start <= Base(window, seen)
        BY <2>2, WindowFacts, BaseFacts
    <2>5. shiftLength(s) \in Int
        BY <2>2, ClockAssumption DEF shiftLength, Shift
    <2>6. boardStart \in Int /\ window.start <= boardStart
        BY <2>2, <2>4 DEF LaterOf
    <2>7. Elapsed <= shiftLength(s)
        BY <2>2, <2>3, <2>4, <2>5, <2>6 DEF Elapsed, WindowEnd, Smaller, LaterOf
    <2>8. QED
        BY <2>1, <2>7 DEF ElapsedFits
<1>2. QED
    BY <1>1, BoardInvariance, PTL

-----------------------------------------------------------------------------
(* Types, and the handovers. *)

(* Ids are given in turn, and what is filed of the dialog's handover is the *)
(* dialog's, under its id.                                                  *)
Filed ==
    /\ \A h \in handovers : h.id \in 1..Cardinality(handovers)
    /\ handout = [report |-> handout.report, id |-> handout.id]
    /\ handout.id # 0 =>
         handovers = {h \in handovers : h.id # handout.id}
                     \cup {[id |-> handout.id, report |-> handout.report]}
PageInv == BoardInv /\ TypeOK /\ IsFiniteSet(handovers) /\ Filed

(* A function on an initial segment is a sequence. *)
LEMMA IsASequence ==
    ASSUME NEW S, NEW n \in Nat, NEW f \in [1..n -> S]
    PROVE  f \in Seq(S)
OBVIOUS

(* A recomputed board is in time. *)
LEMMA BoardTypes ==
    ASSUME NEW id \in DOMAIN Shifts, NEW n \in Nat, NEW c \in Nat,
           NEW w, w = shiftWindowAt(Shifts[id], n)
    PROVE  w.start \in Int /\ w.end \in Int /\ shiftStart(w, n, c) \in Int
<1>1. Shifts[id] \in Shift /\ n \in Int /\ c \in Int
    BY ShiftIsShift
<1>2. w.start \in Int /\ w.end \in Int /\ Base(w, n) \in Int
    BY <1>1, WindowFacts, BaseFacts
<1>3. QED
    BY <1>1, <1>2, StartIsLater DEF LaterOf

(* Nothing is filed when the page opens. *)
LEMMA InitPage == Init => PageInv
<1> SUFFICES ASSUME Init PROVE PageInv
    OBVIOUS
<1>1. BoardInv
    BY InitBoard
<1>2. handovers = {} /\ IsFiniteSet(handovers) /\ Cardinality(handovers) = 0
    BY FS_EmptySet DEF Init
<1>3. StartTime \in Nat /\ MaxTime \in Nat /\ StartTime <= MaxTime /\ MaxTaps \in Nat
    BY BoardAssumption
<1>4. handout.id = 0 /\ handout = [report |-> handout.report, id |-> handout.id]
    BY DEF Init, Closed
<1>5. <<>> \in Seq(Stop) /\ <<>> \in Seq(Span)
    OBVIOUS
<1>6. DOMAIN production = {}
    BY DEF Init, NoRows
<1>7. window.start \in Int /\ window.end \in Int /\ boardStart \in Int
    BY <1>1, BoardTypes DEF BoardInv
<1>9. TypeOK
    BY <1>1, <1>2, <1>3, <1>4, <1>5, <1>6, <1>7 DEF Init, TypeOK
<1>8. QED
    BY <1>1, <1>2, <1>4, <1>9 DEF PageInv, Filed

(* A step that files nothing and leaves the dialog alone keeps what is filed.*)
LEMMA FiledStays ==
    ASSUME PageInv, UNCHANGED <<handout, handovers>>
    PROVE  IsFiniteSet(handovers)' /\ Filed'
           /\ (handout.id \in 0..(Cardinality(handovers) + 1))'
BY DEF PageInv, Filed, TypeOK

(* A step that is no tap of the records. *)
LEMMA ClockStepPage ==
    ASSUME PageInv, BoardInv', UNCHANGED <<operator, machine, stops, production, handout, handovers>>,
           now' \in StartTime..MaxTime, seen' \in StartTime..now', taps' \in 0..MaxTaps,
           sessions' \in Seq(Span)
    PROVE  PageInv'
<1>1. (window.start \in Int /\ window.end \in Int /\ boardStart \in Int)'
    BY BoardTypes DEF BoardInv
<1>2. (shiftId \in DOMAIN Shifts /\ clearedBefore \in 0..now)'
    BY DEF BoardInv
<1>3. /\ operator' \in Everyone /\ machine' \in Machines /\ stops' \in Seq(Stop)
      /\ \A id \in DOMAIN production' :
            production'[id] \in Output /\ id[2] = production'[id].shiftStart
    BY DEF PageInv, TypeOK
<1>4. QED
    BY <1>1, <1>2, <1>3, FiledStays DEF PageInv, TypeOK

(* The taps left. *)
LEMMA TapFacts ==
    ASSUME PageInv, Tap
    PROVE  taps' \in 0..MaxTaps
BY BoardAssumption DEF PageInv, TypeOK, Tap

(* Presence spans ended now. *)
LEMMA SpansEnded ==
    ASSUME PageInv, NEW E \in SUBSET DOMAIN sessions
    PROVE  [i \in DOMAIN sessions |->
              IF i \in E THEN [sessions[i] EXCEPT !.end = now] ELSE sessions[i]] \in Seq(Span)
<1>1. sessions \in Seq(Span) /\ now \in Nat
    BY BoardAssumption DEF PageInv, TypeOK
<1>2. DOMAIN sessions = 1..Len(sessions) /\ Len(sessions) \in Nat
    BY <1>1
<1>3. \A i \in DOMAIN sessions : sessions[i] \in Span
    BY <1>1
<1>4. \A i \in DOMAIN sessions : [sessions[i] EXCEPT !.end = now] \in Span
    BY <1>1, <1>3 DEF Span
<1>5. [i \in DOMAIN sessions |->
         IF i \in E THEN [sessions[i] EXCEPT !.end = now] ELSE sessions[i]]
      \in [1..Len(sessions) -> Span]
    BY <1>2, <1>3, <1>4
<1>6. QED
    BY <1>2, <1>5, IsASequence

(* The clock, and the taps that set it. *)
LEMMA ClockPage ==
    ASSUME PageInv, [Next]_vars,
           Tick \/ slowTick \/ startNewShift \/ UNCHANGED vars
             \/ (\E id \in DOMAIN Shifts : selectShift(id))
    PROVE  PageInv'
<1>1. BoardInv'
    BY StepBoard DEF PageInv
<1>2. now \in StartTime..MaxTime /\ seen \in StartTime..now /\ StartTime \in Nat
      /\ MaxTime \in Nat /\ taps \in 0..MaxTaps /\ sessions \in Seq(Span)
    BY BoardAssumption DEF PageInv, TypeOK
<1>3. UNCHANGED <<operator, machine, stops, production, handout, handovers>>
    BY DEF Tick, slowTick, startNewShift, selectShift, vars, setupVars
<1>4. now' \in StartTime..MaxTime /\ seen' \in StartTime..now'
    BY <1>2 DEF Tick, slowTick, startNewShift, selectShift, vars, clockVars, Recompute
<1>5. taps' \in 0..MaxTaps
    <2>1. Tap \/ taps' = taps
        BY DEF Tick, slowTick, startNewShift, selectShift, vars
    <2>2. QED
        BY <1>2, <2>1, TapFacts
<1>6. sessions' \in Seq(Span)
    <2>1. CASE startNewShift
        <3>1. PICK E : E = {i \in DOMAIN sessions : sessions[i].end = 0}
            OBVIOUS
        <3>2. PICK closed : closed = [i \in DOMAIN sessions |->
                  IF i \in E THEN [sessions[i] EXCEPT !.end = now] ELSE sessions[i]]
            OBVIOUS
        <3>3. closed \in Seq(Span)
            BY <3>1, <3>2, SpansEnded
        <3>4. PICK span : span = [operator |-> operator, machine |-> machine,
                                  start |-> now, end |-> 0]
            OBVIOUS
        <3>5. \/ sessions' = closed
              \/ operator # NoName /\ sessions' = Append(closed, span)
            BY <2>1, <3>1, <3>2, <3>4 DEF startNewShift
        <3>6. operator # NoName => span \in Span
            BY <1>2, <3>4 DEF Span, PageInv, TypeOK, Everyone
        <3>7. QED
            BY <3>3, <3>5, <3>6, AppendProperties
    <2>2. CASE ~startNewShift
        BY <1>2, <2>2 DEF Tick, slowTick, selectShift, vars
    <2>3. QED
        BY <2>1, <2>2
<1>7. QED
    BY <1>1, <1>3, <1>4, <1>5, <1>6, ClockStepPage

(* A step of the records, which leaves clock and dialog alone.             *)
LEMMA RecordStepPage ==
    ASSUME PageInv, BoardInv', UNCHANGED <<now, seen, clockVars, operator, handout, handovers>>,
           Tap, machine' \in Machines, stops' \in Seq(Stop), sessions' \in Seq(Span),
           \A id \in DOMAIN production' :
              production'[id] \in Output /\ id[2] = production'[id].shiftStart
    PROVE  PageInv'
<1>1. taps' \in 0..MaxTaps
    BY TapFacts
<1>2. UNCHANGED <<now, shiftId, clearedBefore, window, boardStart, seen, operator>>
    BY DEF clockVars
<1>3. QED
    BY <1>1, <1>2, FiledStays DEF PageInv, TypeOK

(* Stops, presence and output come onto the board, and stops leave it.     *)
LEMMA RecordPage ==
    ASSUME PageInv, [Next]_vars,
           \/ \E name \in Operators, m \in Machines, d \in Durations : LogStop(name, m, d)
           \/ \E m \in Machines : Arrive(m)
           \/ \E units \in Counts : handleSaveProduction(units)
           \/ \E i \in DOMAIN stops : discardStop(i) \/ deleteStop(i)
    PROVE  PageInv'
<1>1. BoardInv'
    BY StepBoard DEF PageInv
<1>2. now \in Nat /\ machine \in Machines /\ stops \in Seq(Stop) /\ sessions \in Seq(Span)
      /\ boardStart \in Int /\ operator \in Everyone
    BY BoardAssumption DEF PageInv, TypeOK
<1>3. \A id \in DOMAIN production :
          production[id] \in Output /\ id[2] = production[id].shiftStart
    BY DEF PageInv, TypeOK
<1>4. ASSUME NEW name \in Operators, NEW m \in Machines, NEW d \in Durations,
             LogStop(name, m, d)
      PROVE  PageInv'
    <2>1. PICK s : s = [operator |-> name, machine |-> m, duration |-> d,
                        start |-> now - d, logged |-> now,
                        discarded |-> FALSE, deleted |-> FALSE]
        OBVIOUS
    <2>2. s \in Stop
        BY <1>2, <2>1, BoardAssumption DEF Stop
    <2>3. stops' = Append(stops, s)
        BY <1>4, <2>1 DEF LogStop
    <2>4. stops' \in Seq(Stop)
        BY <1>2, <2>2, <2>3, AppendProperties
    <2>5. Tap /\ UNCHANGED <<now, seen, clockVars, operator, machine, production, sessions,
                             handout, handovers>>
        BY <1>4 DEF LogStop, clockVars, setupVars
    <2>6. QED
        BY <1>1, <1>2, <1>3, <2>4, <2>5, RecordStepPage
<1>5. ASSUME NEW m \in Machines, Arrive(m)
      PROVE  PageInv'
    <2>1. PICK E : E = {i \in DOMAIN sessions : sessions[i].end = 0}
        OBVIOUS
    <2>2. PICK closed : closed = [i \in DOMAIN sessions |->
              IF i \in E THEN [sessions[i] EXCEPT !.end = now] ELSE sessions[i]]
        OBVIOUS
    <2>3. PICK span : span = [operator |-> operator, machine |-> m, start |-> now, end |-> 0]
        OBVIOUS
    <2>4. closed \in Seq(Span)
        BY <2>1, <2>2, SpansEnded
    <2>5. span \in Span
        BY <1>2, <1>5, <2>3 DEF Span, Arrive, Everyone
    <2>6. closed = [i \in DOMAIN sessions |->
              IF sessions[i].end = 0 THEN [sessions[i] EXCEPT !.end = now] ELSE sessions[i]]
        BY <2>1, <2>2
    <2>7. sessions' = Append(closed, span)
        BY <1>5, <2>3, <2>6 DEF Arrive
    <2>8. sessions' \in Seq(Span)
        BY <2>4, <2>5, <2>7, AppendProperties
    <2>9. Tap /\ UNCHANGED <<now, seen, clockVars, operator, stops, production, handout, handovers>>
          /\ machine' = m
        BY <1>5 DEF Arrive, clockVars
    <2>10. QED
        BY <1>1, <1>2, <1>3, <2>8, <2>9, RecordStepPage
<1>6. ASSUME NEW units \in Counts, handleSaveProduction(units)
      PROVE  PageInv'
    <2>1. PICK r : r = [machine |-> machine, operator |-> operator,
                        shiftStart |-> boardStart, units |-> units]
        OBVIOUS
    <2>2. r \in Output /\ r.shiftStart = boardStart
        BY <1>2, <2>1, BoardAssumption DEF Output
    <2>3. ProductionId(machine)[2] = boardStart
        BY DEF ProductionId
    <2>4. production' = [k \in DOMAIN production \cup {ProductionId(machine)} |->
              IF k = ProductionId(machine) THEN r ELSE production[k]]
        BY <1>6, <2>1 DEF handleSaveProduction
    <2>5. \A id \in DOMAIN production' :
              production'[id] \in Output /\ id[2] = production'[id].shiftStart
        BY <1>3, <2>2, <2>3, <2>4
    <2>6. Tap /\ UNCHANGED <<now, seen, clockVars, operator, machine, stops, sessions,
                             handout, handovers>>
        BY <1>6 DEF handleSaveProduction, clockVars, setupVars
    <2>7. QED
        BY <1>1, <1>2, <2>5, <2>6, RecordStepPage
<1>7. ASSUME NEW i \in DOMAIN stops, discardStop(i) \/ deleteStop(i)
      PROVE  PageInv'
    <2>1. i \in 1..Len(stops) /\ stops[i] \in Stop
        BY <1>2
    <2>2. PICK s \in {[stops[i] EXCEPT !.discarded = TRUE], [stops[i] EXCEPT !.deleted = TRUE]} :
              stops' = [stops EXCEPT ![i] = s]
        BY <1>7 DEF discardStop, deleteStop
    <2>3. s \in Stop
        BY <2>1, <2>2 DEF Stop
    <2>4. stops' \in Seq(Stop)
        BY <1>2, <2>1, <2>2, <2>3, ExceptSeq
    <2>5. Tap /\ UNCHANGED <<now, seen, clockVars, operator, machine, production, sessions,
                             handout, handovers>>
        BY <1>7 DEF discardStop, deleteStop, clockVars, setupVars
    <2>6. QED
        BY <1>1, <1>2, <1>3, <2>4, <2>5, RecordStepPage
<1>8. QED
    BY <1>4, <1>5, <1>6, <1>7

(* The handover is opened, filed and closed. *)
LEMMA HandoverPage ==
    ASSUME PageInv, [Next]_vars, openHandover \/ persist \/ closeHandover
    PROVE  PageInv'
<1>1. BoardInv'
    BY StepBoard DEF PageInv
<1>2. UNCHANGED <<now, shiftId, clearedBefore, window, boardStart, seen, operator, machine,
                  stops, production, sessions>>
    BY DEF openHandover, persist, closeHandover, clockVars, setupVars
<1>3. taps' \in 0..MaxTaps
    <2>1. Tap \/ taps' = taps
        BY DEF openHandover, persist, closeHandover
    <2>2. QED
        BY <2>1, TapFacts DEF PageInv, TypeOK
<1>4. IsFiniteSet(handovers') /\ Filed' /\ handout'.id \in 0..(Cardinality(handovers') + 1)
    <2>1. CASE openHandover
        <3>1. handout' = [report |-> Report, id |-> 0] /\ handovers' = handovers
            BY <2>1 DEF openHandover
        <3>2. Cardinality(handovers) \in Nat
            BY FS_CardinalityType DEF PageInv
        <3>3. QED
            BY <3>1, <3>2 DEF PageInv, Filed
    <2>2. CASE closeHandover
        <3>1. handout' = [report |-> <<>>, id |-> 0] /\ handovers' = handovers
            BY <2>2 DEF closeHandover, Closed
        <3>2. Cardinality(handovers) \in Nat
            BY FS_CardinalityType DEF PageInv
        <3>3. QED
            BY <3>1, <3>2 DEF PageInv, Filed
    <2>3. CASE persist
        <3>1. PICK id : id = IF handout.id = 0 THEN Cardinality(handovers) + 1 ELSE handout.id
            OBVIOUS
        <3>2. PICK filed : filed = [id |-> id, report |-> handout.report]
            OBVIOUS
        <3>3. PICK others : others = {h \in handovers : h.id # id}
            OBVIOUS
        <3>4. /\ handout' = [handout EXCEPT !.id = id] /\ handovers' = others \cup {filed}
            BY <2>3, <3>1, <3>2, <3>3 DEF persist
        <3>5. Cardinality(handovers) \in Nat /\ IsFiniteSet(handovers)
            BY FS_CardinalityType DEF PageInv
        <3>6. IsFiniteSet(others)
            BY <3>3, <3>5, FS_Subset
        <3>7. IsFiniteSet(handovers')
            BY <3>4, <3>6, FS_AddElement
        <3>8. handout'.id = id /\ handout'.report = handout.report
              /\ handout' = [report |-> handout'.report, id |-> handout'.id]
            BY <3>4 DEF PageInv, Filed
        <3>10. \/ handovers' = handovers
               \/ /\ handout.id = 0 /\ id = Cardinality(handovers) + 1
                  /\ handovers' = handovers \cup {filed}
            <4>1. CASE handout.id = 0
                <5>1. \A h \in handovers : h.id # id
                    BY <3>1, <3>5, <4>1 DEF PageInv, Filed
                <5>2. QED
                    BY <3>1, <3>3, <3>4, <4>1, <5>1
            <4>2. CASE handout.id # 0
                BY <3>1, <3>2, <3>3, <3>4, <4>2 DEF PageInv, Filed
            <4>3. QED
                BY <4>1, <4>2
        <3>12. /\ Cardinality(handovers') \in Nat
               /\ \A h \in handovers' : h.id \in 1..Cardinality(handovers')
               /\ id \in 0..(Cardinality(handovers') + 1)
            <4>1. CASE handovers' = handovers
                BY <3>1, <3>5, <4>1 DEF PageInv, Filed, TypeOK
            <4>2. CASE /\ handout.id = 0 /\ id = Cardinality(handovers) + 1
                       /\ handovers' = handovers \cup {filed}
                <5>1. filed \notin handovers
                    BY <3>2, <3>5, <4>2 DEF PageInv, Filed
                <5>2. Cardinality(handovers') = Cardinality(handovers) + 1
                    BY <3>5, <4>2, <5>1, FS_AddElement
                <5>3. QED
                    BY <3>2, <3>5, <4>2, <5>2 DEF PageInv, Filed
            <4>3. QED
                BY <3>10, <4>1, <4>2
        <3>9. Filed'
            <4>1. \A h \in others : h.id # id
                BY <3>3
            <4>2. filed.id = id
                BY <3>2
            <4>3. {h \in handovers' : h.id # id} = others
                BY <3>4, <4>1, <4>2
            <4>4. QED
                BY <3>2, <3>4, <3>8, <3>12, <4>3 DEF Filed
        <3>11. QED
            BY <3>7, <3>8, <3>9, <3>12
    <2>4. QED
        BY <2>1, <2>2, <2>3
<1>5. QED
    BY <1>1, <1>2, <1>3, <1>4 DEF PageInv, TypeOK

(* In every reachable state the board is that of its window, and what is    *)
(* filed of an open dialog's handover is what the dialog shows.            *)
THEOREM PageInvariance == Spec => []PageInv
<1>1. PageInv /\ [Next]_vars => PageInv'
    BY ClockPage, RecordPage, HandoverPage DEF Next
<1>2. QED
    BY <1>1, InitPage, PTL DEF Spec

(* Every variable of the board keeps its type. *)
THEOREM TypeCorrect == Spec => []TypeOK
<1>1. PageInv => TypeOK
    BY DEF PageInv
<1>2. QED
    BY <1>1, PageInvariance, PTL

(* However often a handover is sent, one record of it is filed (persist,    *)
(* savedRef).                                                               *)
THEOREM HandoverFiledOnce == Spec => FiledOnce
<1>1. PageInv /\ [Next]_vars => [handout.id # 0 => handovers' = handovers]_vars
    <2> SUFFICES ASSUME PageInv, [Next]_vars, handout.id # 0
                 PROVE  handovers' = handovers
        OBVIOUS
    <2>1. CASE persist
        BY <2>1 DEF persist, PageInv, Filed
    <2>2. CASE ~persist
        BY <2>2 DEF Next, vars, Tick, slowTick, startNewShift, selectShift, LogStop, Arrive,
           handleSaveProduction, discardStop, deleteStop, openHandover, closeHandover
    <2>3. QED
        BY <2>1, <2>2
<1>2. QED
    BY <1>1, PageInvariance, PTL DEF Spec, FiledOnce

-----------------------------------------------------------------------------
(* The supervisor's week.                                                  *)

(* No stop begins in the future. *)
StopsArePast == \A i \in DOMAIN stops : stops[i].start <= now

(* Each stop of the last seven days is in one bar of the chart. *)
OneBarEach ==
    \A i \in Kept : stops[i].start >= Midnight(now) - 6 * Day =>
        \E d \in 0..6 : \A e \in 0..6 : i \in TrendBar(e) <=> e = d

(* A day back is a midnight back. *)
LEMMA DaysBack ==
    ASSUME NEW n \in Int, NEW d \in Nat, NEW q \in Int, Midnight(n) = Day * q
    PROVE  Midnight(n - d * Day) = Day * (q - d)
<1>1. Day \in Nat \ {0}
    BY ClockAssumption
<1>2. PICK b \in Int, r \in 0..(Day - 1) : b = Day * q /\ n = b + r
    BY <1>1, DaysAndTime
<1>3. PICK k \in Int, m \in Int : k = d * Day /\ m = n - k
    BY <1>1
<1>4. PICK p, a \in Int, u \in 0..(Day - 1) : a = Day * p /\ m = a + u /\ Midnight(m) = a
    BY DaysAndTime
<1>5. Day * (q - d) = b - k
    BY <1>1, <1>2, <1>3
<1>6. Day * (q - d - p) = b - k - a
    BY <1>1, <1>2, <1>3, <1>4
<1>7. q - d - p = 0
    <2>1. m = b + r - k
        BY <1>2, <1>3
    <2>2. b - k - a = u - r
        BY <1>4, <2>1
    <2>3. -Day < u - r /\ u - r < Day
        BY <1>1
    <2>4. -Day < Day * (q - d - p) /\ Day * (q - d - p) < Day
        BY <1>6, <2>2, <2>3
    <2>5. QED
        BY <2>4, NoMultiple
<1>8. p = q - d
    BY <1>7
<1>9. Midnight(m) = Day * (q - d)
    BY <1>4, <1>8
<1>10. QED
    BY <1>3, <1>9

(* The day of an instant is the one whose midnights it is between. *)
LEMMA DayOf ==
    ASSUME NEW n \in Int, NEW p \in Int, Midnight(n) = Day * p, NEW k \in Int
    PROVE  (Day * k <= n /\ n < Day * k + Day) <=> k = p
<1>1. Day \in Nat \ {0}
    BY ClockAssumption
<1>2. PICK a \in Int, b \in Int : a = Day * p /\ b = Day * k
    BY <1>1
<1>3. a <= n /\ n < a + Day
    BY <1>2, MidnightFacts
<1>4. Day * (k - p) = b - a
    BY <1>1, <1>2
<1>5. ASSUME b <= n, n < b + Day
      PROVE  k = p
    <2>1. -Day < b - a /\ b - a < Day
        BY <1>1, <1>3, <1>5
    <2>2. k - p = 0
        BY <1>4, <2>1, NoMultiple
    <2>3. QED
        BY <2>2
<1>6. k = p => b = a
    BY <1>2
<1>7. QED
    BY <1>2, <1>3, <1>5, <1>6

(* No step logs a stop that has yet to begin. *)
LEMMA StopsStayPast ==
    ASSUME PageInv, StopsArePast, [Next]_vars
    PROVE  StopsArePast'
<1>1. stops \in Seq(Stop) /\ now \in Nat /\ \A i \in DOMAIN stops : stops[i].start \in Int
    <2>1. stops \in Seq(Stop) /\ now \in Nat
        BY DEF PageInv, BoardInv, TypeOK
    <2>2. \A i \in DOMAIN stops : stops[i] \in Stop
        BY <2>1
    <2>3. QED
        BY <2>1, <2>2 DEF Stop
<1>2. now' \in Nat /\ now <= now'
    <2>1. now' = now \/ now' = now + 1
        BY BoardSteps DEF Tick, slowTick, startNewShift, selectShift
    <2>2. QED
        BY <1>1, <2>1
<1>3. CASE stops' = stops
    BY <1>1, <1>2, <1>3 DEF StopsArePast
<1>4. ASSUME NEW name \in Operators, NEW m \in Machines, NEW d \in Durations,
             LogStop(name, m, d)
      PROVE  StopsArePast'
    <2>1. PICK s : s = [operator |-> name, machine |-> m, duration |-> d,
                        start |-> now - d, logged |-> now,
                        discarded |-> FALSE, deleted |-> FALSE]
        OBVIOUS
    <2>2. s \in Stop /\ s.start <= now
        BY <1>1, <2>1, BoardAssumption DEF Stop
    <2>3. stops' = Append(stops, s) /\ now' = now
        BY <1>4, <2>1 DEF LogStop
    <2>4. \A i \in DOMAIN stops' : (i \in DOMAIN stops /\ stops'[i] = stops[i]) \/ stops'[i] = s
        BY <1>1, <2>2, <2>3
    <2>5. QED
        BY <2>2, <2>3, <2>4 DEF StopsArePast
<1>5. ASSUME NEW i \in DOMAIN stops, discardStop(i) \/ deleteStop(i)
      PROVE  StopsArePast'
    <2>1. i \in 1..Len(stops) /\ stops[i] \in Stop
        BY <1>1
    <2>2. PICK s \in {[stops[i] EXCEPT !.discarded = TRUE], [stops[i] EXCEPT !.deleted = TRUE]} :
              stops' = [stops EXCEPT ![i] = s]
        BY <1>5 DEF discardStop, deleteStop
    <2>3. s.start = stops[i].start
        BY <2>1, <2>2 DEF Stop
    <2>4. \A j \in DOMAIN stops' : j \in DOMAIN stops /\ stops'[j].start = stops[j].start
        BY <2>1, <2>2, <2>3
    <2>5. now' = now
        BY <1>5 DEF discardStop, deleteStop
    <2>6. QED
        BY <2>4, <2>5 DEF StopsArePast
<1>6. \/ stops' = stops
      \/ \E name \in Operators, m \in Machines, d \in Durations : LogStop(name, m, d)
      \/ \E i \in DOMAIN stops : discardStop(i) \/ deleteStop(i)
    BY DEF Next, vars, Tick, slowTick, startNewShift, selectShift, Arrive,
       handleSaveProduction, openHandover, persist, closeHandover
<1>7. QED
    BY <1>3, <1>4, <1>5, <1>6

(* A stop of the last seven days is in the bar of its day and in no other,  *)
(* whatever the time and however far back it was dated (trend).            *)
THEOREM EachStopHasOneBar == Spec => []OneBarEach
<1>1. PageInv /\ StopsArePast => OneBarEach
    <2> SUFFICES ASSUME PageInv, StopsArePast,
                        NEW i \in Kept, stops[i].start >= Midnight(now) - 6 * Day
                 PROVE  \E d \in 0..6 : \A e \in 0..6 : i \in TrendBar(e) <=> e = d
        BY DEF OneBarEach
    <2>1. Day \in Nat \ {0} /\ now \in Int
        BY ClockAssumption DEF PageInv, BoardInv
    <2>2. i \in DOMAIN stops /\ stops[i] \in Stop
        BY DEF Kept, PageInv, TypeOK
    <2>3. PICK n \in Int : n = stops[i].start
        BY <2>2 DEF Stop
    <2>4. n <= now /\ n >= Midnight(now) - 6 * Day
        BY <2>2, <2>3 DEF StopsArePast
    <2>5. PICK q, b \in Int : b = Day * q /\ Midnight(now) = b
        BY <2>1, DaysAndTime
    <2>6. PICK p, a \in Int : a = Day * p /\ Midnight(n) = a
        BY DaysAndTime
    <2>7. a <= n /\ n < a + Day /\ b <= now /\ now < b + Day
        BY <2>1, <2>5, <2>6, MidnightFacts
    <2>8. Day * (q - p) = b - a
        BY <2>1, <2>5, <2>6
    <2>9. -Day < Day * (q - p) /\ Day * (q - p) < 7 * Day
        BY <2>1, <2>4, <2>5, <2>7, <2>8
    <2>10. q - p \in 0..6
        <3>1. CASE q - p <= -1
            <4>1. Day * (-1 - (q - p)) >= 0
                BY <2>1, <3>1
            <4>2. Day * (-1 - (q - p)) = -Day - Day * (q - p)
                BY <2>1
            <4>3. QED
                BY <2>1, <2>9, <4>1, <4>2
        <3>2. CASE q - p >= 7
            <4>1. Day * (q - p - 7) >= 0
                BY <2>1, <3>2
            <4>2. Day * (q - p - 7) = Day * (q - p) - 7 * Day
                BY <2>1
            <4>3. QED
                BY <2>1, <2>9, <4>1, <4>2
        <3>3. QED
            BY <3>1, <3>2
    <2>11. ASSUME NEW e \in 0..6
           PROVE  i \in TrendBar(e) <=> e = q - p
        <3>1. Midnight(now) = Day * q /\ Midnight(n) = Day * p
            BY <2>5, <2>6
        <3>2. PICK m : m = Midnight(now - e * Day)
            OBVIOUS
        <3>3. m = Day * (q - e)
            <4>1. e \in Nat /\ q \in Int /\ now \in Int
                BY <2>1
            <4>2. QED
                BY <3>1, <3>2, <4>1, DaysBack
        <3>4. i \in TrendBar(e) <=> m <= n /\ n < m + Day
            BY <2>3, <3>2 DEF TrendBar
        <3>5. (m <= n /\ n < m + Day) <=> q - e = p
            BY <3>1, <3>3, DayOf
        <3>6. QED
            BY <3>4, <3>5
    <2>12. QED
        BY <2>10, <2>11
<1>2. Init => StopsArePast
    BY DEF Init, StopsArePast
<1>3. QED
    BY <1>1, <1>2, StopsStayPast, PageInvariance, PTL DEF Spec

-----------------------------------------------------------------------------
(* Sums.  The library's induction theorems take operators; a set in their   *)
(* place is within reach of the provers: the least counterexample.         *)

(* A set of natural numbers has a least element. *)
LEMMA LeastNumber ==
    ASSUME NEW T, T \subseteq Nat, T # {}
    PROVE  \E n \in T : \A m \in T : n <= m
<1> DEFINE R == OpToRel(<, Nat)
<1>1. IsWellFoundedOn(R, Nat)
    BY NatLessThanWellFounded, Zenon
<1> HIDE DEF R
<1>2. PICK n \in T : \A m \in T : ~(<<m, n>> \in R)
    BY <1>1, WFMin
<1>3. \A m \in T : m < n => <<m, n>> \in R
    BY DEF R, OpToRel
<1>4. \A m \in T : n <= m
    <2> SUFFICES ASSUME NEW m \in T PROVE n <= m
        OBVIOUS
    <2>1. ~(m < n)
        BY <1>2, <1>3
    <2>2. m \in Nat /\ n \in Nat
        OBVIOUS
    <2> QED BY <2>1, <2>2
<1> QED BY <1>4

(* Induction on a set's members. *)
LEMMA SetInduction ==
    ASSUME NEW D, IsFiniteSet(D), NEW Good,
           \A S \in SUBSET D : (\A x \in S : S \ {x} \in Good) => S \in Good
    PROVE  SUBSET D \subseteq Good
<1> SUFFICES ASSUME NEW B \in SUBSET D, B \notin Good PROVE FALSE
    OBVIOUS
<1> DEFINE Bad == {S \in SUBSET D : S \notin Good}
           T == {Cardinality(S) : S \in Bad}
<1>1. \A S \in SUBSET D : IsFiniteSet(S) /\ Cardinality(S) \in Nat
    BY FS_Subset, FS_CardinalityType
<1>2. T \subseteq Nat /\ T # {}
    BY <1>1
<1>3. PICK n \in T : \A m \in T : n <= m
    BY <1>2, LeastNumber
<1>4. PICK S \in Bad : Cardinality(S) = n
    OBVIOUS
<1>5. \A x \in S : Cardinality(S \ {x}) = n - 1
    BY <1>1, <1>4, FS_RemoveElement
<1>6. \A x \in S : S \ {x} \notin Bad
    <2> SUFFICES ASSUME NEW x \in S, S \ {x} \in Bad PROVE FALSE
        OBVIOUS
    <2>1. Cardinality(S \ {x}) \in T
        OBVIOUS
    <2> HIDE DEF T, Bad
    <2>2. n \in Nat /\ n <= n - 1
        BY <1>2, <1>3, <1>5, <2>1
    <2> QED BY <2>2
<1> QED BY <1>4, <1>6

Pick(S) == CHOOSE x \in S : TRUE
IsTotal(g, f, D) ==
    g = [S \in SUBSET D |-> IF S = {} THEN 0 ELSE f[Pick(S)] + g[S \ {Pick(S)}]]

(* The sums of f over the sets of at most n members of D. *)
Level(D, n) == {S \in SUBSET D : Cardinality(S) <= n}
IsTotalUpTo(g, f, D, n) ==
    g = [S \in Level(D, n) |-> IF S = {} THEN 0 ELSE f[Pick(S)] + g[S \ {Pick(S)}]]

(* The function that the library's fold chooses is there. *)
LEMMA TotalExists ==
    ASSUME NEW D, IsFiniteSet(D), NEW f
    PROVE  \E g : IsTotal(g, f, D)
<1> DEFINE G == {n \in Nat : \E g : IsTotalUpTo(g, f, D, n)}
<1>1. \A S \in SUBSET D : IsFiniteSet(S) /\ Cardinality(S) \in Nat
                           /\ (Cardinality(S) = 0 <=> S = {})
    BY FS_Subset, FS_CardinalityType, FS_EmptySet
<1>2. 0 \in G
    <2>1. PICK g : g = [S \in Level(D, 0) |-> 0]
        OBVIOUS
    <2>2. \A S \in Level(D, 0) : S = {}
        BY <1>1 DEF Level
    <2>3. g = [S \in Level(D, 0) |-> IF S = {} THEN 0 ELSE f[Pick(S)] + g[S \ {Pick(S)}]]
        BY <2>1, <2>2
    <2> QED BY <2>3 DEF IsTotalUpTo
<1>3. ASSUME NEW n \in G PROVE n + 1 \in G
    <2>1. PICK g : IsTotalUpTo(g, f, D, n)
        OBVIOUS
    <2>2. PICK h : h = [S \in Level(D, n + 1) |->
                           IF S = {} THEN 0 ELSE f[Pick(S)] + g[S \ {Pick(S)}]]
        OBVIOUS
    <2>3. \A S \in Level(D, n) : S \in Level(D, n + 1) /\ h[S] = g[S]
        <3>1. \A S \in Level(D, n) : S \in Level(D, n + 1)
            BY <1>1 DEF Level
        <3> QED BY <2>1, <2>2, <3>1 DEF IsTotalUpTo
    <2>4. ASSUME NEW S \in Level(D, n + 1), S # {}
          PROVE  h[S \ {Pick(S)}] = g[S \ {Pick(S)}]
        <3>1. S \in SUBSET D /\ Pick(S) \in S
            BY <2>4 DEF Level, Pick
        <3>2. Cardinality(S \ {Pick(S)}) = Cardinality(S) - 1
            BY <1>1, <3>1, FS_RemoveElement
        <3>3. Cardinality(S) \in Nat /\ Cardinality(S) <= n + 1 /\ n \in Nat
            BY <1>1, <3>1 DEF Level
        <3>4. S \ {Pick(S)} \in Level(D, n)
            BY <3>1, <3>2, <3>3 DEF Level
        <3> QED BY <2>3, <3>4
    <2>5. h = [S \in Level(D, n + 1) |->
                  IF S = {} THEN 0 ELSE f[Pick(S)] + h[S \ {Pick(S)}]]
        BY <2>2, <2>4
    <2> QED BY <2>5 DEF IsTotalUpTo
<1> HIDE DEF G
<1>4. ASSUME NEW n \in Nat, n \notin G PROVE FALSE
    <2>1. PICK k \in Nat \ G : \A m \in Nat \ G : k <= m
        BY <1>4, LeastNumber
    <2>2. k - 1 \in Nat /\ k - 1 \in G
        BY <1>2, <2>1
    <2>3. (k - 1) + 1 \in G
        BY <1>3, <2>2
    <2> QED BY <2>1, <2>3
<1>5. PICK n \in Nat : n = Cardinality(D)
    BY FS_CardinalityType
<1>6. Level(D, n) = SUBSET D
    BY <1>1, <1>5, FS_Subset DEF Level
<1>7. PICK g : IsTotalUpTo(g, f, D, n)
    BY <1>4 DEF G
<1> QED BY <1>6, <1>7 DEF IsTotalUpTo, IsTotal

(* It is a sum: whichever member is taken out first. *)
LEMMA TotalFacts ==
    ASSUME NEW D, IsFiniteSet(D), NEW f \in [D -> Int], NEW g, IsTotal(g, f, D)
    PROVE  /\ g[{}] = 0
           /\ \A S \in SUBSET D : g[S] \in Int
           /\ \A S \in SUBSET D : \A x \in S : g[S] = f[x] + g[S \ {x}]
<1>1. g[{}] = 0
    BY DEF IsTotal
<1>2. \A S \in SUBSET D : S # {} =>
          /\ Pick(S) \in S /\ f[Pick(S)] \in Int
          /\ g[S] = f[Pick(S)] + g[S \ {Pick(S)}]
    <2>1. \A S \in SUBSET D : S # {} => Pick(S) \in S
        BY DEF Pick
    <2> QED BY <2>1 DEF IsTotal
<1>3. \A S \in SUBSET D : g[S] \in Int
    <2> DEFINE Good == {S \in SUBSET D : g[S] \in Int}
    <2>1. ASSUME NEW S \in SUBSET D, \A x \in S : S \ {x} \in Good
          PROVE  S \in Good
        <3>1. CASE S = {}
            BY <1>1, <3>1
        <3>2. CASE S # {}
            <4>1. PICK p : p = Pick(S)
                OBVIOUS
            <4>2. p \in S /\ f[p] \in Int /\ g[S] = f[p] + g[S \ {p}]
                BY <1>2, <3>2, <4>1
            <4>3. g[S \ {p}] \in Int
                BY <2>1, <4>2
            <4> QED BY <4>2, <4>3
        <3> QED BY <3>1, <3>2
    <2> HIDE DEF Good
    <2>2. SUBSET D \subseteq Good
        BY <2>1, SetInduction
    <2> QED BY <2>2 DEF Good
<1>4. \A S \in SUBSET D : \A x \in S : g[S] = f[x] + g[S \ {x}]
    <2> DEFINE Good == {S \in SUBSET D : \A x \in S : g[S] = f[x] + g[S \ {x}]}
    <2>1. ASSUME NEW S \in SUBSET D, \A x \in S : S \ {x} \in Good
          PROVE  S \in Good
        <3> SUFFICES ASSUME NEW x \in S PROVE g[S] = f[x] + g[S \ {x}]
            OBVIOUS
        <3>1. PICK p : p = Pick(S)
            OBVIOUS
        <3>2. p \in S /\ g[S] = f[p] + g[S \ {p}]
            BY <1>2, <3>1
        <3>3. CASE x = p
            BY <3>2, <3>3
        <3>4. CASE x # p
            <4>1. g[S \ {p}] = f[x] + g[(S \ {p}) \ {x}]
                BY <2>1, <3>2, <3>4
            <4>2. g[S \ {x}] = f[p] + g[(S \ {x}) \ {p}]
                BY <2>1, <3>2, <3>4
            <4>3. (S \ {p}) \ {x} = (S \ {x}) \ {p}
                OBVIOUS
            <4>4. f[x] \in Int /\ f[p] \in Int /\ g[(S \ {x}) \ {p}] \in Int
                BY <1>3, <3>2
            <4>5. PICK a \in Int, b \in Int, c \in Int :
                     a = f[x] /\ b = f[p] /\ c = g[(S \ {x}) \ {p}]
                BY <4>4
            <4>6. g[S] = b + (a + c) /\ g[S \ {x}] = b + c
                BY <3>2, <4>1, <4>2, <4>3, <4>5
            <4>7. g[S] = a + g[S \ {x}]
                BY <4>6
            <4> QED BY <4>5, <4>7
        <3> QED BY <3>3, <3>4
    <2> HIDE DEF Good
    <2>2. SUBSET D \subseteq Good
        BY <2>1, SetInduction
    <2> QED BY <2>2 DEF Good
<1> QED BY <1>1, <1>3, <1>4

(* What the library's sum is: *)
LEMMA SumIsRec ==
    ASSUME NEW f, NEW S
    PROVE  SumFunctionOnSet(f, S) = (CHOOSE g : IsTotal(g, f, S))[S]
BY DEF SumFunctionOnSet, FoldFunctionOnSet, MapThenFoldSet, IsTotal, Pick

(* Sums of numbers over the subsets of a finite set. *)
LEMMA SumRules ==
    ASSUME NEW D, IsFiniteSet(D), NEW f \in [D -> Int]
    PROVE  /\ SumFunctionOnSet(f, {}) = 0
           /\ \A S \in SUBSET D : SumFunctionOnSet(f, S) \in Int
           /\ \A S \in SUBSET D : \A x \in S :
                 SumFunctionOnSet(f, S) = f[x] + SumFunctionOnSet(f, S \ {x})
<1>1. PICK g : IsTotal(g, f, D)
    BY TotalExists
<1>2. ASSUME NEW S \in SUBSET D PROVE SumFunctionOnSet(f, S) = g[S]
    <2>1. IsFiniteSet(S)
        BY FS_Subset
    <2>2. PICK h : h = CHOOSE k : IsTotal(k, f, S)
        OBVIOUS
    <2>3. IsTotal(h, f, S) /\ SumFunctionOnSet(f, S) = h[S]
        BY <2>1, <2>2, TotalExists, SumIsRec
    <2> DEFINE Good == {B \in SUBSET S : h[B] = g[B]}
    <2>4. ASSUME NEW B \in SUBSET S, \A x \in B : B \ {x} \in Good
          PROVE  B \in Good
        <3>1. B \in SUBSET D
            OBVIOUS
        <3>2. B # {} => Pick(B) \in B
            BY DEF Pick
        <3>3. /\ g[B] = IF B = {} THEN 0 ELSE f[Pick(B)] + g[B \ {Pick(B)}]
              /\ h[B] = IF B = {} THEN 0 ELSE f[Pick(B)] + h[B \ {Pick(B)}]
            BY <1>1, <2>3, <3>1 DEF IsTotal
        <3> QED BY <2>4, <3>2, <3>3
    <2> HIDE DEF Good
    <2>5. SUBSET S \subseteq Good
        BY <2>1, <2>4, SetInduction
    <2> QED BY <2>3, <2>5 DEF Good
<1>3. /\ g[{}] = 0
      /\ \A S \in SUBSET D : g[S] \in Int
      /\ \A S \in SUBSET D : \A x \in S : g[S] = f[x] + g[S \ {x}]
    BY <1>1, TotalFacts
<1>4. \A S \in SUBSET D : \A x \in S : S \ {x} \in SUBSET D
    OBVIOUS
<1>5. {} \in SUBSET D
    OBVIOUS
<1> QED BY <1>2, <1>3, <1>4, <1>5

(* A member is taken out of a sum. *)
LEMMA SumStep ==
    ASSUME NEW D, IsFiniteSet(D), NEW f \in [D -> Int], NEW S \in SUBSET D, NEW x \in S
    PROVE  /\ f[x] \in Int /\ SumFunctionOnSet(f, S) \in Int
           /\ SumFunctionOnSet(f, S \ {x}) \in Int
           /\ SumFunctionOnSet(f, S) = f[x] + SumFunctionOnSet(f, S \ {x})
<1>1. S \ {x} \in SUBSET D /\ x \in D
    OBVIOUS
<1> QED BY <1>1, SumRules

(* A sum over two disjoint sets is the sum of the two. *)
LEMMA SumDisjoint ==
    ASSUME NEW D, IsFiniteSet(D), NEW f \in [D -> Int],
           NEW A \in SUBSET D, NEW B \in SUBSET D, A \cap B = {}
    PROVE  SumFunctionOnSet(f, A \cup B) = SumFunctionOnSet(f, A) + SumFunctionOnSet(f, B)
<1> DEFINE Good == {C \in SUBSET B :
              SumFunctionOnSet(f, A \cup C) = SumFunctionOnSet(f, A) + SumFunctionOnSet(f, C)}
<1>1. ASSUME NEW C \in SUBSET B, \A x \in C : C \ {x} \in Good
      PROVE  C \in Good
    <2>1. CASE C = {}
        <3>1. A \cup C = A
            BY <2>1
        <3>2. PICK a \in Int : a = SumFunctionOnSet(f, A)
            BY SumRules
        <3>3. SumFunctionOnSet(f, C) = 0
            BY <2>1, SumRules
        <3>4. a + 0 = a
            OBVIOUS
        <3>5. SumFunctionOnSet(f, A \cup C) = SumFunctionOnSet(f, A) + SumFunctionOnSet(f, C)
            BY <3>1, <3>2, <3>3, <3>4
        <3> QED BY <3>5
    <2>2. CASE C # {}
        <3>1. PICK x : x \in C
            BY <2>2
        <3>2. (A \cup C) \ {x} = A \cup (C \ {x}) /\ x \in A \cup C
              /\ A \cup C \in SUBSET D /\ C \in SUBSET D /\ C \ {x} \in SUBSET D /\ x \in D
            BY <3>1
        <3>3. PICK a \in Int, c \in Int, v \in Int :
                  a = SumFunctionOnSet(f, A) /\ c = SumFunctionOnSet(f, C \ {x}) /\ v = f[x]
            BY <3>2, SumRules
        <3>4. SumFunctionOnSet(f, A \cup (C \ {x})) = a + c
            BY <1>1, <3>1, <3>3
        <3>5. SumFunctionOnSet(f, A \cup C) = v + (a + c)
            BY <3>2, <3>3, <3>4, SumRules
        <3>6. SumFunctionOnSet(f, C) = v + c
            BY <3>1, <3>2, <3>3, SumRules
        <3>7. v + (a + c) = a + (v + c)
            OBVIOUS
        <3> QED BY <3>3, <3>5, <3>6, <3>7
    <2> QED BY <2>1, <2>2
<1> HIDE DEF Good
<1>2. IsFiniteSet(B)
    BY FS_Subset
<1>3. SUBSET B \subseteq Good
    BY <1>1, <1>2, SetInduction
<1> QED BY <1>3 DEF Good

(* A sum taken apart by a key adds up. *)
LEMMA SumByKey ==
    ASSUME NEW D, IsFiniteSet(D), NEW f \in [D -> Int], NEW S \in SUBSET D,
           NEW K, IsFiniteSet(K), NEW key \in [S -> K], NEW h,
           h = [k \in K |-> SumFunctionOnSet(f, {x \in S : key[x] = k})]
    PROVE  SumFunction(h) = SumFunctionOnSet(f, S)
<1>1. h \in [K -> Int]
    <2>1. \A k \in K : {x \in S : key[x] = k} \in SUBSET D
        OBVIOUS
    <2>2. \A k \in K : SumFunctionOnSet(f, {x \in S : key[x] = k}) \in Int
        BY <2>1, SumRules
    <2> QED BY <2>2
<1>6. \A L \in SUBSET K : \A k \in L :
          SumFunctionOnSet(h, L) = h[k] + SumFunctionOnSet(h, L \ {k})
    <2>1. IsFiniteSet(K) /\ h \in [K -> Int]
        BY <1>1
    <2> SUFFICES ASSUME NEW L \in SUBSET K, NEW k \in L
                 PROVE  SumFunctionOnSet(h, L) = h[k] + SumFunctionOnSet(h, L \ {k})
        OBVIOUS
    <2>2. SumFunctionOnSet(h, L) = h[k] + SumFunctionOnSet(h, L \ {k})
         BY ONLY <2>1, SumStep, L \in SUBSET K, k \in L
    <2> QED BY <2>2
<1> DEFINE Good == {L \in SUBSET K :
              SumFunctionOnSet(h, L) = SumFunctionOnSet(f, {x \in S : key[x] \in L})}
<1>2. ASSUME NEW L \in SUBSET K, \A k \in L : L \ {k} \in Good
      PROVE  L \in Good
    <2>1. CASE L = {}
        <3>1. {x \in S : key[x] \in L} = {}
            BY <2>1
        <3>2. SumFunctionOnSet(f, {}) = 0
            BY SumRules
        <3>3. SumFunctionOnSet(h, {}) = 0
            BY <1>1, SumRules
        <3> QED BY <2>1, <3>1, <3>2, <3>3
    <2>2. CASE L # {}
        <3>1. PICK k : k \in L
            BY <2>2
        <3>2. PICK A : A = {x \in S : key[x] = k}
            OBVIOUS
        <3>3. PICK B : B = {x \in S : key[x] \in L \ {k}}
            OBVIOUS
        <3>4. A \in SUBSET D /\ B \in SUBSET D /\ A \cap B = {}
              /\ A \cup B = {x \in S : key[x] \in L}
            BY <3>1, <3>2, <3>3
        <3>5. SumFunctionOnSet(f, A \cup B) = SumFunctionOnSet(f, A) + SumFunctionOnSet(f, B)
            BY <3>4, SumDisjoint
        <3>6. SumFunctionOnSet(h, L) = h[k] + SumFunctionOnSet(h, L \ {k})
            BY <1>6, <3>1
        <3>7. h[k] = SumFunctionOnSet(f, A)
            BY <3>1, <3>2
        <3>8. SumFunctionOnSet(h, L \ {k}) = SumFunctionOnSet(f, B)
            BY <1>2, <3>1, <3>3
        <3>9. SumFunctionOnSet(h, L) = SumFunctionOnSet(f, A \cup B)
            BY <3>5, <3>6, <3>7, <3>8
        <3> QED BY <3>4, <3>9
    <2> QED BY <2>1, <2>2
<1> HIDE DEF Good
<1>3. K \in Good
    BY <1>2, SetInduction
<1>4. {x \in S : key[x] \in K} = S
    OBVIOUS
<1>5. DOMAIN h = K
    BY <1>1
<1> QED BY <1>3, <1>4, <1>5 DEF Good, SumFunction

(* A sum is bounded by what its members add up to step by step. *)
LEMMA SumBound ==
    ASSUME NEW n \in Nat, NEW D, D = 1..n, NEW f \in [D -> Int], NEW S \in SUBSET D,
           NEW b \in [0..n -> Int], b[0] = 0,
           \A i \in 1..n : b[i - 1] <= b[i] /\ (i \in S => b[i - 1] + f[i] <= b[i])
    PROVE  SumFunctionOnSet(f, S) <= b[n]
<1>1. IsFiniteSet(D) /\ f \in [D -> Int]
    BY FS_Interval
<1> DEFINE First(i) == S \cap (1..i)
<1>2. \A j \in S : j \in Int /\ j \in 1..n
    OBVIOUS
<1>3. \A i \in 0..n : First(i) \in SUBSET D
    BY <1>2
<1>4. PICK u : u = [i \in 0..n |-> SumFunctionOnSet(f, First(i))]
    OBVIOUS
<1>11. \A T \in SUBSET D : \A i \in T :
          SumFunctionOnSet(f, T) = f[i] + SumFunctionOnSet(f, T \ {i})
    <2> SUFFICES ASSUME NEW T \in SUBSET D, NEW i \in T
                 PROVE  SumFunctionOnSet(f, T) = f[i] + SumFunctionOnSet(f, T \ {i})
        OBVIOUS
    <2>1. SumFunctionOnSet(f, T) = f[i] + SumFunctionOnSet(f, T \ {i})
        BY ONLY <1>1, SumStep, T \in SUBSET D, i \in T
    <2> QED BY <2>1
<1>5. u \in [0..n -> Int]
    BY <1>1, <1>3, <1>4, SumRules
<1>6. u[0] = 0
    <2>1. First(0) = {}
        BY <1>2
    <2>2. SumFunctionOnSet(f, {}) = 0
        BY <1>1, SumRules
    <2> QED BY <1>4, <2>1, <2>2
<1>7. ASSUME NEW i \in 1..n
      PROVE  u[i] = u[i - 1] + (IF i \in S THEN f[i] ELSE 0)
    <2>1. i - 1 \in 0..n /\ i \in 0..n
        OBVIOUS
    <2>2. CASE i \in S
        <3>1. First(i) \ {i} = First(i - 1) /\ i \in First(i)
            <4>1. \A j \in 1..i : j = i \/ j \in 1..(i - 1)
                OBVIOUS
            <4>2. \A j \in 1..(i - 1) : j \in 1..i /\ j # i
                OBVIOUS
            <4>3. i \in 1..i
                OBVIOUS
            <4>4. First(i) \ {i} = First(i - 1)
                BY <4>1, <4>2
            <4> QED BY <2>2, <4>3, <4>4
        <3>2. SumFunctionOnSet(f, First(i)) = f[i] + SumFunctionOnSet(f, First(i) \ {i})
            BY <1>3, <1>11, <2>1, <3>1
        <3>3. u[i] = f[i] + u[i - 1]
            BY <1>4, <2>1, <3>1, <3>2
        <3>4. PICK x \in Int, y \in Int : x = f[i] /\ y = u[i - 1]
            BY <1>5, <2>1
        <3> QED BY <2>2, <3>3, <3>4
    <2>3. CASE i \notin S
        <3>1. First(i) = First(i - 1)
            BY <1>2, <2>3
        <3>2. u[i] = u[i - 1]
            BY <1>4, <2>1, <3>1
        <3>3. PICK y \in Int : y = u[i - 1]
            BY <1>5, <2>1
        <3> QED BY <2>3, <3>2, <3>3
    <2> QED BY <2>2, <2>3
<1>8. First(n) = S
    BY <1>2
<1> HIDE DEF First
<1> DEFINE Bad == {i \in 0..n : ~(u[i] <= b[i])}
<1>9. ASSUME Bad # {} PROVE FALSE
    <2>1. Bad \subseteq Nat
        OBVIOUS
    <2> HIDE DEF Bad
    <2>2. PICK i \in Bad : \A m \in Bad : i <= m
        BY <1>9, <2>1, LeastNumber
    <2> USE DEF Bad
    <2>3. i \in 0..n /\ ~(u[i] <= b[i])
        BY <2>2
    <2>4. i # 0
        BY <1>6, <2>3
    <2>5. i \in 1..n /\ i - 1 \in 0..n /\ ~(i <= i - 1)
        BY <2>3, <2>4
    <2>6. u[i - 1] <= b[i - 1]
        BY <2>2, <2>5
    <2>7. PICK v \in Int, w \in Int, c \in Int, d \in Int, x \in Int :
              v = u[i - 1] /\ w = u[i] /\ c = b[i - 1] /\ d = b[i] /\ x = f[i]
        BY <1>5, <2>5
    <2>8. w = v + (IF i \in S THEN x ELSE 0) /\ v <= c /\ ~(w <= d)
          /\ c <= d /\ (i \in S => c + x <= d)
        BY <1>7, <2>3, <2>5, <2>6, <2>7
    <2>9. CASE i \in S
        BY <2>8, <2>9
    <2>10. CASE i \notin S
        BY <2>8, <2>10
    <2> QED BY <2>9, <2>10
<1>10. u[n] <= b[n]
    BY <1>9
<1> QED BY <1>4, <1>8, <1>10

-----------------------------------------------------------------------------
(* The manned time. *)

(* Where a span ends, or how far it has come by time t. *)
Until(s, t) == IF s.end = 0 THEN t ELSE s.end

(* Presence spans follow each other; only the last can be open. *)
InOrder(spans, t) ==
    /\ \A i \in DOMAIN spans : spans[i].start <= Until(spans[i], t) /\ Until(spans[i], t) <= t
    /\ \A i \in DOMAIN spans : i + 1 \in DOMAIN spans =>
          spans[i].end # 0 /\ spans[i].end <= spans[i + 1].start
SpansInOrder == InOrder(sessions, now)

(* An open span goes on. *)
LEMMA OrderInTime ==
    ASSUME NEW q \in Seq(Span), NEW t \in Nat, NEW u \in Nat, t <= u, InOrder(q, t)
    PROVE  InOrder(q, u)
<1>1. \A i \in DOMAIN q : q[i].start \in Nat /\ q[i].end \in Nat
    <2>1. \A i \in DOMAIN q : q[i] \in Span
        OBVIOUS
    <2> QED BY <2>1 DEF Span
<1> QED BY <1>1 DEF InOrder, Until

(* All spans are ended, and another may begin. *)
LEMMA OrderEnded ==
    ASSUME NEW q \in Seq(Span), NEW t \in Nat \ {0}, InOrder(q, t),
           NEW closed \in Seq(Span), DOMAIN closed = DOMAIN q,
           \A i \in DOMAIN q : closed[i] = IF q[i].end = 0 THEN [q[i] EXCEPT !.end = t] ELSE q[i]
    PROVE  /\ InOrder(closed, t)
           /\ \A span \in Span : span.start = t /\ span.end = 0 => InOrder(Append(closed, span), t)
<1>1. PICK k \in Nat : k = Len(closed)
    OBVIOUS
<1>2. DOMAIN closed = 1..k /\ DOMAIN q = 1..k
    BY <1>1
<1>3. ASSUME NEW i \in 1..k
      PROVE  /\ closed[i].start = q[i].start /\ closed[i].end = Until(q[i], t)
             /\ q[i].start \in Nat /\ q[i].end \in Nat
    <2>1. q[i] \in Span
        BY <1>2
    <2> QED BY <1>2, <2>1 DEF Span, Until
<1>4. \A i \in 1..k : /\ closed[i].start \in Nat /\ closed[i].end \in Nat
                      /\ closed[i].end # 0
                      /\ closed[i].start <= closed[i].end /\ closed[i].end <= t
    BY <1>2, <1>3 DEF InOrder, Until
<1>5. \A i \in 1..k : i + 1 \in 1..k => closed[i].end <= closed[i + 1].start
    BY <1>2, <1>3 DEF InOrder, Until
<1>6. InOrder(closed, t)
    BY <1>2, <1>4, <1>5 DEF InOrder, Until
<1>7. ASSUME NEW span \in Span, span.start = t, span.end = 0
      PROVE  InOrder(Append(closed, span), t)
    <2>1. PICK c : c = Append(closed, span)
        OBVIOUS
    <2>2. DOMAIN c = 1..(k + 1) /\ c[k + 1] = span /\ \A i \in 1..k : c[i] = closed[i]
        BY <1>1, <2>1
    <2>3. \A i \in 1..(k + 1) : i \in 1..k \/ i = k + 1
        OBVIOUS
    <2>4. \A i \in 1..(k + 1) : c[i].start <= Until(c[i], t) /\ Until(c[i], t) <= t
        BY <1>4, <1>7, <2>2, <2>3 DEF Until
    <2>5. ASSUME NEW i \in 1..(k + 1), i + 1 \in 1..(k + 1)
          PROVE  c[i].end # 0 /\ c[i].end <= c[i + 1].start
        <3>1. i \in 1..k
            BY <2>5
        <3>2. CASE i + 1 \in 1..k
            BY <1>4, <1>5, <2>2, <3>1, <3>2
        <3>3. CASE i + 1 = k + 1
            BY <1>4, <1>7, <2>2, <3>1, <3>3
        <3> QED BY <2>3, <2>5, <3>2, <3>3
    <2>6. InOrder(c, t)
        BY <2>2, <2>4, <2>5 DEF InOrder
    <2> QED BY <2>1, <2>6
<1> QED BY <1>6, <1>7

(* A step begins no span before the last has ended.                        *)
LEMMA SpansStayInOrder ==
    ASSUME PageInv, SpansInOrder, [Next]_vars
    PROVE  SpansInOrder'
<1>1. now \in Nat \ {0} /\ sessions \in Seq(Span)
    BY BoardAssumption DEF PageInv, TypeOK
<1>2. CASE startNewShift \/ \E m \in Machines : Arrive(m)
    <2>1. PICK E : E = {i \in DOMAIN sessions : sessions[i].end = 0}
        OBVIOUS
    <2>2. PICK closed : closed = [i \in DOMAIN sessions |->
              IF i \in E THEN [sessions[i] EXCEPT !.end = now] ELSE sessions[i]]
        OBVIOUS
    <2>3. closed \in Seq(Span) /\ DOMAIN closed = DOMAIN sessions
        BY <2>1, <2>2, SpansEnded
    <2>4. \A i \in DOMAIN sessions : closed[i] =
              IF sessions[i].end = 0 THEN [sessions[i] EXCEPT !.end = now] ELSE sessions[i]
        BY <2>1, <2>2
    <2>5. /\ now' = now
          /\ \/ sessions' = closed
             \/ \E m \in Machines : operator # NoName /\ sessions' =
                   Append(closed, [operator |-> operator, machine |-> m, start |-> now, end |-> 0])
        <3>1. CASE startNewShift
            BY <2>1, <2>2, <3>1 DEF startNewShift, PageInv, TypeOK
        <3>2. ASSUME NEW m \in Machines, Arrive(m)
              PROVE  /\ now' = now /\ operator # NoName
                     /\ sessions' = Append(closed,
                           [operator |-> operator, machine |-> m, start |-> now, end |-> 0])
            <4>1. closed = [i \in DOMAIN sessions |->
                      IF sessions[i].end = 0 THEN [sessions[i] EXCEPT !.end = now]
                      ELSE sessions[i]]
                BY <2>1, <2>2
            <4> QED BY <3>2, <4>1 DEF Arrive
        <3> QED BY <1>2, <3>1, <3>2
    <2>6. /\ InOrder(closed, now)
          /\ \A span \in Span : span.start = now /\ span.end = 0
                => InOrder(Append(closed, span), now)
        BY <1>1, <2>3, <2>4, OrderEnded DEF SpansInOrder
    <2>8. ASSUME NEW m \in Machines, operator # NoName
          PROVE  [operator |-> operator, machine |-> m, start |-> now, end |-> 0] \in Span
        BY <1>1, <2>8 DEF Span, PageInv, TypeOK, Everyone
    <2> QED BY <2>5, <2>6, <2>8 DEF SpansInOrder
<1>3. CASE ~(startNewShift \/ \E m \in Machines : Arrive(m))
    <2>1. sessions' = sessions /\ (now' = now \/ now' = now + 1)
        BY <1>3 DEF Next, vars, Tick, slowTick, selectShift, LogStop, handleSaveProduction,
           discardStop, deleteStop, openHandover, persist, closeHandover, clockVars, setupVars
    <2>2. now' \in Nat /\ now <= now'
        BY <1>1, <2>1
    <2>3. InOrder(sessions, now')
        BY <1>1, <2>2, OrderInTime DEF SpansInOrder
    <2> QED BY <2>1, <2>3 DEF SpansInOrder
<1> QED BY <1>2, <1>3

(* The clips of two spans, one after the other, fit side by side. *)
LEMMA ClipsFit ==
    ASSUME NEW a \in Int, NEW s \in Int, NEW e \in Int, NEW w \in Int, NEW o \in Int,
           a <= s, s <= e
    PROVE  /\ LaterOf(0, Smaller(a, w) - o) <= LaterOf(0, Smaller(e, w) - o)
           /\ LaterOf(0, Smaller(a, w) - o) + LaterOf(0, Smaller(e, w) - LaterOf(s, o))
                <= LaterOf(0, Smaller(e, w) - o)
BY DEF LaterOf, Smaller

(* The first clip alone does; and all end with the window. *)
LEMMA ClipFits ==
    ASSUME NEW s \in Int, NEW e \in Int, NEW w \in Int, NEW o \in Int, s <= e
    PROVE  /\ 0 <= LaterOf(0, Smaller(e, w) - o)
           /\ LaterOf(0, Smaller(e, w) - LaterOf(s, o)) <= LaterOf(0, Smaller(e, w) - o)
           /\ LaterOf(0, Smaller(e, w) - o) <= LaterOf(0, w - o)
           /\ LaterOf(0, Smaller(e, w) - o) \in Int
           /\ LaterOf(0, Smaller(e, w) - LaterOf(s, o)) \in Int
BY DEF LaterOf, Smaller

(* The clips of spans that follow one another, of any of them, add up to    *)
(* no more than the window holds.                                          *)
LEMMA ClipsAddUp ==
    ASSUME NEW n \in Nat, NEW D, D = 1..n, NEW s \in [D -> Int], NEW e \in [D -> Int],
           NEW w \in Int, NEW o \in Int, NEW f,
           \A i \in D : s[i] <= e[i],
           \A i \in D : i # 1 => e[i - 1] <= s[i],
           f = [i \in D |-> LaterOf(0, Smaller(e[i], w) - LaterOf(s[i], o))],
           NEW S \in SUBSET D
    PROVE  SumFunctionOnSet(f, S) <= LaterOf(0, w - o)
<1>0. PICK g : g = [i \in D |-> LaterOf(0, Smaller(e[i], w) - o)]
    OBVIOUS
<1>1. ASSUME NEW i \in D
      PROVE  /\ f[i] \in Int /\ g[i] \in Int /\ 0 <= g[i]
             /\ f[i] <= g[i] /\ g[i] <= LaterOf(0, w - o)
    <2>1. PICK x \in Int, y \in Int : x = s[i] /\ y = e[i] /\ x <= y
        OBVIOUS
    <2>2. f[i] = LaterOf(0, Smaller(y, w) - LaterOf(x, o)) /\ g[i] = LaterOf(0, Smaller(y, w) - o)
        BY <1>0, <2>1
    <2>3. x \in Int /\ y \in Int /\ x <= y /\ w \in Int /\ o \in Int
        BY <2>1
    <2>4. /\ 0 <= LaterOf(0, Smaller(y, w) - o)
          /\ LaterOf(0, Smaller(y, w) - LaterOf(x, o)) <= LaterOf(0, Smaller(y, w) - o)
          /\ LaterOf(0, Smaller(y, w) - o) <= LaterOf(0, w - o)
          /\ LaterOf(0, Smaller(y, w) - o) \in Int
          /\ LaterOf(0, Smaller(y, w) - LaterOf(x, o)) \in Int
        BY ONLY <2>3, ClipFits
    <2> QED BY ONLY <2>2, <2>4
<1>2. ASSUME NEW i \in D, i # 1
      PROVE  g[i - 1] + f[i] <= g[i] /\ g[i - 1] <= g[i] /\ i - 1 \in D
    <2>1. i - 1 \in D
        BY <1>2
    <2>2. PICK a \in Int, x \in Int, y \in Int :
              a = e[i - 1] /\ x = s[i] /\ y = e[i] /\ a <= x /\ x <= y
        BY <1>2, <2>1
    <2>3. /\ f[i] = LaterOf(0, Smaller(y, w) - LaterOf(x, o))
          /\ g[i] = LaterOf(0, Smaller(y, w) - o)
          /\ g[i - 1] = LaterOf(0, Smaller(a, w) - o)
        BY <1>0, <2>1, <2>2
    <2>4. a \in Int /\ x \in Int /\ y \in Int /\ w \in Int /\ o \in Int /\ a <= x /\ x <= y
        BY <2>2
    <2> QED BY ONLY <2>1, <2>3, <2>4, ClipsFit
<1>3. PICK b : b = [i \in 0..n |-> IF i = 0 THEN 0 ELSE g[i]]
    OBVIOUS
<1>4. f \in [D -> Int] /\ \A i \in D : g[i] \in Int
    <2>1. \A i \in D : f[i] \in Int /\ g[i] \in Int
        BY <1>1
    <2>2. DOMAIN f = D /\ f = [i \in D |-> f[i]]
        OBVIOUS
    <2> QED BY ONLY <2>1, <2>2
<1>5. b \in [0..n -> Int] /\ b[0] = 0 /\ \A i \in D : b[i] = g[i]
    <2>1. \A i \in 0..n : i # 0 => i \in D
        OBVIOUS
    <2>2. \A i \in 0..n : (IF i = 0 THEN 0 ELSE g[i]) \in Int
        BY <1>4, <2>1
    <2>3. b \in [0..n -> Int]
        BY ONLY <1>3, <2>2
    <2>4. 0 \in 0..n /\ \A i \in D : i \in 0..n /\ i # 0
        OBVIOUS
    <2> QED BY ONLY <1>3, <2>3, <2>4
<1>6. ASSUME NEW i \in 1..n
      PROVE  b[i - 1] <= b[i] /\ (i \in S => b[i - 1] + f[i] <= b[i])
    <2>1. i \in D /\ f[i] \in Int /\ g[i] \in Int /\ 0 <= g[i] /\ f[i] <= g[i] /\ b[i] = g[i]
        BY <1>1, <1>5
    <2>2. CASE i = 1
        <3>1. b[i - 1] = 0
            BY <1>5, <2>2
        <3> QED BY ONLY <2>1, <3>1
    <2>3. CASE i # 1
        <3>1. g[i - 1] + f[i] <= g[i] /\ g[i - 1] <= g[i] /\ i - 1 \in D
            BY <1>2, <2>1, <2>3
        <3>2. b[i - 1] = g[i - 1]
            BY ONLY <1>5, <3>1
        <3> QED BY ONLY <2>1, <3>1, <3>2
    <2> QED BY <2>2, <2>3
<1>7. SumFunctionOnSet(f, S) <= b[n]
    <2>1. n \in Nat /\ D = 1..n /\ S \in SUBSET D
        OBVIOUS
    <2> QED BY ONLY <1>4, <1>5, <1>6, <2>1, SumBound
<1>8. b[n] <= LaterOf(0, w - o) /\ b[n] \in Int /\ LaterOf(0, w - o) \in Int
    <2>1. LaterOf(0, w - o) \in Int /\ 0 <= LaterOf(0, w - o)
        BY DEF LaterOf
    <2>2. CASE n = 0
        BY ONLY <1>5, <2>1, <2>2
    <2>3. CASE n # 0
        <3>1. n \in D
            BY <2>3
        <3> QED BY <1>1, <1>5, <2>1, <3>1
    <2> QED BY <2>2, <2>3
<1>9. SumFunctionOnSet(f, S) \in Int
    <2>1. IsFiniteSet(D) /\ S \in SUBSET D
        BY FS_Interval
    <2> QED BY ONLY <1>4, <2>1, SumRules
<1> QED
    BY ONLY <1>7, <1>8, <1>9

(* What is apportioned to the machines is no more than the shift so far. *)
LEMMA SharesFit ==
    ASSUME PageInv, SpansInOrder
    PROVE  ShareTotal <= Elapsed
<1>1. PICK n \in Nat : n = Len(sessions)
    BY DEF PageInv, TypeOK
<1>2. PICK D : D = DOMAIN sessions
    OBVIOUS
<1>3. D = 1..n /\ IsFiniteSet(D) /\ \A i \in D : sessions[i] \in Span
    <2>1. D = 1..n /\ sessions \in Seq(Span)
        BY <1>1, <1>2 DEF PageInv, TypeOK
    <2>2. IsFiniteSet(D)
        BY <2>1, FS_Interval
    <2>3. \A i \in DOMAIN sessions : sessions[i] \in Span
        BY ONLY <2>1
    <2> QED BY <1>2, <2>1, <2>2, <2>3
<1>4. now \in Int /\ boardStart \in Int /\ WindowEnd \in Int
    BY BoardAssumption DEF PageInv, TypeOK, WindowEnd, Smaller
<1>5. PICK w \in Int, o \in Int : w = WindowEnd /\ o = boardStart
    BY <1>4
<1>6. PICK s, e : /\ s = [i \in D |-> sessions[i].start]
                  /\ e = [i \in D |-> Until(sessions[i], now)]
    OBVIOUS
<1>7. ASSUME NEW i \in D
      PROVE  /\ s[i] \in Int /\ e[i] \in Int /\ s[i] <= e[i]
             /\ s[i] = sessions[i].start /\ e[i] = Until(sessions[i], now)
    BY <1>2, <1>3, <1>4, <1>6 DEF Span, SpansInOrder, InOrder, Until
<1>8. s \in [D -> Int] /\ e \in [D -> Int]
    BY <1>6, <1>7
<1>9. ASSUME NEW i \in D, i # 1 PROVE e[i - 1] <= s[i]
    <2>1. i - 1 \in D /\ (i - 1) + 1 = i
        BY <1>3, <1>9
    <2>2. e[i - 1] = Until(sessions[i - 1], now) /\ s[i] = sessions[i].start
        BY <1>7, <2>1
    <2> QED BY <1>2, <2>1, <2>2 DEF SpansInOrder, InOrder, Until
<1>10. PICK f : f = [i \in D |-> Clipped(sessions[i])]
    OBVIOUS
<1>11. f = [i \in D |-> LaterOf(0, Smaller(e[i], w) - LaterOf(s[i], o))]
    <2>1. \A i \in D : Clipped(sessions[i]) = LaterOf(0, Smaller(e[i], w) - LaterOf(s[i], o))
        BY <1>5, <1>6 DEF Clipped, Until
    <2> QED BY <1>10, <2>1
<1>12. PICK S : S = {i \in D : sessions[i].operator = operator}
    OBVIOUS
<1>13. S \in SUBSET D
    BY <1>12
<1>14. f \in [D -> Int]
    <2>1. \A i \in D : LaterOf(0, Smaller(e[i], w) - LaterOf(s[i], o)) \in Int
        <3>1. \A x \in Int, y \in Int : LaterOf(0, Smaller(y, w) - LaterOf(x, o)) \in Int
            BY ONLY w \in Int, o \in Int DEF LaterOf, Smaller
        <3>2. \A i \in D : s[i] \in Int /\ e[i] \in Int
            BY <1>7
        <3> QED BY ONLY <3>1, <3>2
    <2> QED BY ONLY <1>11, <2>1
<1>15. ShareTotal = SumFunctionOnSet(f, S)
    <2>1. PICK key : key = [i \in S |-> sessions[i].machine]
        OBVIOUS
    <2>2. key \in [S -> Machines] /\ IsFiniteSet(Machines)
        BY <1>3, <1>13, <2>1, BoardAssumption DEF Span
    <2>3. PICK h : h = [m \in Machines |-> SumFunctionOnSet(f, {x \in S : key[x] = m})]
        OBVIOUS
    <2>4. SumFunction(h) = SumFunctionOnSet(f, S)
        <3>1. IsFiniteSet(D) /\ f \in [D -> Int] /\ S \in SUBSET D
              /\ IsFiniteSet(Machines) /\ key \in [S -> Machines]
            BY <1>3, <1>13, <1>14, <2>2
        <3> QED BY ONLY <2>3, <3>1, SumByKey
    <2>5. ASSUME NEW m \in Machines
          PROVE  Share(m) = SumFunctionOnSet(f, {x \in S : key[x] = m})
        <3>1. {i \in DOMAIN sessions : sessions[i].operator = operator /\ sessions[i].machine = m}
                = {x \in S : key[x] = m}
            BY <1>2, <1>12, <2>1
        <3> QED BY <1>2, <1>10, <3>1 DEF Share
    <2>6. [m \in Machines |-> Share(m)] = h
        BY <2>3, <2>5
    <2> QED BY <2>4, <2>6 DEF ShareTotal
<1>16. SumFunctionOnSet(f, S) <= LaterOf(0, w - o)
    <2>1. n \in Nat /\ w \in Int /\ o \in Int /\ D = 1..n
        BY <1>3
    <2>2. \A i \in D : s[i] <= e[i]
        BY <1>7
    <2>3. \A i \in D : i # 1 => e[i - 1] <= s[i]
        BY <1>9
    <2> QED BY ONLY <1>8, <1>11, <1>13, <2>1, <2>2, <2>3, ClipsAddUp
<1> QED
    BY <1>5, <1>15, <1>16 DEF Elapsed

(* The manned time of a shift is no longer than the shift so far, and the   *)
(* presence it is apportioned by fits into it: no machine is given time     *)
(* that another was given, for any machines and any number of spans.       *)
THEOREM MannedTimeFits == Spec => []MannedTimeIsReal
<1>1. Init => SpansInOrder
    BY DEF Init, SpansInOrder, InOrder
<1>2. PageInv /\ SpansInOrder => ShareTotal <= Elapsed
    BY SharesFit
<1>3. ElapsedFits /\ ShareTotal <= Elapsed => MannedTimeIsReal
    BY DEF MannedTimeIsReal
<1> QED
    BY <1>1, <1>2, <1>3, SpansStayInOrder, PageInvariance, ElapsedAlwaysFits, PTL DEF Spec

-----------------------------------------------------------------------------
(* The supervisor's sums. *)

(* The downtime of stops by a key is the downtime of all of them.          *)
LEMMA DowntimeByKey ==
    ASSUME PageInv, NEW S \in SUBSET DOMAIN stops, NEW K, IsFiniteSet(K),
           NEW key \in [S -> K]
    PROVE  SumFunction([k \in K |-> Downtime({i \in S : key[i] = k})]) = Downtime(S)
<1>1. PICK D : D = DOMAIN stops
    OBVIOUS
<1>2. IsFiniteSet(D) /\ S \in SUBSET D
    <2>1. PICK n \in Nat : n = Len(stops)
        BY DEF PageInv, TypeOK
    <2>2. D = 1..n
        BY <1>1, <2>1 DEF PageInv, TypeOK
    <2> QED BY <1>1, <2>2, FS_Interval
<1>3. PICK f : f = [i \in D |-> stops[i].duration]
    OBVIOUS
<1>4. f \in [D -> Int]
    <2>1. \A i \in D : stops[i] \in Stop
        BY <1>1 DEF PageInv, TypeOK
    <2>2. \A i \in D : stops[i].duration \in Int
        BY <2>1 DEF Stop
    <2> QED BY ONLY <1>3, <2>2
<1>5. \A T : Downtime(T) = SumFunctionOnSet(f, T)
    BY <1>1, <1>3 DEF Downtime
<1>6. PICK h : h = [k \in K |-> SumFunctionOnSet(f, {i \in S : key[i] = k})]
    OBVIOUS
<1>7. h = [k \in K |-> Downtime({i \in S : key[i] = k})]
    BY <1>5, <1>6
<1>8. SumFunction(h) = SumFunctionOnSet(f, S)
    <2>1. IsFiniteSet(D) /\ f \in [D -> Int] /\ S \in SUBSET D
          /\ IsFiniteSet(K) /\ key \in [S -> K]
        BY <1>2, <1>4
    <2> QED BY ONLY <1>6, <2>1, SumByKey
<1> QED
    BY <1>5, <1>7, <1>8

(* The bars of the chart hold no stop from before their week.  (The page's *)
(* clock is the one they are counted back from.)                           *)
LEMMA BarsAreOfTheWeek ==
    ASSUME PageInv, NEW d \in 0..6, NEW i \in TrendBar(d)
    PROVE  i \in Kept /\ stops[i].start >= Midnight(now) - 6 * Day
<1>1. Day \in Nat \ {0} /\ now \in Int
    BY ClockAssumption DEF PageInv, BoardInv
<1>2. i \in Kept /\ stops[i].start >= Midnight(now - d * Day)
    BY DEF TrendBar
<1>3. stops[i].start \in Int
    <2>1. i \in DOMAIN stops /\ stops \in Seq(Stop)
        BY <1>2 DEF Kept, PageInv, TypeOK
    <2>2. stops[i] \in Stop
        BY ONLY <2>1
    <2> QED BY <2>2 DEF Stop
<1>4. PICK q \in Int : Midnight(now) = Day * q
    BY <1>1, DaysAndTime
<1>5. Midnight(now - d * Day) = Day * (q - d)
    <2>1. d \in Nat /\ now \in Int
        BY <1>1
    <2> QED BY <1>4, <2>1, DaysBack
<1>6. Day * (q - d) >= Day * q - 6 * Day
    <2>1. Day * (6 - d) >= 0
        BY <1>1
    <2>2. Day * (6 - d) = Day * (q - d) - (Day * q - 6 * Day)
        BY <1>1
    <2>3. Day * (q - d) \in Int /\ Day * q - 6 * Day \in Int
        BY <1>1
    <2> QED BY <2>1, <2>2, <2>3
<1>7. Day * (q - d) \in Int /\ Day * q - 6 * Day \in Int
    BY <1>1
<1> QED
    BY <1>2, <1>3, <1>4, <1>5, <1>6, <1>7

(* The charts add up, over the machines, the operators and the days.       *)
LEMMA ChartsAddUp ==
    ASSUME PageInv, OneBarEach
    PROVE  ChartsAgree
<1>1. PICK all : all = Active(0, now)
    OBVIOUS
<1>2. all \in SUBSET DOMAIN stops /\ \A i \in DOMAIN stops : stops[i] \in Stop
    BY <1>1 DEF Active, Kept, PageInv, TypeOK
<1>3. IsFiniteSet(Machines) /\ IsFiniteSet(Operators)
    BY BoardAssumption
<1>4. SumFunction([m \in Machines |-> ByMachine(all, m)]) = Downtime(all)
    <2>1. PICK key : key = [i \in all |-> stops[i].machine]
        OBVIOUS
    <2>2. key \in [all -> Machines]
        BY <1>2, <2>1 DEF Stop
    <2>3. SumFunction([k \in Machines |-> Downtime({i \in all : key[i] = k})]) = Downtime(all)
        BY <1>2, <1>3, <2>2, DowntimeByKey
    <2>4. ASSUME NEW m \in Machines
          PROVE  ByMachine(all, m) = Downtime({i \in all : key[i] = m})
        <3>1. {i \in all : stops[i].machine = m} = {i \in all : key[i] = m}
            BY <2>1
        <3> QED BY <3>1 DEF ByMachine
    <2>5. [m \in Machines |-> ByMachine(all, m)]
            = [k \in Machines |-> Downtime({i \in all : key[i] = k})]
        BY <2>4
    <2> QED BY <2>3, <2>5
<1>5. SumFunction([name \in Operators |-> ByOperator(all, name)]) = Downtime(all)
    <2>1. PICK key : key = [i \in all |-> stops[i].operator]
        OBVIOUS
    <2>2. key \in [all -> Operators]
        BY <1>2, <2>1 DEF Stop
    <2>3. SumFunction([k \in Operators |-> Downtime({i \in all : key[i] = k})]) = Downtime(all)
        BY <1>2, <1>3, <2>2, DowntimeByKey
    <2>4. ASSUME NEW name \in Operators
          PROVE  ByOperator(all, name) = Downtime({i \in all : key[i] = name})
        <3>1. {i \in all : stops[i].operator = name} = {i \in all : key[i] = name}
            BY <2>1
        <3> QED BY <3>1 DEF ByOperator
    <2>5. [name \in Operators |-> ByOperator(all, name)]
            = [k \in Operators |-> Downtime({i \in all : key[i] = k})]
        BY <2>4
    <2> QED BY <2>3, <2>5
<1>6. PICK week : week = {i \in Kept : stops[i].start >= Midnight(now) - 6 * Day}
    OBVIOUS
<1>7. SumFunction([d \in 0..6 |-> Downtime(TrendBar(d))]) = Downtime(week)
    <2>1. PICK key : key = [i \in week |-> CHOOSE d \in 0..6 : i \in TrendBar(d)]
        OBVIOUS
    <2>2. ASSUME NEW i \in week
          PROVE  key[i] \in 0..6 /\ \A e \in 0..6 : i \in TrendBar(e) <=> e = key[i]
        <3>1. PICK d \in 0..6 : \A e \in 0..6 : i \in TrendBar(e) <=> e = d
            BY <1>6 DEF OneBarEach
        <3>2. key[i] \in 0..6 /\ i \in TrendBar(key[i])
            <4>1. \E e \in 0..6 : i \in TrendBar(e)
                BY <3>1
            <4>2. key[i] = CHOOSE e \in 0..6 : i \in TrendBar(e)
                BY <2>1
            <4> QED BY ONLY <4>1, <4>2
        <3>3. key[i] = d
            BY ONLY <3>1, <3>2
        <3> QED BY ONLY <3>1, <3>3
    <2>3. key \in [week -> 0..6] /\ week \in SUBSET DOMAIN stops /\ IsFiniteSet(0..6)
        <3>1. IsFiniteSet(0..6)
            BY FS_Interval, 0 \in Int, 6 \in Int, Zenon
        <3>2. \A i \in week : key[i] \in 0..6
            BY ONLY <2>2
        <3>3. key \in [week -> 0..6]
            BY ONLY <2>1, <3>2
        <3> QED BY <1>6, <3>1, <3>3 DEF Kept
    <2>4. SumFunction([k \in 0..6 |-> Downtime({i \in week : key[i] = k})]) = Downtime(week)
        BY <2>3, DowntimeByKey
    <2>5. ASSUME NEW d \in 0..6
          PROVE  TrendBar(d) = {i \in week : key[i] = d}
        <3>1. \A i \in TrendBar(d) : i \in week
            BY <1>6, BarsAreOfTheWeek
        <3>2. \A i \in week : i \in TrendBar(d) <=> d = key[i]
            BY ONLY <2>2, d \in 0..6
        <3> QED BY ONLY <3>1, <3>2
    <2>6. [d \in 0..6 |-> Downtime(TrendBar(d))]
            = [k \in 0..6 |-> Downtime({i \in week : key[i] = k})]
        BY ONLY <2>5
    <2> QED BY <2>4, <2>6
<1> QED
    BY <1>1, <1>4, <1>5, <1>6, <1>7 DEF ChartsAgree

(* The supervisor's charts add up to their total, and each stop of the week*)
(* is in exactly one bar of the trend: for any machines and operators and  *)
(* any number of stops, and whenever the page is looked at.                *)
THEOREM ChartsAlwaysAgree == Spec => []ChartsAgree
<1>1. PageInv /\ OneBarEach => ChartsAgree
    BY ChartsAddUp
<1> QED
    BY <1>1, EachStopHasOneBar, PageInvariance, PTL
=====
