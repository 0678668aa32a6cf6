--------------------------- MODULE OperatorProofs ---------------------------
(***************************************************************************)
(* What TLAPS proves of Operator for any operators, machines and bounds,   *)
(* when the load does not wait for /health (~Probing).                     *)
(***************************************************************************)
EXTENDS Operator, WellFoundedInduction, TLAPS

(* The finished stop that awaits a reason. *)
Finished == [start : Times, end : Times, duration : Times,
             machine : Machines \cup {NoMachine}, n : 0..MaxStops]

Typed == TypeOK /\ 1 <= now /\ pending \in Finished

(* What the page, and the storage it leaves behind, hold of each other: a   *)
(* page that is not up holds nothing; one that is has stored its span, its  *)
(* session and its stop.                                                   *)
PageInStep ==
    /\ page # "up" =>
          timer = Idle /\ pending = NoStop /\ recovered = NoIp /\ openSess = 0
             /\ ui.off = NoSpan
    /\ page = "up" => ui.off = prefs.off /\ openSess = curSess
    /\ timer.running => ip.t = timer /\ recovered = NoIp
    /\ ~timer.running => timer = Idle /\ (page = "up" => recovered = ip)

(* One stop at a time: timed (or left by a page that died), finished, or a  *)
(* span off the machines.                                                  *)
OneAtATime ==
    /\ ip # NoIp => ip.t.running /\ pending = NoStop /\ prefs.off = NoSpan
    /\ pending # NoStop => prefs.off = NoSpan

(* The autosaved copy of a stop, its times in order, its claim covered.     *)
SaveIsFine ==
    ip # NoIp =>
        /\ ip.t.n \in 1..serial /\ ip.t.startTs >= 1 /\ ip.savedAt <= now
        /\ IF ip.t.paused
           THEN /\ ip.t.segStart = 0 /\ ip.t.startTs + ip.t.accumulated <= ip.savedAt
                /\ ip.t.accumulated <= ran
           ELSE /\ ip.t.startTs + ip.t.accumulated <= ip.t.segStart
                /\ ip.t.segStart <= ip.savedAt
                /\ ip.t.accumulated + (ip.savedAt - ip.t.segStart) <= ran
        /\ ~timer.running => cut

Elapsed(t) == t.accumulated + IF t.paused THEN 0 ELSE now - t.segStart

ClaimsAreFine ==
    /\ ran <= now
    /\ timer.running => Elapsed(timer) <= ran /\ (~cut => Elapsed(timer) = ran)
    /\ pending # NoStop =>
          /\ pending.n \in 1..serial /\ 1 <= pending.start
          /\ pending.start + pending.duration <= pending.end /\ pending.end <= now
          /\ pending.duration <= ran /\ (~cut => pending.duration = ran)
    /\ prefs.off # NoSpan =>
          prefs.off.n \in 1..serial /\ 1 <= prefs.off.start /\ prefs.off.start <= now

(* The downtime under way, as storage and page know it. *)
Past(n, from) ==
    \A s \in stops : s.n # n /\ (s.kind # "manual" => s.end <= from)

RecordsAreOver ==
    /\ \A s \in stops : s.n \in 1..serial /\ {s.start, s.end} \subseteq Int /\ s.end <= now
    /\ ip # NoIp => Past(ip.t.n, ip.t.startTs)
    /\ pending # NoStop => Past(pending.n, pending.start)
    /\ prefs.off # NoSpan => Past(prefs.off.n, prefs.off.start)

(* Presence: each span begins after the one before has ended, only the last *)
(* may be open, and it is the one to be closed.                            *)
InOrder(ss, cur, t) ==
    /\ cur \in {0, Len(ss)}
    /\ \A i \in DOMAIN ss :
          /\ 1 <= ss[i].start /\ ss[i].start <= ss[i].updatedAt /\ ss[i].updatedAt <= t
          /\ ss[i].end = 0 => i = cur
          /\ ss[i].end # 0 => ss[i].start <= ss[i].end /\ ss[i].end <= t
    /\ \A i, j \in DOMAIN ss : i < j => ss[i].end <= ss[j].start

SessionsInOrder == InOrder(sessions, curSess, now)

(* Nobody is at a machine while a span off the machines runs. *)
AwayIsAway ==
    /\ \A s \in stops : s.kind = "off" => \A i \in DOMAIN sessions :
          s.end <= sessions[i].start \/ (i # curSess /\ sessions[i].end <= s.start)
    /\ prefs.off # NoSpan =>
          curSess = 0 /\ \A i \in DOMAIN sessions : sessions[i].end <= prefs.off.start

Inv ==
    /\ ~Probing /\ Typed /\ PageInStep /\ OneAtATime /\ SaveIsFine /\ ClaimsAreFine
    /\ RecordsAreOver /\ SessionsInOrder /\ AwayIsAway
    /\ DowntimeCountedOnce /\ NeverOvercounts

-----------------------------------------------------------------------------
(* Sessions. *)

(* ss is what became of the sessions, with cur the open one: the same ones  *)
(* in the same places, and those that were closed as they were.            *)
Follows(ss, cur) ==
    /\ ss \in Seq(Sessions) /\ Len(ss) = Len(sessions)
    /\ cur \in {0, curSess} /\ InOrder(ss, cur, now)
    /\ \A i \in DOMAIN sessions :
          /\ ss[i].start = sessions[i].start
          /\ i # curSess => ss[i].end = sessions[i].end

(* A step that leaves presence in order, and adds spans from now on only.  *)
SessMove ==
    /\ sessions' \in Seq(Sessions) /\ Len(sessions') <= MaxSessions
    /\ {openSess', curSess'} \subseteq 0..Len(sessions')
    /\ SessionsInOrder'
    /\ \A i \in DOMAIN sessions :
          /\ i \in DOMAIN sessions' /\ sessions'[i].start = sessions[i].start
          /\ i # curSess => i # curSess' /\ sessions'[i].end = sessions[i].end
    /\ \A i \in DOMAIN sessions' \ DOMAIN sessions :
          sessions'[i].start = now

(* The types the proofs about presence need. *)
LEMMA Facts ==
    ASSUME Inv
    PROVE  /\ now \in Nat /\ now >= 1 /\ now <= MaxTime /\ MaxTime \in Nat /\ now \in Times
           /\ sessions \in Seq(Sessions) /\ Len(sessions) \in Nat
           /\ DOMAIN sessions = 1..Len(sessions) /\ Len(sessions) <= MaxSessions
           /\ MaxSessions \in Nat
           /\ openSess \in 0..Len(sessions) /\ curSess \in 0..Len(sessions)
           /\ InOrder(sessions, curSess, now)
<1>1. MaxTime \in Nat /\ MaxSessions \in Nat
  BY OperatorAssumption
<1>2. now \in Times /\ 1 <= now /\ sessions \in Seq(Sessions) /\ Len(sessions) <= MaxSessions
      /\ {openSess, curSess} \subseteq 0..Len(sessions)
  BY DEF Inv, Typed, TypeOK
<1>3. InOrder(sessions, curSess, now)
  BY DEF Inv, SessionsInOrder
<1> QED BY <1>1, <1>2, <1>3 DEF Times

(* What a session is made of. *)
LEMMA SessionFacts ==
    ASSUME NEW s \in Sessions
    PROVE  /\ s.start \in Nat /\ s.end \in Nat /\ s.updatedAt \in Nat
           /\ s.updatedAt \in Times
  BY OperatorAssumption DEF Sessions, Times

(* Overwriting the open session leaves the others.                         *)
LEMMA SavedFollows ==
    ASSUME Inv, NEW cur \in {0, curSess}, curSess # 0,
           NEW end \in Times, end = 0 => cur = curSess,
           end # 0 => sessions[curSess].start <= end /\ end <= now
    PROVE  Follows(Saved(sessions, curSess, end), cur)
<1>1. PICK s \in Seq(Sessions) : s = sessions
  BY Facts
<1>2. PICK k \in 1..Len(s) : k = curSess
  BY <1>1, Facts
<1>3. PICK ss : ss = [s EXCEPT ![k] = [s[k] EXCEPT !.end = end, !.updatedAt = now]]
  OBVIOUS
<1>4. ss = Saved(sessions, curSess, end)
  BY <1>1, <1>2, <1>3 DEF Saved
<1>5. \A i \in 1..Len(s) : s[i] \in Sessions
  BY <1>1
<1>6. /\ DOMAIN ss = 1..Len(s) /\ DOMAIN s = 1..Len(s) /\ DOMAIN sessions = 1..Len(s)
      /\ \A i \in 1..Len(s) : i # k => ss[i] = s[i]
      /\ ss[k] = [s[k] EXCEPT !.end = end, !.updatedAt = now]
  <2>1. DOMAIN s = 1..Len(s)
    OBVIOUS
  <2> QED BY <1>1, <1>2, <1>3, <2>1
<1>7. /\ ss[k] \in Sessions /\ ss[k].start = s[k].start /\ ss[k].end = end
      /\ ss[k].updatedAt = now
  <2>1. now \in Times /\ s[k] \in Sessions
    BY <1>5, Facts
  <2> QED BY <1>6, <2>1 DEF Sessions
<1>8. ss \in Seq(Sessions) /\ Len(ss) = Len(s)
  BY <1>3, <1>1, <1>2, <1>5, <1>6, <1>7
<1>9. \A i \in 1..Len(s) : s[i].start \in Nat /\ s[i].end \in Nat /\ s[i].updatedAt \in Nat
  <2> SUFFICES ASSUME NEW i \in 1..Len(s)
               PROVE  s[i].start \in Nat /\ s[i].end \in Nat /\ s[i].updatedAt \in Nat
    OBVIOUS
  <2>1. s[i] \in Sessions
    BY <1>5
  <2> QED BY <2>1, SessionFacts
<1>10. InOrder(s, k, now) /\ Len(s) \in Nat /\ k = Len(s) /\ now \in Nat /\ end \in Nat
  <2>1. InOrder(s, k, now) /\ now \in Nat
    BY <1>1, <1>2, Facts
  <2>2. k \in {0, Len(s)} /\ k # 0
    BY <1>2, <2>1 DEF InOrder
  <2>3. end \in Nat
    BY OperatorAssumption DEF Times
  <2> QED BY <2>1, <2>2, <2>3
<1>11. InOrder(ss, cur, now)
  <2>1. cur \in {0, Len(ss)}
    BY <1>2, <1>8, <1>10
  <2>2. ASSUME NEW i \in DOMAIN ss
        PROVE  /\ 1 <= ss[i].start /\ ss[i].start <= ss[i].updatedAt
               /\ ss[i].updatedAt <= now
               /\ ss[i].end = 0 => i = cur
               /\ ss[i].end # 0 => ss[i].start <= ss[i].end /\ ss[i].end <= now
    <3>1. CASE i = k
      BY <3>1, <1>1, <1>2, <1>6, <1>7, <1>9, <1>10 DEF InOrder
    <3>2. CASE i # k
      BY <3>2, <1>1, <1>2, <1>6, <1>10 DEF InOrder
    <3> QED BY <3>1, <3>2
  <2>3. ASSUME NEW i \in DOMAIN ss, NEW j \in DOMAIN ss, i < j
        PROVE  ss[i].end <= ss[j].start
    <3>1. i # k /\ i \in DOMAIN s /\ j \in DOMAIN s
      BY <2>3, <1>6, <1>10
    <3>2. ss[i].end = s[i].end /\ ss[j].start = s[j].start
      BY <3>1, <1>6, <1>7
    <3>3. s[i].end <= s[j].start
      BY <2>3, <3>1, <1>10 DEF InOrder
    <3> QED BY <3>2, <3>3
  <2> QED BY <2>1, <2>2, <2>3 DEF InOrder
<1>12. \A i \in DOMAIN sessions :
          /\ ss[i].start = sessions[i].start
          /\ i # curSess => ss[i].end = sessions[i].end
  <2> SUFFICES ASSUME NEW i \in DOMAIN sessions
               PROVE  /\ ss[i].start = sessions[i].start
                      /\ i # curSess => ss[i].end = sessions[i].end
    OBVIOUS
  <2>1. i \in 1..Len(s)
    BY <1>6
  <2> QED BY <1>1, <1>2, <1>6, <1>7, <2>1
<1> QED BY <1>1, <1>4, <1>8, <1>11, <1>12 DEF Follows

(* A session that was closed, if one was open, leaves presence in order.   *)
LEMMA EndedFollows ==
    ASSUME Inv, page = "up"
    PROVE  Follows(Ended, 0)
<1>1. openSess = curSess
  BY DEF Inv, PageInStep
<1>2. CASE openSess = 0
  BY <1>1, <1>2, Facts DEF Ended, Follows
<1>3. CASE openSess # 0
  <2>1. curSess \in DOMAIN sessions /\ sessions[curSess] \in Sessions
    BY <1>1, <1>3, Facts
  <2>2. sessions[curSess].start <= now
    <3>1. /\ sessions[curSess].start <= sessions[curSess].updatedAt
          /\ sessions[curSess].updatedAt <= now
      BY <2>1, Facts DEF InOrder
    <3> QED BY <2>1, <3>1, Facts, SessionFacts
  <2>3. Follows(Saved(sessions, curSess, now), 0)
    BY <1>1, <1>3, <2>2, Facts, SavedFollows
  <2> QED BY <1>1, <1>3, <2>3 DEF Ended
<1> QED BY <1>2, <1>3

(* The load closes every session that is open. *)
LEMMA ClosedFollows ==
    ASSUME Inv
    PROVE  Follows(Closed, 0)
<1>1. CASE curSess = 0
  <2>1. \A i \in DOMAIN sessions : ~Dangling(i)
    BY <1>1, Facts DEF Dangling, InOrder
  <2>2. Closed = [i \in DOMAIN sessions |-> sessions[i]]
    BY <2>1 DEF Closed
  <2>3. Closed = sessions
    BY <2>2, Facts
  <2> QED BY <1>1, <2>3, Facts DEF Follows
<1>2. CASE curSess # 0
  <2>1. \A i \in DOMAIN sessions : Dangling(i) <=> i = curSess /\ sessions[i].end = 0
    BY <1>2, Facts DEF Dangling, InOrder
  <2>2. curSess \in DOMAIN sessions /\ sessions[curSess] \in Sessions
    BY <1>2, Facts
  <2>3. CASE sessions[curSess].end = 0
    <3>1. PICK e \in Times : e = sessions[curSess].updatedAt
      BY <2>2 DEF Sessions
    <3>2. Closed = Saved(sessions, curSess, e)
      BY <2>1, <2>2, <2>3, <3>1, Facts DEF Closed, Saved
    <3>3. sessions[curSess].start <= e /\ e <= now /\ e # 0
      <4>1. /\ 1 <= sessions[curSess].start
            /\ sessions[curSess].start <= sessions[curSess].updatedAt
            /\ sessions[curSess].updatedAt <= now
        BY <2>2, Facts DEF InOrder
      <4> QED BY <2>2, <3>1, <4>1, Facts, SessionFacts
    <3> QED BY <1>2, <3>2, <3>3, SavedFollows
  <2>4. CASE sessions[curSess].end # 0
    <3>0. Closed = [i \in DOMAIN sessions |-> sessions[i]]
      BY <2>1, <2>4 DEF Closed
    <3>1. Closed = sessions
      BY <3>0, Facts
    <3>2. InOrder(sessions, 0, now)
      BY <2>4, Facts DEF InOrder
    <3> QED BY <3>1, <3>2, Facts DEF Follows
  <2> QED BY <2>3, <2>4
<1> QED BY <1>1, <1>2

(* Whatever follows the sessions is a move. *)
LEMMA FollowMoves ==
    ASSUME Inv, now' = now, NEW cur, Follows(sessions', cur), curSess' = cur,
           openSess' \in 0..Len(sessions')
    PROVE  SessMove
<1>1. /\ sessions' \in Seq(Sessions) /\ Len(sessions') = Len(sessions)
      /\ InOrder(sessions', cur, now) /\ cur \in {0, curSess}
      /\ \A i \in DOMAIN sessions :
          /\ sessions'[i].start = sessions[i].start
          /\ i # curSess => sessions'[i].end = sessions[i].end
  BY DEF Follows
<1>2. DOMAIN sessions' = DOMAIN sessions
  BY <1>1, Facts
<1>3. SessionsInOrder'
  BY <1>1 DEF SessionsInOrder
<1>4. {openSess', curSess'} \subseteq 0..Len(sessions')
  BY <1>1, Facts
<1>5. \A i \in DOMAIN sessions : i # curSess => i # curSess'
  BY <1>1, Facts
<1> QED BY <1>1, <1>2, <1>3, <1>4, <1>5, Facts DEF SessMove

(* A new session begins after those that follow, all closed.               *)
LEMMA OpenedMoves ==
    ASSUME Inv, now' = now, NEW ss, Follows(ss, 0),
           NEW name \in Names, NEW m \in Machines, Opened(ss, name, m)
    PROVE  SessMove /\ openSess' = curSess'
<1>1. PICK new : new = SessionFor(name, m)
  OBVIOUS
<1>2. /\ new \in Sessions /\ new.start = now /\ new.end = 0 /\ new.updatedAt = now
  BY <1>1, Facts, OperatorAssumption DEF SessionFor, Sessions, Times
<1>3. PICK t \in Seq(Sessions) : t = ss
  BY DEF Follows
<1>4. PICK u : u = Append(t, new)
  OBVIOUS
<1>5. /\ Len(t) = Len(sessions) /\ Len(t) \in Nat /\ Len(t) < MaxSessions
      /\ InOrder(t, 0, now)
  BY <1>3, Facts DEF Follows, Opened
<1>6. /\ u \in Seq(Sessions) /\ Len(u) = Len(t) + 1 /\ u[Len(t) + 1] = new
      /\ \A i \in 1..Len(t) : u[i] = t[i]
      /\ DOMAIN u = 1..Len(t) + 1 /\ DOMAIN t = 1..Len(t)
  BY <1>2, <1>3, <1>4, <1>5
<1>7. /\ sessions' = u /\ curSess' = Len(u) /\ openSess' = Len(u)
  BY <1>1, <1>3, <1>4, <1>6 DEF Opened
<1>8. InOrder(u, Len(u), now)
  <2>1. ASSUME NEW i \in DOMAIN u
        PROVE  /\ 1 <= u[i].start /\ u[i].start <= u[i].updatedAt
               /\ u[i].updatedAt <= now
               /\ u[i].end = 0 => i = Len(u)
               /\ u[i].end # 0 => u[i].start <= u[i].end /\ u[i].end <= now
    <3>1. CASE i = Len(t) + 1
      BY <3>1, <1>2, <1>6, Facts
    <3>2. CASE i \in 1..Len(t)
      BY <3>2, <1>5, <1>6 DEF InOrder
    <3> QED BY <3>1, <3>2, <1>5, <1>6
  <2>2. ASSUME NEW i \in DOMAIN u, NEW j \in DOMAIN u, i < j
        PROVE  u[i].end <= u[j].start
    <3>1. i \in 1..Len(t)
      BY <2>2, <1>5, <1>6
    <3>2. t[i].end <= now
      BY <3>1, <1>5, <1>6, Facts DEF InOrder
    <3>3. CASE j = Len(t) + 1
      BY <3>1, <3>2, <3>3, <1>2, <1>6
    <3>4. CASE j \in 1..Len(t)
      BY <2>2, <3>1, <3>4, <1>5, <1>6 DEF InOrder
    <3> QED BY <3>3, <3>4, <1>5, <1>6
  <2> QED BY <2>1, <2>2 DEF InOrder
<1>9. SessionsInOrder'
  BY <1>7, <1>8 DEF SessionsInOrder
<1>11. {openSess', curSess'} \subseteq 0..Len(sessions') /\ Len(sessions') <= MaxSessions
  BY <1>5, <1>6, <1>7, Facts
<1>12. \A i \in DOMAIN sessions :
          /\ i \in DOMAIN sessions' /\ sessions'[i].start = sessions[i].start
          /\ i # curSess => i # curSess' /\ sessions'[i].end = sessions[i].end
  BY <1>3, <1>5, <1>6, <1>7, Facts DEF Follows
<1>13. \A i \in DOMAIN sessions' \ DOMAIN sessions : sessions'[i].start = now
  BY <1>2, <1>5, <1>6, <1>7, Facts
<1> QED BY <1>6, <1>7, <1>9, <1>11, <1>12, <1>13 DEF SessMove

(* The four ways a tap touches presence. *)
LEMMA StayMoves ==
    ASSUME Inv, now' = now, UNCHANGED sessVars
    PROVE  SessMove
<1>1. Follows(sessions', curSess)
  BY Facts DEF Follows, sessVars
<1> QED BY <1>1, Facts, FollowMoves DEF sessVars

(* closeSession, and what is left of presence: nobody. *)
LEMMA CloseMoves ==
    ASSUME Inv, now' = now, page = "up", closeSession
    PROVE  SessMove /\ openSess' = 0 /\ curSess' = 0
<1>1. openSess = curSess
  BY DEF Inv, PageInStep
<1>2. CASE openSess = 0
  BY <1>1, <1>2, StayMoves DEF closeSession, sessVars
<1>3. CASE openSess # 0
  BY <1>3, EndedFollows, FollowMoves DEF closeSession, Follows
<1> QED BY <1>2, <1>3

(* openSession, when none is open. *)
LEMMA OpenMoves ==
    ASSUME Inv, now' = now, curSess = 0, openSess = 0, NEW name \in Anyone,
           NEW m \in Machines, openSession(name, m)
    PROVE  SessMove /\ openSess' = curSess'
<1>1. CASE name = NoName
  BY <1>1, StayMoves DEF openSession, sessVars
<1>2. CASE name # NoName
  <2>1. Follows(sessions, 0)
    BY Facts DEF Follows
  <2> QED BY <1>2, <2>1, OpenedMoves DEF openSession, Anyone
<1> QED BY <1>1, <1>2

(* closeSession and openSession in one tap. *)
LEMMA CloseAndOpenMoves ==
    ASSUME Inv, now' = now, page = "up", NEW name \in Anyone, NEW m \in Machines,
           CloseAndOpen(name, m)
    PROVE  SessMove /\ openSess' = curSess'
<1>1. CASE name = NoName
  BY <1>1, CloseMoves DEF CloseAndOpen
<1>2. CASE name # NoName
  BY <1>2, EndedFollows, OpenedMoves DEF CloseAndOpen, Anyone
<1> QED BY <1>1, <1>2
-----------------------------------------------------------------------------
(* What every step needs. *)

(* The page falls back on a configured machine. *)
LEMMA FirstIsConfigured ==
    ASSUME NEW S \in SUBSET Machines, S # {}
    PROVE  First(S) \in S
<1> DEFINE Less == {ss \in Nat \X Nat : ss[1] < ss[2]}
<1>1. IsWellFoundedOn(Less, Nat)
  BY NatLessThanWellFounded DEF OpToRel
<1> HIDE DEF Less
<1>2. Rank \in [Machines -> Nat]
  BY OperatorAssumption
<1> DEFINE Places == {Rank[m] : m \in S}
<1>3. Places \subseteq Nat /\ Places # {}
  BY <1>2
<1> HIDE DEF Places
<1>4. PICK p \in Places : \A q \in Places : ~(<<q, p>> \in Less)
  BY <1>1, <1>3, WFMin
<1>5. \A q \in Nat : q < p => <<q, p>> \in Less
  BY <1>3, <1>4 DEF Less
<1>6. ASSUME NEW q \in Places PROVE p <= q
  <2>1. q \in Nat /\ p \in Nat /\ ~(q < p)
    BY <1>3, <1>4, <1>5
  <2> QED BY <2>1
<1>7. PICK m \in S : Rank[m] = p
  BY <1>4 DEF Places
<1>8. \A k \in S : Rank[m] <= Rank[k]
  BY <1>6, <1>7 DEF Places
<1> QED BY <1>8 DEF First

(* Nothing yet, of each kind, has its type. *)
LEMMA NothingFacts ==
    /\ 0 \in Times /\ 1 \in Times /\ Idle \in Timers /\ NoIp \in Ips /\ NoSpan \in Spans
    /\ NoStop \in Finished
    /\ \A ms \in SUBSET Machines : ms # {} => Blank(ms) \in Setups
<1>1. 0 \in Times /\ 1 \in Times /\ 0 \in 0..MaxStops /\ NoName \in Anyone
  BY OperatorAssumption DEF Times, Anyone
<1>2. Idle \in Timers /\ NoSpan \in Spans /\ NoStop \in Finished
  BY <1>1 DEF Idle, Timers, NoSpan, Spans, NoStop, Finished
<1>3. NoIp \in Ips
  BY <1>1, <1>2 DEF NoIp, Ips
<1>4. ASSUME NEW ms \in SUBSET Machines, ms # {} PROVE Blank(ms) \in Setups
  <2>1. First(ms) \in Machines
    BY <1>4, FirstIsConfigured
  <2> QED BY <1>1, <1>2, <2>1 DEF Blank, Setups
<1> QED BY <1>1, <1>2, <1>3, <1>4

(* A page opens with nothing. *)
LEMMA InitInv == ~Probing /\ Init => Inv
<1> SUFFICES ASSUME ~Probing, Init PROVE Inv
  OBVIOUS
<1>1. Machines # {} /\ MaxTime \in Nat \ {0}
      /\ {MaxStops, MaxSessions, MaxKills, MaxSetups} \subseteq Nat
  BY OperatorAssumption
<1>0. /\ now = 1 /\ page = "loading" /\ machines = Machines /\ ui = Blank(Machines)
      /\ timer = Idle /\ pending = NoStop /\ recovered = NoIp /\ ip = NoIp
      /\ openSess = 0 /\ curSess = 0 /\ sessions = <<>>
      /\ stops = {} /\ serial = 0 /\ gone = {} /\ ran = 0 /\ cut = FALSE
      /\ kills = 0 /\ setups = 0
  BY DEF Init
<1>2. PICK b \in Setups : b = Blank(Machines)
  BY <1>1, NothingFacts
<1>3. b.off = NoSpan
  BY <1>2 DEF Blank
<1>4. prefs \in Setups /\ prefs.off = NoSpan
  <2>1. CASE prefs = b
    BY <1>2, <1>3, <2>1
  <2>2. CASE \E name \in Names : prefs = [b EXCEPT !.operator = name, !.locked = TRUE]
    BY <1>3, <2>2 DEF Setups, Anyone
  <2> QED BY <1>2, <2>1, <2>2 DEF Init
<1>5. Typed
  <2>1. NoStop.duration \in Times /\ NoStop.start <= NoStop.end
    BY NothingFacts DEF NoStop
  <2>2. sessions \in Seq(Sessions) /\ Len(sessions) = 0
    BY <1>0
  <2>3. {openSess, curSess} \subseteq 0..Len(sessions) /\ Len(sessions) <= MaxSessions
    BY <1>0, <1>1, <2>2
  <2>4. now \in Times /\ ran \in Times /\ 1 <= now
    <3>1. 1 \in Times /\ 0 \in Times /\ 1 <= 1
      BY NothingFacts
    <3> QED BY <1>0, <3>1
  <2>5. /\ machines \in (SUBSET Machines) \ {{}} /\ serial \in 0..MaxStops
        /\ gone \subseteq 1..MaxStops /\ kills \in 0..MaxKills /\ setups \in 0..MaxSetups
    BY <1>0, <1>1
  <2>6. ui \in Setups /\ timer \in Timers /\ ip \in Ips /\ recovered \in Ips
        /\ pending \in Finished /\ cut \in BOOLEAN /\ page \in {"down", "loading", "up"}
    BY <1>0, <1>2, NothingFacts
  <2> QED BY <1>0, <1>4, <2>1, <2>2, <2>3, <2>4, <2>5, <2>6 DEF Typed, TypeOK
<1>6. PageInStep
  BY <1>2, <1>3 DEF Init, PageInStep, Idle
<1>7. OneAtATime /\ SaveIsFine /\ ClaimsAreFine
  BY <1>0, <1>4 DEF OneAtATime, SaveIsFine, ClaimsAreFine, Idle
<1>8. RecordsAreOver /\ DowntimeCountedOnce /\ NeverOvercounts /\ AwayIsAway
  BY <1>4 DEF Init, RecordsAreOver, DowntimeCountedOnce, NeverOvercounts, AwayIsAway,
              Measured
<1>9. SessionsInOrder
  <2>1. DOMAIN sessions = {} /\ Len(sessions) = 0
    BY <1>0
  <2> QED BY <1>0, <2>1 DEF SessionsInOrder, InOrder
<1> QED BY <1>5, <1>6, <1>7, <1>8, <1>9 DEF Inv

(* Stops recorded so far stay apart from presence.                         *)
LEMMA OffsMove ==
    ASSUME Inv, SessMove
    PROVE  \A s \in stops : s.kind = "off" => \A i \in DOMAIN sessions' :
              s.end <= sessions'[i].start
                 \/ (i # curSess' /\ sessions'[i].end <= s.start)
<1> SUFFICES ASSUME NEW s \in stops, s.kind = "off", NEW i \in DOMAIN sessions'
             PROVE  s.end <= sessions'[i].start
                      \/ (i # curSess' /\ sessions'[i].end <= s.start)
  OBVIOUS
<1>1. CASE i \in DOMAIN sessions
  <2>1. s.end <= sessions[i].start \/ (i # curSess /\ sessions[i].end <= s.start)
    BY <1>1 DEF Inv, AwayIsAway
  <2> QED BY <1>1, <2>1 DEF SessMove
<1>2. CASE i \notin DOMAIN sessions
  <2>1. s.end <= now
    BY DEF Inv, RecordsAreOver
  <2> QED BY <1>2, <2>1 DEF SessMove
<1> QED BY <1>1, <1>2

(* So does a span that goes on, if presence is left alone meanwhile.       *)
LEMMA AwayStays ==
    ASSUME Inv, SessMove, UNCHANGED stops, prefs'.off = prefs.off,
           prefs.off # NoSpan => UNCHANGED sessVars
    PROVE  AwayIsAway'
<1>1. prefs'.off # NoSpan =>
          curSess' = 0 /\ \A i \in DOMAIN sessions' : sessions'[i].end <= prefs'.off.start
  BY DEF Inv, AwayIsAway, sessVars
<1> QED BY <1>1, OffsMove DEF AwayIsAway

(* Nothing recorded, nothing counted. *)
LEMMA StopsStay ==
    ASSUME Inv, UNCHANGED stops
    PROVE  DowntimeCountedOnce' /\ NeverOvercounts'
  BY DEF Inv, DowntimeCountedOnce, NeverOvercounts, Measured

(* The types of what a step moves through SessMove. *)
LEMMA MoveTypes ==
    ASSUME SessMove
    PROVE  /\ sessions' \in Seq(Sessions) /\ Len(sessions') <= MaxSessions
           /\ {openSess', curSess'} \subseteq 0..Len(sessions')
           /\ SessionsInOrder'
  BY DEF SessMove

-----------------------------------------------------------------------------
(* Name, machine, lock, preferences, and presence by itself. *)

(* The stop is saved again, or not; the span stays; presence moves.         *)
LEMMA SetupStep ==
    ASSUME Inv, page = "up",
           UNCHANGED <<now, page, pending, recovered, stops, serial, gone, timerVars, kills>>,
           machines' \in (SUBSET Machines) \ {{}},
           ui' \in Setups, ui'.off = ui.off, prefs' \in Setups, prefs'.off = prefs.off,
           NEW name \in Anyone, ip' \in {ip, Autosaved(timer, name)},
           setups' \in 0..MaxSetups,
           SessMove, openSess' = curSess', ui.off # NoSpan => UNCHANGED sessVars
    PROVE  Inv'
<1>1. /\ ui.off = prefs.off /\ now \in Times /\ timer \in Timers /\ ip \in Ips
      /\ (timer.running => ip.t = timer /\ recovered = NoIp)
  BY DEF Inv, PageInStep, Typed, TypeOK
<1>2. ip' = ip \/ (timer.running /\ ip' = [t |-> timer, operator |-> name, savedAt |-> now])
  BY DEF Autosaved
<1>3. ip' \in Ips
  BY <1>1, <1>2 DEF Ips
<1>4. Typed'
  BY <1>3, MoveTypes DEF Inv, Typed, TypeOK, timerVars
<1>5. PageInStep'
  BY <1>1, <1>2 DEF Inv, PageInStep, timerVars
<1>6. ip # NoIp <=> ip' # NoIp
  <2>1. timer.running => ip # NoIp
    BY <1>1 DEF NoIp, Idle
  <2>2. [t |-> timer, operator |-> name, savedAt |-> now].t = timer
    OBVIOUS
  <2>3. timer.running => [t |-> timer, operator |-> name, savedAt |-> now] # NoIp
    BY <2>2 DEF NoIp, Idle
  <2> QED BY <1>2, <2>1, <2>3
<1>7. ip'.t = ip.t
  BY <1>1, <1>2
<1>8. OneAtATime'
  BY <1>6, <1>7 DEF Inv, OneAtATime
<1>9. ClaimsAreFine'
  BY DEF Inv, ClaimsAreFine, Elapsed, timerVars
<1>10. SaveIsFine'
  <2>1. CASE ip' = ip
    BY <2>1 DEF Inv, SaveIsFine, timerVars
  <2>2. CASE timer.running /\ ip' = [t |-> timer, operator |-> name, savedAt |-> now]
    <3>1. /\ ip # NoIp /\ ip'.t = timer /\ ip'.savedAt = now /\ ip.t = timer
          /\ ip.savedAt \in Nat /\ now \in Nat /\ timer.startTs \in Nat
          /\ timer.accumulated \in Nat /\ timer.segStart \in Nat
      BY <1>1, <2>2, OperatorAssumption DEF Ips, Timers, Times, NoIp, Idle
    <3>2. Elapsed(timer) <= ran
      BY <2>2 DEF Inv, ClaimsAreFine
    <3>3. ip.savedAt <= now
      BY <3>1 DEF Inv, SaveIsFine
    <3>4. CASE timer.paused
      <4>1. /\ timer.n \in 1..serial /\ timer.startTs >= 1 /\ timer.segStart = 0
            /\ timer.startTs + timer.accumulated <= ip.savedAt /\ timer.accumulated <= ran
        BY <3>1, <3>4 DEF Inv, SaveIsFine
      <4> QED BY <2>2, <3>1, <3>3, <3>4, <4>1 DEF SaveIsFine, timerVars
    <3>5. CASE ~timer.paused
      <4>1. /\ timer.n \in 1..serial /\ timer.startTs >= 1
            /\ timer.startTs + timer.accumulated <= timer.segStart
            /\ timer.segStart <= ip.savedAt
        BY <3>1, <3>5 DEF Inv, SaveIsFine
      <4>2. timer.accumulated + (now - timer.segStart) <= ran
        BY <3>2, <3>5 DEF Elapsed
      <4> QED BY <2>2, <3>1, <3>3, <3>5, <4>1, <4>2 DEF SaveIsFine, timerVars
    <3> QED BY <3>4, <3>5
  <2> QED BY <1>2, <2>1, <2>2
<1>11. RecordsAreOver'
  BY <1>6, <1>7 DEF Inv, RecordsAreOver, Past
<1>12. AwayIsAway'
  BY <1>1, AwayStays
<1>13. DowntimeCountedOnce' /\ NeverOvercounts' /\ SessionsInOrder'
  BY StopsStay, MoveTypes
<1> QED BY <1>4, <1>5, <1>8, <1>9, <1>10, <1>11, <1>12, <1>13 DEF Inv
(* A page in use is up, has no unfinished stop on offer, and nobody at a    *)
(* machine while a span runs.                                              *)
LEMMA UpFacts ==
    ASSUME Inv
    PROVE  /\ Usable => page = "up" /\ recovered = NoIp
           /\ openSess # 0 => page = "up"
           /\ page = "up" => openSess = curSess /\ ui.off = prefs.off
           /\ page = "up" /\ ui.off # NoSpan => openSess = 0
           /\ timer.running => page = "up" /\ recovered = NoIp /\ ip # NoIp /\ ip.t = timer
           /\ ui \in Setups /\ ui.operator \in Anyone /\ ui.machine \in Machines
           /\ ui.off \in Spans
           /\ prefs \in Setups /\ timer \in Timers /\ ip \in Ips /\ recovered \in Ips
           /\ machines \in (SUBSET Machines) \ {{}}
<1>1. Usable => page = "up" /\ recovered = NoIp
  BY DEF Inv, Usable
<1>2. /\ openSess # 0 => page = "up"
      /\ page = "up" => openSess = curSess /\ ui.off = prefs.off
      /\ page = "up" /\ ui.off # NoSpan => openSess = 0
  BY DEF Inv, PageInStep, AwayIsAway
<1>3. /\ ui \in Setups /\ prefs \in Setups /\ timer \in Timers /\ ip \in Ips
      /\ recovered \in Ips /\ machines \in (SUBSET Machines) \ {{}}
  BY DEF Inv, Typed, TypeOK
<1>4. ui.operator \in Anyone /\ ui.machine \in Machines /\ ui.off \in Spans
  BY <1>3 DEF Setups
<1>5. timer.running => page = "up" /\ recovered = NoIp /\ ip # NoIp /\ ip.t = timer
  BY DEF Inv, PageInStep, Idle, NoIp
<1> QED BY <1>1, <1>2, <1>3, <1>4, <1>5

(* The bounded count of changes. *)
LEMMA SetupsCount ==
    ASSUME Inv
    PROVE  /\ setups < MaxSetups /\ setups' = setups + 1 => setups' \in 0..MaxSetups
           /\ UNCHANGED setups => setups' \in 0..MaxSetups
  BY OperatorAssumption DEF Inv, Typed, TypeOK

(* A name is typed in. *)
LEMMA SetOperatorInv ==
    ASSUME Inv, NEW name \in Anyone, setOperator(name)
    PROVE  Inv'
<1>1. page = "up" /\ SessMove /\ openSess' = curSess' /\ UNCHANGED sessVars
  BY UpFacts, StayMoves DEF setOperator, sessVars
<1>2. ui' \in Setups /\ ui'.off = ui.off
  BY UpFacts DEF setOperator, Setups
<1>3. setups' \in 0..MaxSetups
  BY SetupsCount DEF setOperator
<1> QED BY <1>1, <1>2, <1>3, UpFacts, SetupStep DEF setOperator

(* A lock opens a session for the name, if none runs and no span does.     *)
LEMMA LockSetupInv ==
    ASSUME Inv, lockSetup
    PROVE  Inv'
<1>1. page = "up" /\ now' = now /\ openSess = curSess
  BY UpFacts DEF lockSetup
<1>2. ui' \in Setups /\ ui'.off = ui.off /\ prefs' = ui' /\ ui.off = prefs.off
  BY UpFacts DEF lockSetup, Setups
<1>3. setups' \in 0..MaxSetups
  BY SetupsCount DEF lockSetup
<1>4. SessMove /\ openSess' = curSess' /\ (ui.off # NoSpan => UNCHANGED sessVars)
  <2>1. CASE UNCHANGED sessVars
    BY <1>1, <2>1, StayMoves DEF sessVars
  <2>2. CASE ui.off = NoSpan /\ openSess = 0 /\ openSession(ui.operator, ui.machine)
    BY <1>1, <2>2, UpFacts, OpenMoves
  <2>3. CASE ui.off = NoSpan /\ CloseAndOpen(ui.operator, ui.machine)
    BY <1>1, <2>3, UpFacts, CloseAndOpenMoves
  <2> QED BY <2>1, <2>2, <2>3 DEF lockSetup
<1> QED BY <1>1, <1>2, <1>3, <1>4, UpFacts, SetupStep DEF lockSetup

(* An unlocked setup keeps its session. *)
LEMMA UnlockSetupInv ==
    ASSUME Inv, unlockSetup
    PROVE  Inv'
<1>1. page = "up" /\ SessMove /\ openSess' = curSess' /\ UNCHANGED sessVars
  BY UpFacts, StayMoves DEF unlockSetup, sessVars
<1>2. ui' \in Setups /\ ui'.off = ui.off /\ prefs' = ui' /\ ui.off = prefs.off
  BY <1>1, UpFacts DEF unlockSetup, Setups
<1>3. setups' \in 0..MaxSetups
  BY SetupsCount DEF unlockSetup
<1> QED BY <1>1, <1>2, <1>3, UpFacts, SetupStep DEF unlockSetup

(* Another preference stores the span with the rest. *)
LEMMA ToggleDarkInv ==
    ASSUME Inv, toggleDark
    PROVE  Inv'
<1>1. page = "up" /\ SessMove /\ openSess' = curSess' /\ UNCHANGED sessVars
  BY UpFacts, StayMoves DEF toggleDark, sessVars, pageVars
<1>2. ui' \in Setups /\ ui'.off = ui.off /\ prefs' = ui /\ ui.off = prefs.off
  BY <1>1, UpFacts DEF toggleDark, pageVars
<1>3. setups' \in 0..MaxSetups
  BY SetupsCount DEF toggleDark
<1>4. machines' = machines /\ UNCHANGED timerVars /\ UNCHANGED <<page, pending, recovered>>
  BY DEF toggleDark, pageVars, timerVars
<1> QED BY <1>1, <1>2, <1>3, <1>4, UpFacts, SetupStep DEF toggleDark

(* The operator changes the machine, and is seen there from now on.        *)
LEMMA SwitchMachineInv ==
    ASSUME Inv, NEW m \in Machines, switchMachine(m)
    PROVE  Inv'
<1>1. page = "up" /\ now' = now /\ ui.off = NoSpan
  BY UpFacts DEF switchMachine
<1>2. ui' \in Setups /\ ui'.off = ui.off /\ prefs' = prefs
  BY UpFacts DEF switchMachine, Setups
<1>3. setups' \in 0..MaxSetups
  BY SetupsCount DEF switchMachine
<1>4. SessMove /\ openSess' = curSess'
  BY <1>1, UpFacts, CloseAndOpenMoves DEF switchMachine
<1> QED BY <1>1, <1>2, <1>3, <1>4, UpFacts, SetupStep DEF switchMachine

(* A machine disappears from the configuration. *)
LEMMA DropMachineInv ==
    ASSUME Inv, NEW m \in Machines, DropMachine(m)
    PROVE  Inv'
<1>1. page = "up" /\ SessMove /\ openSess' = curSess' /\ UNCHANGED sessVars
  BY UpFacts, StayMoves DEF DropMachine, sessVars
<1>2. machines' \in (SUBSET Machines) \ {{}}
  BY UpFacts DEF DropMachine
<1>3. First(machines') \in Machines
  BY <1>2, FirstIsConfigured
<1>4. PICK k \in Machines : ui' = [ui EXCEPT !.machine = k]
  BY <1>3, UpFacts DEF DropMachine
<1>5. ui' \in Setups /\ ui'.off = ui.off
  BY <1>4, UpFacts DEF Setups
<1>6. setups' \in 0..MaxSetups
  BY SetupsCount DEF DropMachine
<1>7. ip' \in {ip, Autosaved(timer, ui.operator)}
  BY DEF DropMachine
<1>8. UNCHANGED <<now, page, pending, recovered, prefs, stops, serial, gone, timerVars, kills>>
  BY DEF DropMachine
<1> QED BY <1>1, <1>2, <1>5, <1>6, <1>7, <1>8, UpFacts, SetupStep

(* New Shift closes the session and opens the next. *)
LEMMA StartNewShiftInv ==
    ASSUME Inv, startNewShift
    PROVE  Inv'
<1>1. page = "up" /\ now' = now
  BY UpFacts DEF startNewShift
<1>2. ui' \in Setups /\ ui'.off = ui.off /\ prefs' = ui' /\ ui.off = prefs.off
  BY <1>1, UpFacts, Facts DEF startNewShift, Setups
<1>3. setups' \in 0..MaxSetups
  BY SetupsCount DEF startNewShift
<1>4. SessMove /\ openSess' = curSess' /\ (ui.off # NoSpan => UNCHANGED sessVars)
  <2>1. CASE openSess = 0
    BY <1>1, <2>1, UpFacts, StayMoves DEF startNewShift, sessVars
  <2>2. CASE openSess # 0
    BY <1>1, <2>2, UpFacts, CloseAndOpenMoves DEF startNewShift
  <2> QED BY <2>1, <2>2
<1> QED BY <1>1, <1>2, <1>3, <1>4, UpFacts, SetupStep DEF startNewShift

(* A hidden tab saves the stop once more. *)
LEMMA VisibilitychangeInv ==
    ASSUME Inv, visibilitychange
    PROVE  Inv'
<1>1. page = "up"
  BY UpFacts DEF visibilitychange
<1>2. SessMove /\ openSess' = curSess' /\ UNCHANGED sessVars
  BY <1>1, UpFacts, StayMoves DEF visibilitychange, sessVars, pageVars
<1>3. setups' \in 0..MaxSetups
  BY SetupsCount DEF visibilitychange
<1>4. /\ machines' = machines /\ ui' = ui /\ prefs' = prefs
      /\ UNCHANGED <<now, page, pending, recovered, stops, serial, gone, timerVars, kills>>
  BY DEF visibilitychange, pageVars, timerVars
<1>5. ip' = Autosaved(timer, ui.operator)
  BY DEF visibilitychange
<1> QED BY <1>1, <1>2, <1>3, <1>4, <1>5, UpFacts, SetupStep

(* A sign of life of the open session, or its closing by another device.   *)
LEMMA HeartbeatInv ==
    ASSUME Inv, heartbeat \/ RemoteClose
    PROVE  Inv'
<1>1. openSess # 0 /\ page = "up" /\ openSess = curSess /\ ui.off = NoSpan
  BY UpFacts DEF heartbeat, RemoteClose
<1>2. curSess \in DOMAIN sessions /\ sessions[curSess] \in Sessions
  BY <1>1, Facts
<1>3. PICK end \in Times : /\ end # 0 => sessions[curSess].start <= end /\ end <= now
                           /\ sessions' = Saved(sessions, curSess, end)
  <2>1. CASE heartbeat
    BY <1>1, <2>1, NothingFacts DEF heartbeat
  <2>2. CASE RemoteClose
    <3>1. sessions[curSess].updatedAt \in Times
      BY <1>2 DEF Sessions
    <3>2. /\ sessions[curSess].start <= sessions[curSess].updatedAt
          /\ sessions[curSess].updatedAt <= now
      BY <1>2, Facts DEF InOrder
    <3>3. sessions' = Saved(sessions, curSess, sessions[curSess].updatedAt)
      BY <1>1, <2>2 DEF RemoteClose
    <3> QED BY <3>1, <3>2, <3>3
  <2> QED BY <2>1, <2>2
<1>4. Follows(sessions', curSess)
  BY <1>1, <1>3, SavedFollows
<1>5. /\ UNCHANGED <<now, page, pending, recovered, stops, serial, gone, timerVars, kills>>
      /\ UNCHANGED <<machines, ui, prefs, ip, openSess, curSess>>
  BY DEF heartbeat, RemoteClose
<1>6. SessMove
  <2>1. Len(sessions') = Len(sessions)
    BY <1>4 DEF Follows
  <2> QED BY <1>4, <1>5, <2>1, Facts, FollowMoves
<1>7. setups' \in 0..MaxSetups
  BY SetupsCount DEF heartbeat, RemoteClose
<1> QED BY <1>1, <1>5, <1>6, <1>7, UpFacts, SetupStep
-----------------------------------------------------------------------------
(* The stop timer. *)

(* A running timer's times are in order, and saved. *)
LEMMA TimerFacts ==
    ASSUME Inv
    PROVE  /\ timer.n \in 0..MaxStops /\ timer.startTs \in Nat /\ timer.segStart \in Nat
           /\ timer.accumulated \in Nat /\ ran \in Nat /\ ran <= now
           /\ serial \in 0..MaxStops /\ MaxStops \in Nat
           /\ timer.running =>
                /\ timer.n \in 1..serial /\ timer.startTs >= 1
                /\ IF timer.paused
                   THEN timer.segStart = 0 /\ timer.startTs + timer.accumulated <= now
                   ELSE /\ timer.startTs + timer.accumulated <= timer.segStart
                        /\ timer.segStart <= now
                /\ Elapsed(timer) <= ran /\ (~cut => Elapsed(timer) = ran)
                /\ Past(timer.n, timer.startTs) /\ pending = NoStop /\ prefs.off = NoSpan
<1>1. /\ timer.n \in 0..MaxStops /\ timer.startTs \in Nat /\ timer.segStart \in Nat
      /\ timer.accumulated \in Nat /\ ran \in Nat /\ now \in Nat
      /\ serial \in 0..MaxStops /\ MaxStops \in Nat
  BY OperatorAssumption DEF Inv, Typed, TypeOK, Timers, Times
<1>2. ran <= now
  BY DEF Inv, ClaimsAreFine
<1>3. ASSUME timer.running
      PROVE  /\ timer.n \in 1..serial /\ timer.startTs >= 1
             /\ IF timer.paused
                THEN timer.segStart = 0 /\ timer.startTs + timer.accumulated <= now
                ELSE /\ timer.startTs + timer.accumulated <= timer.segStart
                     /\ timer.segStart <= now
             /\ Elapsed(timer) <= ran /\ (~cut => Elapsed(timer) = ran)
             /\ Past(timer.n, timer.startTs) /\ pending = NoStop /\ prefs.off = NoSpan
  <2>1. ip.t = timer /\ ip # NoIp /\ ip.savedAt \in Nat
    BY <1>3, UpFacts, OperatorAssumption DEF Ips, Times
  <2>2. /\ timer.n \in 1..serial /\ timer.startTs >= 1 /\ ip.savedAt <= now
        /\ IF timer.paused
           THEN timer.segStart = 0 /\ timer.startTs + timer.accumulated <= ip.savedAt
           ELSE /\ timer.startTs + timer.accumulated <= timer.segStart
                /\ timer.segStart <= ip.savedAt
    BY <2>1 DEF Inv, SaveIsFine
  <2>3. IF timer.paused
        THEN timer.segStart = 0 /\ timer.startTs + timer.accumulated <= now
        ELSE /\ timer.startTs + timer.accumulated <= timer.segStart
             /\ timer.segStart <= now
    BY <1>1, <2>1, <2>2
  <2>4. Elapsed(timer) <= ran /\ (~cut => Elapsed(timer) = ran)
    BY <1>3 DEF Inv, ClaimsAreFine
  <2>5. Past(timer.n, timer.startTs) /\ pending = NoStop /\ prefs.off = NoSpan
    BY <2>1 DEF Inv, RecordsAreOver, OneAtATime
  <2> QED BY <2>2, <2>3, <2>4, <2>5
<1> QED BY <1>1, <1>2, <1>3

(* A stop, new or going on, is timed and saved at once. *)
LEMMA TimedStep ==
    ASSUME Inv, page = "up", UNCHANGED <<now, page, machines, stops, gone, kills, setups, prefs>>,
           pending = NoStop, pending' = NoStop, prefs.off = NoSpan, recovered' = NoIp,
           NEW t \in Timers, t.running, timer' = t,
           NEW name \in Anyone, ip' = [t |-> t, operator |-> name, savedAt |-> now],
           ui' \in Setups, ui'.off = ui.off,
           serial' \in 0..MaxStops, serial <= serial', t.n \in 1..serial', t.startTs >= 1,
           IF t.paused THEN t.segStart = 0 /\ t.startTs + t.accumulated <= now
           ELSE t.startTs + t.accumulated <= t.segStart /\ t.segStart <= now,
           ran' \in Nat, ran' <= now, cut' \in BOOLEAN,
           Elapsed(t) <= ran', ~cut' => Elapsed(t) = ran',
           Past(t.n, t.startTs), SessMove, openSess' = curSess'
    PROVE  Inv'
<1>1. /\ now \in Nat /\ now \in Times /\ MaxTime \in Nat /\ now <= MaxTime
      /\ ui.off = prefs.off /\ serial \in Nat
      /\ t.startTs \in Nat /\ t.accumulated \in Nat /\ t.segStart \in Nat
  BY Facts, UpFacts, TimerFacts, OperatorAssumption DEF Timers, Times
<1>2. ip' \in Ips /\ ran' \in Times /\ NoIp \in Ips
  BY <1>1, NothingFacts DEF Ips, Times
<1>3. Typed'
  BY <1>2, MoveTypes DEF Inv, Typed, TypeOK
<1>4. ip'.t = t /\ ip'.savedAt = now /\ ip' # NoIp
  BY DEF NoIp, Idle
<1>5. PageInStep' /\ OneAtATime'
  BY <1>1, <1>4 DEF PageInStep, OneAtATime
<1>6. ClaimsAreFine'
  BY DEF ClaimsAreFine, Elapsed
<1>7. SaveIsFine'
  <2>1. CASE t.paused
    BY <1>1, <1>4, <2>1 DEF SaveIsFine, Elapsed
  <2>2. CASE ~t.paused
    BY <1>1, <1>4, <2>2 DEF SaveIsFine, Elapsed
  <2> QED BY <2>1, <2>2
<1>8. RecordsAreOver'
  <2>1. \A s \in stops : s.n \in 1..serial' /\ {s.start, s.end} \subseteq Int /\ s.end <= now
    BY <1>1 DEF Inv, RecordsAreOver
  <2> QED BY <1>4, <2>1 DEF RecordsAreOver, Past
<1>9. AwayIsAway'
  BY AwayStays
<1>10. DowntimeCountedOnce' /\ NeverOvercounts' /\ SessionsInOrder'
  BY StopsStay, MoveTypes
<1> QED BY <1>3, <1>5, <1>6, <1>7, <1>8, <1>9, <1>10 DEF Inv

(* A new stop: no other is under way, so all that is recorded is before it. *)
LEMMA StartInv ==
    ASSUME Inv, start
    PROVE  Inv'
<1>1. /\ page = "up" /\ recovered = NoIp /\ ~timer.running /\ pending = NoStop
      /\ ui.off = NoSpan /\ prefs.off = NoSpan /\ serial < MaxStops /\ serial' = serial + 1
  BY UpFacts DEF start, TimerIdle
<1>2. PICK t : t = [running |-> TRUE, paused |-> FALSE, startTs |-> now, accumulated |-> 0,
                    segStart |-> now, machine |-> ui.machine, n |-> serial + 1]
  OBVIOUS
<1>3. /\ serial' \in 0..MaxStops /\ serial <= serial' /\ serial + 1 \in 1..serial'
      /\ serial + 1 \in 0..MaxStops /\ now \in Times /\ now \in Nat /\ now >= 1 /\ 0 \in Times
  BY <1>1, Facts, TimerFacts, NothingFacts
<1>4. t \in Timers /\ t.running /\ ~t.paused /\ t.n = serial + 1 /\ t.startTs = now
      /\ t.segStart = now /\ t.accumulated = 0
  BY <1>2, <1>3, UpFacts DEF Timers
<1>5. timer' = t /\ ip' = [t |-> t, operator |-> ui.operator, savedAt |-> now]
  BY <1>1, <1>2, <1>4 DEF start, Autosaved
<1>6. Past(t.n, t.startTs)
  <2>1. \A s \in stops : s.n \in 1..serial /\ s.end <= now
    BY DEF Inv, RecordsAreOver
  <2>2. \A s \in stops : s.n # serial + 1
    BY <2>1, TimerFacts
  <2> QED BY <1>4, <2>1, <2>2 DEF Past
<1>7. ran' \in Nat /\ ran' <= now /\ cut' \in BOOLEAN /\ Elapsed(t) = ran'
      /\ Elapsed(t) <= ran'
  <2>1. ran' = 0 /\ cut' = FALSE
    BY DEF start
  <2>2. Elapsed(t) = 0
    BY <1>3, <1>4 DEF Elapsed
  <2>3. cut' \in BOOLEAN
    BY <2>1
  <2>4. ran' \in Nat /\ ran' <= now
    BY <1>3, <2>1
  <2>5. Elapsed(t) = ran' /\ Elapsed(t) <= ran'
    BY <2>1, <2>2
  <2> QED BY <2>3, <2>4, <2>5
<1>8. SessMove /\ openSess' = curSess'
  BY <1>1, UpFacts, StayMoves DEF start, sessVars
<1>9. /\ UNCHANGED <<now, page, machines, stops, gone, kills, setups, prefs, ui>>
      /\ pending' = NoStop /\ recovered' = NoIp
  BY <1>1 DEF start
<1>10. /\ t.n \in 1..serial' /\ t.startTs >= 1 /\ t.startTs + t.accumulated <= t.segStart
       /\ t.segStart <= now
  BY <1>3, <1>4
<1> QED BY <1>1, <1>3, <1>4, <1>5, <1>6, <1>7, <1>8, <1>9, <1>10, UpFacts, TimedStep

(* A pause and its end: the time of the segment moves to accumulated, and a *)
(* new segment begins.                                                     *)
LEMMA PauseInv ==
    ASSUME Inv, pause \/ resume
    PROVE  Inv'
<1>1. page = "up" /\ recovered = NoIp /\ timer.running
  <2>1. timer.running
    BY DEF pause, resume, Inv, PageInStep, Idle
  <2> QED BY <2>1, UpFacts
<1>2. /\ UNCHANGED <<now, page, machines, ui, pending, recovered, prefs, sessVars,
                     stops, serial, gone, ran, cut, kills, setups>>
      /\ ip' = Autosaved(timer', ui.operator)
  BY DEF pause, resume
<1>3. PICK t : t = timer'
  OBVIOUS
<1>4. /\ t \in Timers /\ t.running /\ t.n = timer.n /\ t.startTs = timer.startTs
      /\ IF t.paused
         THEN /\ ~timer.paused /\ t.segStart = 0
              /\ t.accumulated = timer.accumulated + (now - timer.segStart)
         ELSE timer.paused /\ t.segStart = now /\ t.accumulated = timer.accumulated
  <2>1. CASE pause
    <3>1. timer.accumulated + (now - timer.segStart) \in Times /\ 0 \in Times
      <4>1. /\ timer.startTs + timer.accumulated <= timer.segStart
            /\ timer.segStart <= now
        BY <1>1, <2>1, TimerFacts DEF pause
      <4>2. PICK a \in Nat, g \in Nat, b \in Nat :
                a = timer.accumulated /\ g = timer.segStart /\ b = timer.startTs
        BY TimerFacts
      <4>3. a + (now - g) \in Nat /\ a + (now - g) <= now
        BY <4>1, <4>2, Facts
      <4>4. a + (now - g) \in 0..MaxTime
        BY <4>3, Facts
      <4> QED BY <4>2, <4>4, NothingFacts DEF Times
    <3> QED BY <1>1, <1>3, <2>1, <3>1, UpFacts DEF pause, Timers
  <2>2. CASE resume
    BY <1>1, <1>3, <2>2, Facts, UpFacts DEF resume, Timers
  <2> QED BY <2>1, <2>2
<1>5. ip' = [t |-> t, operator |-> ui.operator, savedAt |-> now]
  BY <1>2, <1>3, <1>4 DEF Autosaved
<1>6. Elapsed(t) = Elapsed(timer)
  BY <1>4, Facts, TimerFacts DEF Elapsed
<1>7. /\ IF t.paused THEN t.segStart = 0 /\ t.startTs + t.accumulated <= now
         ELSE t.startTs + t.accumulated <= t.segStart /\ t.segStart <= now
      /\ t.n \in 1..serial' /\ t.startTs >= 1 /\ Past(t.n, t.startTs)
      /\ pending = NoStop /\ prefs.off = NoSpan
      /\ Elapsed(t) <= ran' /\ (~cut' => Elapsed(t) = ran')
  BY <1>1, <1>2, <1>4, <1>6, Facts, TimerFacts
<1>8. ran' \in Nat /\ ran' <= now /\ cut' \in BOOLEAN /\ serial' \in 0..MaxStops
      /\ serial <= serial'
  <2>1. cut \in BOOLEAN
    BY DEF Inv, Typed, TypeOK
  <2> QED BY <1>2, <2>1, TimerFacts
<1>9. SessMove /\ openSess' = curSess'
  BY <1>1, <1>2, UpFacts, StayMoves DEF sessVars
<1> QED BY <1>1, <1>2, <1>3, <1>4, <1>5, <1>7, <1>8, <1>9, UpFacts, TimedStep
(* A stop is finished: it waits for its reason with what its timer claims.  *)
LEMMA FinishedStep ==
    ASSUME Inv, page = "up", prefs.off = NoSpan,
           UNCHANGED <<now, page, machines, prefs, sessVars, stops, serial, gone, ran, cut,
                       kills, setups>>,
           NEW p \in Finished, pending' = p, timer' = Idle, ip' = NoIp, recovered' = NoIp,
           ui' \in Setups, ui'.off = ui.off,
           p.n \in 1..serial, 1 <= p.start, p.start + p.duration <= p.end, p.end <= now,
           p.duration <= ran, ~cut => p.duration = ran, Past(p.n, p.start)
    PROVE  Inv'
<1>1. p.start \in Nat /\ p.end \in Nat /\ p.duration \in Nat
  BY OperatorAssumption DEF Finished, Times
<1>2. p.start <= p.end /\ p.duration \in Times
  BY <1>1 DEF Finished
<1>3. Typed'
  BY <1>2, NothingFacts DEF Inv, Typed, TypeOK, sessVars
<1>4. PageInStep' /\ OneAtATime'
  BY UpFacts DEF PageInStep, OneAtATime, Idle, sessVars
<1>5. SaveIsFine' /\ ClaimsAreFine'
  BY TimerFacts DEF SaveIsFine, ClaimsAreFine, Idle
<1>6. RecordsAreOver'
  BY DEF Inv, RecordsAreOver, Past
<1>7. SessMove
  BY StayMoves DEF sessVars
<1>8. AwayIsAway' /\ DowntimeCountedOnce' /\ NeverOvercounts' /\ SessionsInOrder'
  BY <1>7, AwayStays, StopsStay, MoveTypes
<1> QED BY <1>3, <1>4, <1>5, <1>6, <1>8 DEF Inv

(* Stop: the segment under way counts. *)
LEMMA HandleStopInv ==
    ASSUME Inv, handleStop
    PROVE  Inv'
<1>1. page = "up" /\ recovered = NoIp /\ timer.running
  BY UpFacts DEF handleStop
<1>2. PICK p : p = pending'
  OBVIOUS
<1>3. PICK a \in Nat, g \in Nat, b \in Nat :
          a = timer.accumulated /\ g = timer.segStart /\ b = timer.startTs
  BY TimerFacts
<1>4. PICK d \in Times : d = Elapsed(timer) /\ b + d <= now
  <2>1. CASE timer.paused
    <3>1. Elapsed(timer) = a + 0 /\ b + a <= now
      BY <1>1, <1>3, <2>1, TimerFacts DEF Elapsed
    <3> QED BY <3>1, Facts DEF Times
  <2>2. CASE ~timer.paused
    <3>1. Elapsed(timer) = a + (now - g) /\ b + a <= g /\ g <= now
      BY <1>1, <1>3, <2>2, TimerFacts DEF Elapsed
    <3>2. a + (now - g) \in 0..MaxTime /\ b + (a + (now - g)) <= now
      BY <3>1, Facts
    <3> QED BY <3>1, <3>2 DEF Times
  <2> QED BY <2>1, <2>2
<1>5. p = [start |-> timer.startTs, end |-> now, n |-> timer.n, machine |-> timer.machine,
           duration |-> d]
  BY <1>2, <1>4 DEF handleStop, Elapsed
<1>6. p \in Finished /\ p.n = timer.n /\ p.start = b /\ p.end = now /\ p.duration = d
  BY <1>3, <1>5, Facts, UpFacts DEF Finished, Timers
<1>7. /\ p.n \in 1..serial /\ 1 <= p.start /\ p.start + p.duration <= p.end /\ p.end <= now
      /\ p.duration <= ran /\ (~cut => p.duration = ran) /\ Past(p.n, p.start)
      /\ prefs.off = NoSpan
  BY <1>1, <1>3, <1>4, <1>6, Facts, TimerFacts
<1>8. /\ UNCHANGED <<now, page, machines, ui, prefs, sessVars, stops, serial, gone, ran,
                     cut, kills, setups>>
      /\ timer' = Idle /\ ip' = NoIp /\ recovered' = NoIp
  BY <1>1 DEF handleStop
<1> QED BY <1>1, <1>2, <1>6, <1>7, <1>8, UpFacts, FinishedStep

(* What the modal offers: a saved stop of a page that died.                *)
LEMMA RecoveredFacts ==
    ASSUME Inv, page = "up", recovered # NoIp
    PROVE  /\ ~timer.running /\ recovered = ip /\ cut /\ pending = NoStop
           /\ prefs.off = NoSpan /\ ip.t \in Timers /\ ip.operator \in Anyone
           /\ ip.savedAt \in Times /\ ip.savedAt \in Nat /\ ip.savedAt <= now
           /\ ip.t.running /\ ip.t.startTs \in Nat
           /\ ip.t.accumulated \in Nat /\ ip.t.segStart \in Nat
           /\ ip.t.n \in 1..serial /\ ip.t.startTs >= 1 /\ Past(ip.t.n, ip.t.startTs)
           /\ IF ip.t.paused
              THEN /\ ip.t.segStart = 0 /\ ip.t.startTs + ip.t.accumulated <= ip.savedAt
                   /\ ip.t.accumulated <= ran
              ELSE /\ ip.t.startTs + ip.t.accumulated <= ip.t.segStart
                   /\ ip.t.segStart <= ip.savedAt
                   /\ ip.t.accumulated + (ip.savedAt - ip.t.segStart) <= ran
<1>1. ~timer.running /\ recovered = ip
  BY DEF Inv, PageInStep
<1>2. pending = NoStop /\ prefs.off = NoSpan /\ ip.t.running
  BY <1>1 DEF Inv, OneAtATime
<1>3. /\ ip.t \in Timers /\ ip.operator \in Anyone /\ ip.savedAt \in Times
      /\ ip.savedAt \in Nat
  BY UpFacts, OperatorAssumption DEF Ips, Times
<1>4. ip.t.startTs \in Nat /\ ip.t.accumulated \in Nat /\ ip.t.segStart \in Nat
  BY <1>3, OperatorAssumption DEF Timers, Times
<1>5. Past(ip.t.n, ip.t.startTs)
  BY <1>1 DEF Inv, RecordsAreOver
<1>6. cut
  BY <1>1 DEF Inv, SaveIsFine
<1> QED BY <1>1, <1>2, <1>3, <1>4, <1>5, <1>6 DEF Inv, SaveIsFine

(* A configured machine, whatever the record says. *)
LEMMA ValidFacts ==
    ASSUME Inv, NEW m
    PROVE  Valid(m) \in Machines
BY UpFacts, FirstIsConfigured DEF Valid

(* Finalize: the stop ended when it was last saved. *)
LEMMA RecoverFinalizeInv ==
    ASSUME Inv, recoverFinalize
    PROVE  Inv'
<1>1. page = "up" /\ recovered # NoIp
  BY DEF recoverFinalize
<1>2. PICK p : p = pending'
  OBVIOUS
<1>3. PICK a \in Nat, g \in Nat, b \in Nat, v \in Nat :
          a = ip.t.accumulated /\ g = ip.t.segStart /\ b = ip.t.startTs /\ v = ip.savedAt
  BY <1>1, RecoveredFacts
<1>4. PICK d \in Times :
          /\ d = ip.t.accumulated + IF ip.t.paused \/ ip.t.segStart = 0 THEN 0
                                    ELSE Larger(0, ip.savedAt - ip.t.segStart)
          /\ b + d <= v /\ d <= ran
  <2>1. CASE ip.t.paused
    <3>1. b + a <= v /\ v <= now /\ a <= ran
      BY <1>1, <1>3, <2>1, RecoveredFacts
    <3>2. a \in 0..MaxTime
      BY <3>1, Facts
    <3>3. a = a + 0
      OBVIOUS
    <3> QED BY <1>3, <2>1, <3>1, <3>2, <3>3 DEF Times
  <2>2. CASE ~ip.t.paused
    <3>1. b + a <= g /\ g <= v /\ v <= now /\ a + (v - g) <= ran /\ b >= 1
      BY <1>1, <1>3, <2>2, RecoveredFacts
    <3>2. g # 0 /\ Larger(0, v - g) = v - g
      BY <3>1 DEF Larger
    <3>3. a + (v - g) \in 0..MaxTime /\ b + (a + (v - g)) <= v
      BY <3>1, Facts
    <3> QED BY <1>3, <2>2, <3>1, <3>2, <3>3 DEF Times
  <2> QED BY <2>1, <2>2
<1>5. p = [start |-> ip.t.startTs, end |-> ip.savedAt, n |-> ip.t.n,
           machine |-> ip.t.machine, duration |-> d]
  BY <1>1, <1>2, <1>4, RecoveredFacts DEF recoverFinalize
<1>6. p \in Finished /\ p.n = ip.t.n /\ p.start = b /\ p.end = v /\ p.duration = d
  BY <1>1, <1>3, <1>5, RecoveredFacts DEF Finished, Timers
<1>7. /\ p.n \in 1..serial /\ 1 <= p.start /\ p.start + p.duration <= p.end /\ p.end <= now
      /\ p.duration <= ran /\ (~cut => p.duration = ran) /\ Past(p.n, p.start)
      /\ prefs.off = NoSpan
  BY <1>1, <1>3, <1>4, <1>6, RecoveredFacts
<1>8. /\ UNCHANGED <<now, page, machines, prefs, sessVars, stops, serial, gone, ran,
                     cut, kills, setups>>
      /\ timer' = Idle /\ ip' = NoIp /\ recovered' = NoIp
  <2>1. timer = Idle
    BY <1>1, RecoveredFacts DEF Inv, PageInStep
  <2> QED BY <2>1 DEF recoverFinalize, timerVars
<1>9. ui' \in Setups /\ ui'.off = ui.off
  <2>1. PICK k \in Machines, name \in Anyone : ui' = [ui EXCEPT !.operator = name, !.machine = k]
    BY <1>1, RecoveredFacts, ValidFacts DEF recoverFinalize
  <2> QED BY <2>1, UpFacts DEF Setups
<1> QED BY <1>1, <1>2, <1>6, <1>7, <1>8, <1>9, FinishedStep

(* Resume: a segment begins now; what ran since the last save is not        *)
(* claimed.                                                                *)
LEMMA RecoverResumeInv ==
    ASSUME Inv, recoverResume
    PROVE  Inv'
<1>1. page = "up" /\ recovered # NoIp /\ recovered = ip
  BY RecoveredFacts DEF recoverResume
<1>2. PICK t : t = [ip.t EXCEPT !.running = TRUE, !.paused = ip.t.paused,
                               !.segStart = IF ip.t.paused THEN 0 ELSE now]
  OBVIOUS
<1>3. ip.t.paused \/ ip.t.segStart # 0
  BY <1>1, RecoveredFacts
<1>4. ip.t.paused \in BOOLEAN
  BY <1>1, RecoveredFacts DEF Timers
<1>5. (ip.t.paused \/ ip.t.segStart = 0) = ip.t.paused
  BY <1>3, <1>4
<1>6. timer' = t
  BY <1>1, <1>2, <1>5 DEF recoverResume
<1>7. /\ t \in Timers /\ t.running /\ t.paused = ip.t.paused /\ t.n = ip.t.n
      /\ t.startTs = ip.t.startTs /\ t.accumulated = ip.t.accumulated
      /\ t.segStart = IF ip.t.paused THEN 0 ELSE now
  <2>1. now \in Times /\ 0 \in Times /\ ip.t \in Timers
    BY <1>1, Facts, NothingFacts, RecoveredFacts
  <2> QED BY <1>2, <2>1 DEF Timers
<1>8. ip' = [t |-> t, operator |-> ip.operator, savedAt |-> now]
  BY <1>1, <1>6, <1>7 DEF recoverResume, Autosaved
<1>9. IF t.paused THEN t.segStart = 0 /\ t.startTs + t.accumulated <= now
      ELSE t.startTs + t.accumulated <= t.segStart /\ t.segStart <= now
  BY <1>1, <1>7, Facts, RecoveredFacts
<1>10. Elapsed(t) <= ran
  <2>1. Elapsed(t) = t.accumulated
    BY <1>1, <1>7, Facts, RecoveredFacts DEF Elapsed
  <2>2. ran \in Nat /\ t.accumulated \in Nat
    BY <1>1, <1>7, RecoveredFacts, TimerFacts
  <2>3. t.accumulated <= ran
    BY <1>1, <1>7, <2>2, RecoveredFacts
  <2> QED BY <2>1, <2>3
<1>11. /\ UNCHANGED <<now, page, machines, pending, prefs, stops, serial, gone, ran, cut,
                      kills, setups>>
       /\ recovered' = NoIp
  BY DEF recoverResume
<1>12. ui' \in Setups /\ ui'.off = ui.off
  <2>1. PICK k \in Machines, name \in Anyone : ui' = [ui EXCEPT !.operator = name, !.machine = k]
    BY <1>1, RecoveredFacts, ValidFacts DEF recoverResume
  <2> QED BY <2>1, UpFacts DEF Setups
<1>13. SessMove /\ openSess' = curSess'
  <2>1. CASE openSess # 0
    BY <1>1, <1>11, <2>1, UpFacts, StayMoves DEF recoverResume, sessVars
  <2>2. CASE openSess = 0
    BY <1>1, <1>11, <2>2, UpFacts, RecoveredFacts, ValidFacts, OpenMoves
    DEF recoverResume
  <2> QED BY <2>1, <2>2
<1>14. /\ serial' \in 0..MaxStops /\ serial <= serial' /\ ran' \in Nat /\ ran' <= now
       /\ ~cut' => Elapsed(t) = ran'
  BY <1>1, <1>11, TimerFacts, RecoveredFacts
<1>15. cut' \in BOOLEAN
  BY <1>11 DEF Inv, Typed, TypeOK
<1>16. /\ t.n \in 1..serial' /\ t.startTs >= 1 /\ Past(t.n, t.startTs)
       /\ pending = NoStop /\ prefs.off = NoSpan /\ ip.operator \in Anyone
  BY <1>1, <1>7, <1>11, RecoveredFacts
<1>17. Elapsed(t) <= ran' /\ pending' = NoStop
  BY <1>10, <1>11, <1>16
<1> QED BY <1>1, <1>6, <1>7, <1>8, <1>9, <1>11, <1>12, <1>13, <1>14, <1>15, <1>16, <1>17,
           TimedStep
-----------------------------------------------------------------------------
(* What is recorded, and what is given up. *)

(* A page in use with no stop under way has none saved either.             *)
LEMMA IdleFacts ==
    ASSUME Inv, Usable, TimerIdle
    PROVE  page = "up" /\ recovered = NoIp /\ ip = NoIp /\ pending = NoStop
             /\ ui.off = NoSpan /\ prefs.off = NoSpan
  BY UpFacts DEF Inv, PageInStep, TimerIdle

(* A finished stop is alone. *)
LEMMA PendingFacts ==
    ASSUME Inv, pending # NoStop
    PROVE  /\ page = "up" /\ ip = NoIp /\ prefs.off = NoSpan /\ ui.off = NoSpan
           /\ ~timer.running /\ pending.n \in 1..serial
           /\ pending.start \in Nat /\ pending.end \in Nat /\ pending.duration \in Nat
           /\ 1 <= pending.start /\ pending.start + pending.duration <= pending.end
           /\ pending.end <= now /\ pending.duration <= ran
           /\ (~cut => pending.duration = ran) /\ Past(pending.n, pending.start)
<1>1. page = "up" /\ ip = NoIp /\ prefs.off = NoSpan
  BY DEF Inv, PageInStep, OneAtATime
<1>2. ui.off = NoSpan /\ ~timer.running
  BY <1>1, UpFacts
<1>3. pending.start \in Nat /\ pending.end \in Nat /\ pending.duration \in Nat
  BY OperatorAssumption DEF Inv, Typed, Finished, Times
<1> QED BY <1>1, <1>2, <1>3 DEF Inv, ClaimsAreFine, RecordsAreOver

(* What is given up are stops that were begun. *)
LEMMA GivenUp ==
    ASSUME Inv, NEW n \in 1..serial
    PROVE  gone \cup {n} \subseteq 1..MaxStops
<1>1. gone \subseteq 1..MaxStops
  BY DEF Inv, Typed, TypeOK
<1>2. n \in 1..MaxStops
  BY TimerFacts
<1> QED BY <1>1, <1>2

(* A record comes after all others of its kind, claims no more than its     *)
(* timer ran: the sums stay right.                                         *)
LEMMA RecordedStep ==
    ASSUME Inv, NEW s, stops' = stops \cup {s},
           s.kind # "manual" => Past(s.n, s.start),
           s.kind = "timed" => s.duration <= s.ran /\ (~s.cut => s.duration = s.ran)
    PROVE  DowntimeCountedOnce' /\ NeverOvercounts'
<1>1. NeverOvercounts'
  BY DEF Inv, NeverOvercounts
<1>2. ASSUME NEW q \in Measured', NEW r \in Measured', q.id # r.id
      PROVE  q.n # r.n /\ (q.end <= r.start \/ r.end <= q.start)
  <2>1. CASE q \in Measured /\ r \in Measured
    BY <1>2, <2>1 DEF Inv, DowntimeCountedOnce
  <2>2. CASE q \in Measured /\ r = s
    BY <1>2, <2>2 DEF Measured, Past
  <2>3. CASE r \in Measured /\ q = s
    BY <1>2, <2>3 DEF Measured, Past
  <2>4. q \in Measured \cup {s} /\ r \in Measured \cup {s}
    BY DEF Measured
  <2> QED BY <1>2, <2>1, <2>2, <2>3, <2>4
<1> QED BY <1>1, <1>2 DEF DowntimeCountedOnce

(* With nothing under way any more, the past is all over. *)
LEMMA NothingUnderWay ==
    ASSUME Inv, now' = now, serial' \in Nat, serial <= serial', serial \in Nat,
           NEW s, stops' = stops \cup {s}, s.n \in 1..serial',
           s.start \in Int, s.end \in Int, s.end <= now,
           ip' = NoIp, pending' = NoStop, prefs'.off = NoSpan
    PROVE  RecordsAreOver'
<1>1. \A r \in stops' : r.n \in 1..serial' /\ {r.start, r.end} \subseteq Int /\ r.end <= now
  BY DEF Inv, RecordsAreOver
<1> QED BY <1>1 DEF RecordsAreOver

(* The stop is recorded, with its reason. *)
LEMMA HandleSaveInv ==
    ASSUME Inv, handleSave
    PROVE  Inv'
<1>1. page = "up" /\ recovered = NoIp /\ pending # NoStop
  BY UpFacts DEF handleSave
<1>2. /\ UNCHANGED <<now, page, machines, ui, recovered, ip, sessVars, serial, gone, timer,
                     ran, cut, kills, setups>>
      /\ pending' = NoStop /\ prefs' = ui
  BY DEF handleSave, timerVars
<1>3. PICK s : s = Stop("timed", pending.n, pending.machine, ui.operator,
                        pending.start, pending.end, pending.duration)
  OBVIOUS
<1>4. stops' = stops \cup {s}
  BY <1>3 DEF handleSave
<1>5. /\ s.kind = "timed" /\ s.n = pending.n /\ s.start = pending.start /\ s.end = pending.end
      /\ s.duration = pending.duration /\ s.ran = ran /\ s.cut = cut
  BY <1>3 DEF Stop
<1>6. DowntimeCountedOnce' /\ NeverOvercounts'
  BY <1>1, <1>4, <1>5, PendingFacts, RecordedStep
<1>7. RecordsAreOver'
  BY <1>1, <1>2, <1>4, <1>5, PendingFacts, TimerFacts, NothingUnderWay
<1>8. Typed'
  <2>1. NoStop.duration \in Times /\ NoStop.start <= NoStop.end
    BY NothingFacts DEF NoStop
  <2> QED BY <1>2, <2>1, NothingFacts, UpFacts DEF Inv, Typed, TypeOK, sessVars
<1>9. PageInStep' /\ OneAtATime'
  BY <1>1, <1>2, UpFacts, PendingFacts DEF Inv, PageInStep, OneAtATime, sessVars
<1>10. SaveIsFine' /\ ClaimsAreFine'
  BY <1>1, <1>2, PendingFacts DEF Inv, SaveIsFine, ClaimsAreFine, Elapsed
<1>11. SessMove
  BY <1>2, StayMoves
<1>12. AwayIsAway'
  BY <1>1, <1>2, <1>4, <1>5, <1>11, OffsMove, PendingFacts DEF AwayIsAway
<1> QED BY <1>6, <1>7, <1>8, <1>9, <1>10, <1>11, <1>12, MoveTypes DEF Inv

(* The finished stop, or the one on offer, is dropped. *)
LEMMA DiscardInv ==
    ASSUME Inv, handleDiscardPending \/ recoverDiscard
    PROVE  Inv'
<1>1. /\ page = "up" /\ ~timer.running /\ prefs.off = NoSpan
      /\ \E n \in 1..serial : gone' = gone \cup {n}
      /\ ip' = NoIp /\ pending' = NoStop /\ recovered' = NoIp
      /\ UNCHANGED <<now, page, machines, ui, prefs, sessVars, stops, serial, timer, ran,
                     cut, kills, setups>>
  <2>1. CASE handleDiscardPending
    BY <2>1, UpFacts, PendingFacts DEF handleDiscardPending, timerVars
  <2>2. CASE recoverDiscard
    BY <2>2, RecoveredFacts DEF recoverDiscard, timerVars
  <2> QED BY <2>1, <2>2
<1>2. timer = Idle
  BY <1>1 DEF Inv, PageInStep
<1>3. gone' \subseteq 1..MaxStops
  BY <1>1, GivenUp
<1>4. Typed'
  <2>1. NoStop.duration \in Times /\ NoStop.start <= NoStop.end
    BY NothingFacts DEF NoStop
  <2> QED BY <1>1, <1>3, <2>1, NothingFacts DEF Inv, Typed, TypeOK, sessVars
<1>5. PageInStep' /\ OneAtATime'
  BY <1>1, <1>2, UpFacts DEF PageInStep, OneAtATime, Idle, sessVars
<1>6. SaveIsFine' /\ ClaimsAreFine'
  BY <1>1, <1>2, TimerFacts DEF SaveIsFine, ClaimsAreFine, Idle
<1>7. RecordsAreOver'
  BY <1>1 DEF Inv, RecordsAreOver, Past
<1>8. SessMove
  BY <1>1, StayMoves
<1>9. AwayIsAway' /\ DowntimeCountedOnce' /\ NeverOvercounts' /\ SessionsInOrder'
  BY <1>1, <1>8, AwayStays, StopsStay, MoveTypes
<1> QED BY <1>4, <1>5, <1>6, <1>7, <1>9 DEF Inv

(* A report by hand counts for the downtime of no timer. *)
LEMMA ManualSaveInv ==
    ASSUME Inv, NEW m \in machines, NEW d \in Reports, handleManualSave(m, d)
    PROVE  Inv'
<1>1. /\ page = "up" /\ recovered = NoIp /\ ip = NoIp /\ pending = NoStop
      /\ ui.off = NoSpan /\ prefs.off = NoSpan
  BY IdleFacts DEF handleManualSave
<1>2. /\ UNCHANGED <<now, page, machines, ui, timer, pending, recovered, openSess, ip,
                     curSess, sessions, gone, ran, cut, kills, setups>>
      /\ prefs' = ui
  BY DEF handleManualSave, pageVars
<1>3. PICK s : s = Stop("manual", serial', m, ui.operator, now - d, now, d)
  OBVIOUS
<1>4. stops' = stops \cup {s}
  BY <1>3 DEF handleManualSave
<1>5. s.kind = "manual" /\ s.n = serial' /\ s.start = now - d /\ s.end = now
  BY <1>3 DEF Stop
<1>6. serial' = serial + 1 /\ serial < MaxStops
  BY DEF handleManualSave
<1>7. /\ serial \in Nat /\ serial' \in Nat /\ serial <= serial' /\ serial' \in 0..MaxStops
      /\ s.n \in 1..serial' /\ s.start \in Int /\ s.end \in Int /\ s.end <= now
  <2>1. d \in Nat
    BY OperatorAssumption
  <2> QED BY <1>5, <1>6, <2>1, TimerFacts, Facts
<1>8. DowntimeCountedOnce' /\ NeverOvercounts'
  BY <1>4, <1>5, RecordedStep
<1>9. RecordsAreOver'
  BY <1>1, <1>2, <1>4, <1>7, NothingUnderWay
<1>10. Typed'
  BY <1>2, <1>7, UpFacts DEF Inv, Typed, TypeOK
<1>11. PageInStep' /\ OneAtATime'
  BY <1>1, <1>2 DEF Inv, PageInStep, OneAtATime
<1>12. SaveIsFine' /\ ClaimsAreFine'
  BY <1>1, <1>2 DEF Inv, SaveIsFine, ClaimsAreFine, Elapsed
<1>13. SessMove
  BY <1>2, StayMoves DEF sessVars
<1>14. AwayIsAway'
  BY <1>1, <1>2, <1>4, <1>5, <1>13, OffsMove DEF AwayIsAway
<1> QED BY <1>8, <1>9, <1>10, <1>11, <1>12, <1>13, <1>14, MoveTypes DEF Inv
-----------------------------------------------------------------------------
(* Off machine. *)

(* The operator goes: the session is closed, the span begins.              *)
LEMMA StartOffMachineInv ==
    ASSUME Inv, startOffMachine
    PROVE  Inv'
<1>1. /\ page = "up" /\ recovered = NoIp /\ ip = NoIp /\ pending = NoStop
      /\ ui.off = NoSpan /\ prefs.off = NoSpan /\ ~timer.running
  BY IdleFacts DEF startOffMachine, TimerIdle
<1>2. /\ UNCHANGED <<now, page, machines, pending, recovered, ip, stops, gone, timer, ran,
                     cut, kills, setups>>
      /\ prefs' = ui' /\ serial' = serial + 1 /\ serial < MaxStops /\ closeSession
  BY DEF startOffMachine, timerVars
<1>3. PICK sp : sp = [machine |-> ui.machine, operator |-> ui.operator, start |-> now,
                      n |-> serial + 1]
  OBVIOUS
<1>4. serial + 1 \in 0..MaxStops /\ serial \in Nat /\ serial + 1 \in 1..serial'
  BY <1>2, TimerFacts
<1>5. sp \in Spans /\ sp.start = now /\ sp.n = serial + 1
  BY <1>3, <1>4, UpFacts, Facts DEF Spans
<1>6. ui' = [ui EXCEPT !.off = sp]
  BY <1>2, <1>3 DEF startOffMachine
<1>7. ui' \in Setups /\ ui'.off = sp
  BY <1>5, <1>6, UpFacts DEF Setups
<1>8. SessMove /\ openSess' = 0 /\ curSess' = 0
  BY <1>1, <1>2, CloseMoves
<1>9. Typed'
  BY <1>2, <1>4, <1>7, <1>8, MoveTypes DEF Inv, Typed, TypeOK
<1>10. PageInStep' /\ OneAtATime'
  BY <1>1, <1>2, <1>8 DEF Inv, PageInStep, OneAtATime
<1>11. SaveIsFine' /\ ClaimsAreFine'
  BY <1>1, <1>2, <1>4, <1>5, <1>7, Facts DEF Inv, SaveIsFine, ClaimsAreFine, Elapsed
<1>12. RecordsAreOver'
  <2>1. \A s \in stops : s.n \in 1..serial /\ {s.start, s.end} \subseteq Int /\ s.end <= now
    BY DEF Inv, RecordsAreOver
  <2>2. \A s \in stops : s.n \in 1..serial' /\ s.n # serial + 1
    BY <1>2, <1>4, <2>1
  <2> QED BY <1>1, <1>2, <1>5, <1>7, <2>1, <2>2 DEF RecordsAreOver, Past
<1>13. AwayIsAway'
  <2>1. \A i \in DOMAIN sessions' : sessions'[i].end <= now
    <3> SUFFICES ASSUME NEW i \in DOMAIN sessions' PROVE sessions'[i].end <= now
      OBVIOUS
    <3>1. InOrder(sessions', curSess', now')
      BY <1>8, MoveTypes DEF SessionsInOrder
    <3>2. sessions'[i].end = 0 \/ sessions'[i].end <= now
      BY <1>2, <3>1 DEF InOrder
    <3> QED BY <3>2, Facts
  <2> QED BY <1>2, <1>5, <1>7, <1>8, <2>1, OffsMove DEF AwayIsAway
<1>14. DowntimeCountedOnce' /\ NeverOvercounts' /\ SessionsInOrder'
  BY <1>2, <1>8, StopsStay, MoveTypes
<1> QED BY <1>9, <1>10, <1>11, <1>12, <1>13, <1>14 DEF Inv

(* A span that runs is alone, nobody is at a machine, all presence is over. *)
LEMMA SpanFacts ==
    ASSUME Inv, Usable, ui.off # NoSpan
    PROVE  /\ page = "up" /\ recovered = NoIp /\ ip = NoIp /\ pending = NoStop
           /\ prefs.off = ui.off /\ ~timer.running /\ openSess = 0 /\ curSess = 0
           /\ ui.off.n \in 1..serial /\ ui.off.start \in Nat /\ 1 <= ui.off.start
           /\ ui.off.start <= now /\ Past(ui.off.n, ui.off.start)
           /\ \A i \in DOMAIN sessions : sessions[i].end <= ui.off.start
<1>1. page = "up" /\ recovered = NoIp /\ prefs.off = ui.off /\ openSess = 0 /\ curSess = 0
  BY UpFacts
<1>2. ip = NoIp /\ pending = NoStop /\ ~timer.running
  BY <1>1, UpFacts DEF Inv, OneAtATime
<1>3. ui.off.start \in Nat
  BY UpFacts, OperatorAssumption DEF Spans, Times
<1> QED BY <1>1, <1>2, <1>3 DEF Inv, ClaimsAreFine, RecordsAreOver, AwayIsAway

(* What becomes of setup, session and timer when the operator is back.     *)
LEMMA ReturnStep ==
    ASSUME Inv, Usable, ui.off # NoSpan, NEW m \in Machines, Return(m),
           gone' \subseteq 1..MaxStops, RecordsAreOver', DowntimeCountedOnce',
           NeverOvercounts',
           \A s \in stops' \ stops : s.kind = "off" => s.start = ui.off.start /\ s.end = now
    PROVE  Inv'
<1>1. /\ page = "up" /\ recovered = NoIp /\ ip = NoIp /\ pending = NoStop
      /\ ~timer.running /\ openSess = 0 /\ curSess = 0
      /\ \A i \in DOMAIN sessions : sessions[i].end <= ui.off.start
  BY SpanFacts
<1>2. /\ UNCHANGED <<now, page, machines, pending, recovered, ip, serial, timer, ran, cut,
                     kills, setups>>
      /\ prefs' = [ui EXCEPT !.off = NoSpan] /\ openSession(ui.operator, m)
  BY DEF Return, timerVars
<1>3. PICK k \in Machines : ui' = [prefs' EXCEPT !.machine = k]
  BY ValidFacts DEF Return
<1>4. prefs' \in Setups /\ prefs'.off = NoSpan
  BY <1>2, UpFacts, NothingFacts DEF Setups
<1>5. ui' \in Setups /\ ui'.off = NoSpan
  BY <1>3, <1>4 DEF Setups
<1>6. SessMove /\ openSess' = curSess'
  BY <1>1, <1>2, UpFacts, OpenMoves
<1>7. Typed'
  BY <1>2, <1>4, <1>5, <1>6, MoveTypes DEF Inv, Typed, TypeOK
<1>8. PageInStep' /\ OneAtATime'
  BY <1>1, <1>2, <1>4, <1>5, <1>6 DEF Inv, PageInStep, OneAtATime
<1>9. SaveIsFine' /\ ClaimsAreFine'
  BY <1>1, <1>2, <1>4 DEF Inv, SaveIsFine, ClaimsAreFine, Elapsed
<1>10. \A s \in stops' : s.kind = "off" => \A i \in DOMAIN sessions' :
          s.end <= sessions'[i].start \/ (i # curSess' /\ sessions'[i].end <= s.start)
  <2> SUFFICES ASSUME NEW s \in stops', s.kind = "off", NEW i \in DOMAIN sessions'
               PROVE  s.end <= sessions'[i].start
                        \/ (i # curSess' /\ sessions'[i].end <= s.start)
    OBVIOUS
  <2>1. CASE s \in stops
    BY <1>6, <2>1, OffsMove
  <2>2. CASE s \notin stops
    <3>1. s.start = ui.off.start /\ s.end = now
      BY <2>2
    <3>2. CASE i \in DOMAIN sessions
      <4>1. i # curSess
        BY <1>1, <3>2, Facts
      <4> QED BY <1>1, <1>6, <3>1, <3>2, <4>1 DEF SessMove
    <3>3. CASE i \notin DOMAIN sessions
      <4>1. sessions'[i].start = now
        BY <1>6, <3>3 DEF SessMove
      <4> QED BY <3>1, <4>1, Facts
    <3> QED BY <3>2, <3>3
  <2> QED BY <2>1, <2>2
<1>11. AwayIsAway'
  BY <1>4, <1>10 DEF AwayIsAway
<1> QED BY <1>2, <1>6, <1>7, <1>8, <1>9, <1>11, MoveTypes DEF Inv

(* Back, with the span recorded unless it was a mistap. *)
LEMMA EndOffMachineInv ==
    ASSUME Inv, NEW m \in Machines, endOffMachine(m)
    PROVE  Inv'
<1>1. Usable /\ ui.off # NoSpan /\ Return(m)
  BY DEF endOffMachine
<1>2. /\ ui.off.n \in 1..serial /\ ui.off.start \in Nat /\ ui.off.start <= now
      /\ Past(ui.off.n, ui.off.start) /\ ip = NoIp /\ pending = NoStop
  BY <1>1, SpanFacts
<1>3. /\ UNCHANGED <<now, ip, pending, serial>> /\ prefs'.off = NoSpan
  BY <1>1, UpFacts DEF Return, Setups
<1>4. CASE now > ui.off.start
  <2>1. PICK s : s = Stop("off", ui.off.n, ui.off.machine, ui.off.operator, ui.off.start,
                          now, now - ui.off.start)
    OBVIOUS
  <2>2. stops' = stops \cup {s} /\ gone' = gone
    BY <1>4, <2>1 DEF endOffMachine
  <2>3. s.kind = "off" /\ s.n = ui.off.n /\ s.start = ui.off.start /\ s.end = now
    BY <2>1 DEF Stop
  <2>4. DowntimeCountedOnce' /\ NeverOvercounts'
    BY <1>2, <2>2, <2>3, RecordedStep
  <2>5. RecordsAreOver'
    <3>1. s.n \in 1..serial' /\ s.start \in Int /\ s.end \in Int /\ s.end <= now
      BY <1>2, <1>3, <2>3, Facts
    <3>2. serial \in Nat /\ serial' \in Nat /\ serial <= serial'
      BY <1>3, TimerFacts
    <3>3. now' = now /\ ip' = NoIp /\ pending' = NoStop
      BY <1>2, <1>3
    <3> QED BY <1>3, <2>2, <3>1, <3>2, <3>3, NothingUnderWay
  <2>6. gone' \subseteq 1..MaxStops
    BY <2>2 DEF Inv, Typed, TypeOK
  <2>7. \A r \in stops' \ stops : r.kind = "off" => r.start = ui.off.start /\ r.end = now
    BY <2>2, <2>3
  <2> QED BY <1>1, <2>4, <2>5, <2>6, <2>7, ReturnStep
<1>5. CASE ~(now > ui.off.start)
  <2>1. stops' = stops /\ gone' = gone \cup {ui.off.n}
    BY <1>5 DEF endOffMachine
  <2>2. DowntimeCountedOnce' /\ NeverOvercounts'
    BY <2>1, StopsStay
  <2>3. RecordsAreOver'
    BY <1>2, <1>3, <2>1 DEF Inv, RecordsAreOver
  <2>4. gone' \subseteq 1..MaxStops
    BY <1>2, <2>1, GivenUp
  <2> QED BY <1>1, <2>1, <2>2, <2>3, <2>4, ReturnStep
<1> QED BY <1>4, <1>5

(* Back, with the span dropped. *)
LEMMA DiscardOffMachineInv ==
    ASSUME Inv, NEW m \in Machines, discardOffMachine(m)
    PROVE  Inv'
<1>1. /\ Usable /\ ui.off # NoSpan /\ Return(m)
      /\ stops' = stops /\ gone' = gone \cup {ui.off.n}
  BY DEF discardOffMachine
<1>2. ui.off.n \in 1..serial /\ ip = NoIp /\ pending = NoStop
  BY <1>1, SpanFacts
<1>3. /\ UNCHANGED <<now, ip, pending, serial>> /\ prefs'.off = NoSpan
  BY <1>1, UpFacts DEF Return, Setups
<1>4. DowntimeCountedOnce' /\ NeverOvercounts'
  BY <1>1, StopsStay
<1>5. RecordsAreOver'
  BY <1>1, <1>2, <1>3 DEF Inv, RecordsAreOver
<1>6. gone' \subseteq 1..MaxStops
  BY <1>1, <1>2, GivenUp
<1> QED BY <1>1, <1>4, <1>5, <1>6, ReturnStep

-----------------------------------------------------------------------------
(* The page dies and loads; time passes. *)

(* What was timed is saved, what was finished is given up. *)
LEMMA KillInv ==
    ASSUME Inv, Kill
    PROVE  Inv'
<1>1. /\ page' = "down" /\ ui' = Blank(machines) /\ timer' = Idle /\ pending' = NoStop
      /\ recovered' = NoIp /\ openSess' = 0 /\ cut' = (timer.running \/ cut)
      /\ UNCHANGED <<now, machines, prefs, ip, curSess, sessions, stops, serial, ran, setups>>
  BY DEF Kill
<1>2. SessMove
  <2>1. Follows(sessions', curSess)
    BY <1>1, Facts DEF Follows
  <2> QED BY <1>1, <2>1, Facts, FollowMoves
<1>3. ui' \in Setups /\ ui'.off = NoSpan
  BY <1>1, UpFacts, NothingFacts DEF Blank
<1>4. gone' \subseteq 1..MaxStops
  <2>1. CASE pending = NoStop
    BY <2>1 DEF Kill, Inv, Typed, TypeOK
  <2>2. CASE pending # NoStop
    BY <2>2, PendingFacts, GivenUp DEF Kill
  <2> QED BY <2>1, <2>2
<1>5. cut' \in BOOLEAN /\ kills' \in 0..MaxKills
  <2>1. cut' \in BOOLEAN
    BY <1>1
  <2>2. kills' \in 0..MaxKills
    BY OperatorAssumption DEF Kill, Inv, Typed, TypeOK
  <2> QED BY <2>1, <2>2
<1>6. Typed'
  <2>1. NoStop.duration \in Times /\ NoStop.start <= NoStop.end
    BY NothingFacts DEF NoStop
  <2>2. timer' \in Timers /\ recovered' \in Ips /\ pending' \in Finished
    BY <1>1, NothingFacts
  <2>3. /\ UNCHANGED <<now, machines, prefs, ip, stops, serial, ran, setups>>
        /\ page' \in {"down", "loading", "up"} /\ pending' = NoStop
    BY <1>1
  <2> QED BY <1>2, <1>3, <1>4, <1>5, <2>1, <2>2, <2>3, MoveTypes DEF Inv, Typed, TypeOK
<1>7. PageInStep' /\ OneAtATime'
  BY <1>1, <1>3 DEF Inv, PageInStep, OneAtATime, Idle
<1>8. ~timer'.running
  BY <1>1 DEF Idle
<1>9. SaveIsFine'
  <2>1. ip # NoIp => cut'
    BY <1>1 DEF Inv, SaveIsFine
  <2> QED BY <1>1, <1>8, <2>1 DEF Inv, SaveIsFine
<1>10. ClaimsAreFine' /\ RecordsAreOver'
  BY <1>1, <1>8 DEF Inv, ClaimsAreFine, RecordsAreOver, Past
<1>11. AwayIsAway'
  BY <1>1 DEF Inv, AwayIsAway
<1>12. DowntimeCountedOnce' /\ NeverOvercounts' /\ SessionsInOrder'
  BY <1>1, <1>2, StopsStay, MoveTypes
<1> QED BY <1>6, <1>7, <1>9, <1>10, <1>11, <1>12 DEF Inv

(* The page begins to load: nothing of it is there yet. *)
LEMMA LoadInv ==
    ASSUME Inv, Load
    PROVE  Inv'
<1>1. /\ page = "down" /\ page' = "loading"
      /\ UNCHANGED <<now, machines, ui, timer, pending, recovered, prefs, ip, openSess,
                     curSess, sessions, stops, serial, gone, ran, cut, kills, setups>>
  BY DEF Load, sessVars, timerVars
<1>2. Typed'
  BY <1>1 DEF Inv, Typed, TypeOK
<1>3. PageInStep' /\ OneAtATime'
  BY <1>1 DEF Inv, PageInStep, OneAtATime
<1>4. SaveIsFine' /\ ClaimsAreFine' /\ RecordsAreOver'
  BY <1>1 DEF Inv, SaveIsFine, ClaimsAreFine, Elapsed, RecordsAreOver, Past
<1>5. SessionsInOrder' /\ AwayIsAway'
  BY <1>1 DEF Inv, SessionsInOrder, AwayIsAway
<1>6. DowntimeCountedOnce' /\ NeverOvercounts'
  BY <1>1, StopsStay
<1> QED BY <1>2, <1>3, <1>4, <1>5, <1>6 DEF Inv
(* What the load makes of the stored setup: its span, or none.             *)
LEMMA LoadedSetup ==
    ASSUME Inv, LoadStored
    PROVE  /\ ui' \in Setups /\ prefs' \in Setups /\ ui'.off = prefs'.off
           /\ prefs'.off # NoSpan => prefs'.off = prefs.off
           /\ prefs.off = NoSpan => prefs'.off = NoSpan
           /\ gone' \subseteq 1..MaxStops
           /\ SessMove /\ openSess' = curSess'
           /\ prefs.off # NoSpan => curSess' = 0 /\ DOMAIN sessions' = DOMAIN sessions
<1>1. page = "loading" /\ openSess = 0 /\ ui.off = NoSpan /\ now' = now
  BY DEF LoadStored, Inv, PageInStep
<1>2. PICK cleared \in Times :
          cleared = IF prefs.clearedBefore # 0 THEN prefs.clearedBefore ELSE ui.clearedBefore
  BY UpFacts DEF Setups
<1>3. PICK old \in BOOLEAN :
          old <=> prefs.off # NoSpan /\ prefs.off.start < ShiftStart(cleared)
  OBVIOUS
<1>4. PICK named \in BOOLEAN : named <=> prefs.locked /\ prefs.operator # NoName
  OBVIOUS
<1>5. /\ ui' = [operator |-> IF named THEN prefs.operator ELSE ui.operator,
                machine |-> IF prefs.locked THEN Valid(prefs.machine) ELSE ui.machine,
                locked |-> prefs.locked \/ ui.locked,
                off |-> IF old THEN NoSpan
                        ELSE IF prefs.off # NoSpan THEN prefs.off ELSE ui.off,
                clearedBefore |-> cleared]
      /\ prefs' = IF prefs.off # NoSpan THEN ui' ELSE prefs
      /\ gone' = IF old THEN gone \cup {prefs.off.n} ELSE gone
      /\ IF named /\ prefs.off = NoSpan
         THEN Opened(Closed, prefs.operator, prefs.machine)
         ELSE sessions' = Closed /\ curSess' = 0 /\ openSess' = openSess
  <2>1. ui' = [operator |-> IF named THEN prefs.operator ELSE ui.operator,
               machine |-> IF prefs.locked THEN Valid(prefs.machine) ELSE ui.machine,
               locked |-> prefs.locked \/ ui.locked,
               off |-> IF old THEN NoSpan
                       ELSE IF prefs.off # NoSpan THEN prefs.off ELSE ui.off,
               clearedBefore |-> cleared]
    BY <1>2, <1>3, <1>4 DEF LoadStored
  <2>2. /\ prefs' = IF prefs.off # NoSpan THEN ui' ELSE prefs
        /\ gone' = IF old THEN gone \cup {prefs.off.n} ELSE gone
    BY <1>2, <1>3 DEF LoadStored
  <2>3. IF named /\ prefs.off = NoSpan
        THEN Opened(Closed, prefs.operator, prefs.machine)
        ELSE sessions' = Closed /\ curSess' = 0 /\ openSess' = openSess
    BY <1>4 DEF LoadStored
  <2> QED BY <2>1, <2>2, <2>3
<1>6. prefs.operator \in Anyone /\ prefs.machine \in Machines /\ prefs.off \in Spans
  BY UpFacts DEF Setups
<1>7. PICK k \in Machines : k = IF prefs.locked THEN Valid(prefs.machine) ELSE ui.machine
  BY UpFacts, ValidFacts
<1>8. PICK lock \in BOOLEAN : lock = (prefs.locked \/ ui.locked)
  OBVIOUS
<1>9. PICK span \in Spans :
          /\ span = IF old THEN NoSpan
                    ELSE IF prefs.off # NoSpan THEN prefs.off ELSE ui.off
          /\ span # NoSpan => span = prefs.off
  BY <1>1, <1>6, UpFacts, NothingFacts
<1>10. PICK name \in Anyone : name = IF named THEN prefs.operator ELSE ui.operator
  BY <1>6, UpFacts
<1>11. ui' = [operator |-> name, machine |-> k, locked |-> lock, off |-> span,
              clearedBefore |-> cleared]
  BY <1>5, <1>7, <1>8, <1>9, <1>10
<1>12. ui' \in Setups /\ ui'.off = span
  BY <1>11 DEF Setups
<1>13. /\ prefs' \in Setups /\ prefs'.off = span
       /\ prefs.off = NoSpan => prefs'.off = NoSpan
  BY <1>5, <1>9, <1>12, UpFacts
<1>14. gone' \subseteq 1..MaxStops
  <2>1. CASE old
    <3>1. prefs.off.n \in 1..serial
      BY <1>3, <2>1 DEF Inv, ClaimsAreFine
    <3> QED BY <1>5, <2>1, <3>1, GivenUp
  <2>2. CASE ~old
    BY <1>5, <2>2 DEF Inv, Typed, TypeOK
  <2> QED BY <2>1, <2>2
<1>15. SessMove /\ openSess' = curSess'
  <2>1. CASE named /\ prefs.off = NoSpan
    BY <1>1, <1>4, <1>5, <1>6, <2>1, ClosedFollows, OpenedMoves DEF Anyone
  <2>2. CASE ~(named /\ prefs.off = NoSpan)
    <3>1. sessions' = Closed /\ curSess' = 0 /\ openSess' = 0
      BY <1>1, <1>5, <2>2
    <3>2. Follows(sessions', 0)
      BY <3>1, ClosedFollows
    <3>3. Len(sessions') \in Nat
      BY <3>2 DEF Follows
    <3> QED BY <1>1, <3>1, <3>2, <3>3, FollowMoves
  <2> QED BY <2>1, <2>2
<1>16. prefs.off # NoSpan => curSess' = 0 /\ DOMAIN sessions' = DOMAIN sessions
  BY <1>5 DEF Closed
<1> QED BY <1>9, <1>12, <1>13, <1>14, <1>15, <1>16

(* The load: sessions left open are closed, and the saved stop is offered.  *)
LEMMA LoadStoredInv ==
    ASSUME Inv, LoadStored
    PROVE  Inv'
<1>1. /\ page = "loading" /\ page' = "up" /\ recovered' = ip
      /\ UNCHANGED <<now, machines, pending, ip, stops, serial, timer, ran, cut, kills,
                     setups>>
  BY DEF LoadStored, timerVars
<1>2. ~timer.running /\ timer = Idle
  BY <1>1 DEF Inv, PageInStep, Idle
<1>3. Typed'
  <2>1. ui' \in Setups /\ prefs' \in Setups /\ gone' \subseteq 1..MaxStops /\ SessMove
    BY LoadedSetup
  <2> QED BY <1>1, <2>1, MoveTypes DEF Inv, Typed, TypeOK
<1>4. PageInStep'
  BY <1>1, <1>2, LoadedSetup DEF PageInStep
<1>5. OneAtATime'
  BY <1>1, LoadedSetup DEF Inv, OneAtATime
<1>6. SaveIsFine'
  BY <1>1 DEF Inv, SaveIsFine
<1>7. ClaimsAreFine' /\ RecordsAreOver'
  BY <1>1, <1>2, LoadedSetup DEF Inv, ClaimsAreFine, RecordsAreOver, Past
<1>8. AwayIsAway'
  <2>1. ASSUME prefs'.off # NoSpan
        PROVE  /\ curSess' = 0
               /\ \A i \in DOMAIN sessions' : sessions'[i].end <= prefs'.off.start
    <3>1. prefs'.off = prefs.off /\ prefs.off # NoSpan
      BY <2>1, LoadedSetup
    <3>2. /\ curSess = 0 /\ \A i \in DOMAIN sessions : sessions[i].end <= prefs.off.start
          /\ curSess' = 0 /\ DOMAIN sessions' = DOMAIN sessions
      BY <3>1, LoadedSetup DEF Inv, AwayIsAway
    <3>3. \A i \in DOMAIN sessions : sessions'[i].end = sessions[i].end
      BY <3>2, LoadedSetup, Facts DEF SessMove
    <3> QED BY <3>1, <3>2, <3>3
  <2> QED BY <1>1, <2>1, LoadedSetup, OffsMove DEF AwayIsAway
<1>9. DowntimeCountedOnce' /\ NeverOvercounts' /\ SessionsInOrder'
  BY <1>1, LoadedSetup, StopsStay, MoveTypes
<1> QED BY <1>3, <1>4, <1>5, <1>6, <1>7, <1>8, <1>9 DEF Inv

(* Time passes, for the stop that runs as for all others. *)
LEMMA TickInv ==
    ASSUME Inv, Tick
    PROVE  Inv'
<1>1. /\ now < MaxTime /\ now' = now + 1
      /\ ran' = IF timer.running /\ ~timer.paused THEN ran + 1 ELSE ran
      /\ UNCHANGED <<page, machines, ui, timer, pending, recovered, openSess, prefs, ip,
                     curSess, sessions, stops, serial, gone, cut, kills, setups>>
  BY DEF Tick, pageVars
<1>2. /\ now \in Nat /\ now' \in Nat /\ now' \in Times /\ 1 <= now' /\ now <= now'
      /\ ran \in Nat /\ ran' \in Nat /\ ran <= ran' /\ ran' <= now' /\ ran' \in Times
  <2>1. now \in Nat /\ 1 <= now /\ MaxTime \in Nat /\ ran \in Nat /\ ran <= now
    BY Facts, TimerFacts
  <2>2. ran' = ran \/ ran' = ran + 1
    BY <1>1
  <2>3. now' \in Nat /\ now' \in 0..MaxTime /\ 1 <= now' /\ now <= now'
    BY <1>1, <2>1
  <2>4. ran' \in Nat /\ ran <= ran' /\ ran' <= now' /\ ran' \in 0..MaxTime
    BY <1>1, <2>1, <2>2
  <2> QED BY <2>1, <2>3, <2>4 DEF Times
<1>3. Typed'
  BY <1>1, <1>2 DEF Inv, Typed, TypeOK
<1>4. PageInStep' /\ OneAtATime'
  BY <1>1 DEF Inv, PageInStep, OneAtATime
<1>5. SaveIsFine'
  <2>1. CASE ip = NoIp
    BY <1>1, <2>1 DEF SaveIsFine
  <2>2. CASE ip # NoIp
    <3>1. PICK a \in Nat, g \in Nat, v \in Nat :
              a = ip.t.accumulated /\ g = ip.t.segStart /\ v = ip.savedAt
      BY UpFacts, OperatorAssumption DEF Ips, Timers, Times
    <3>2. /\ v <= now
          /\ ip.t.paused => a <= ran
          /\ ~ip.t.paused => g <= v /\ a + (v - g) <= ran
      BY <2>2, <3>1 DEF Inv, SaveIsFine
    <3>3. /\ v <= now'
          /\ ip.t.paused => a <= ran'
          /\ ~ip.t.paused => g <= v /\ a + (v - g) <= ran'
      BY <1>2, <3>1, <3>2
    <3> QED BY <1>1, <2>2, <3>1, <3>3 DEF Inv, SaveIsFine
  <2> QED BY <2>1, <2>2
<1>6. ClaimsAreFine'
  <2>1. ASSUME timer.running
        PROVE  Elapsed(timer)' <= ran' /\ (~cut => Elapsed(timer)' = ran')
    <3>1. PICK a \in Nat, g \in Nat : a = timer.accumulated /\ g = timer.segStart
      BY TimerFacts
    <3>2. Elapsed(timer) <= ran /\ (~cut => Elapsed(timer) = ran)
      BY <2>1, TimerFacts
    <3>3. CASE timer.paused
      <4>1. Elapsed(timer)' = Elapsed(timer) /\ ran' = ran
        BY <1>1, <3>3 DEF Elapsed
      <4> QED BY <3>2, <4>1
    <3>4. CASE ~timer.paused
      <4>1. Elapsed(timer) = a + (now - g) /\ Elapsed(timer)' = a + (now' - g)
            /\ ran' = ran + 1
        BY <1>1, <2>1, <3>1, <3>4 DEF Elapsed
      <4>2. Elapsed(timer)' = Elapsed(timer) + 1 /\ Elapsed(timer) \in Int
        BY <1>1, <1>2, <3>1, <4>1
      <4>3. Elapsed(timer)' <= ran'
        <5>1. PICK e \in Int : e = Elapsed(timer) /\ e <= ran
          BY <3>2, <4>2
        <5>2. e + 1 <= ran + 1
          BY <1>2, <5>1
        <5> QED BY <4>1, <4>2, <5>1, <5>2
      <4>4. ~cut => Elapsed(timer)' = ran'
        BY <3>2, <4>1, <4>2
      <4> QED BY <4>3, <4>4
    <3> QED BY <3>3, <3>4
  <2>2. pending # NoStop =>
          /\ pending.n \in 1..serial /\ 1 <= pending.start
          /\ pending.start + pending.duration <= pending.end /\ pending.end <= now'
          /\ pending.duration <= ran' /\ (~cut => pending.duration = ran')
    <3>1. pending # NoStop => ran' = ran
      BY <1>1, PendingFacts
    <3> QED BY <1>2, <3>1, PendingFacts
  <2>3. prefs.off # NoSpan =>
          prefs.off.n \in 1..serial /\ 1 <= prefs.off.start /\ prefs.off.start <= now'
    <3>1. prefs.off.start \in Nat
      BY UpFacts, OperatorAssumption DEF Setups, Spans, Times
    <3> QED BY <1>2, <3>1 DEF Inv, ClaimsAreFine
  <2> QED BY <1>1, <1>2, <2>1, <2>2, <2>3 DEF ClaimsAreFine
<1>7. RecordsAreOver'
  <2>1. \A s \in stops : s.n \in 1..serial /\ {s.start, s.end} \subseteq Int /\ s.end <= now'
    BY <1>2 DEF Inv, RecordsAreOver
  <2> QED BY <1>1, <2>1 DEF Inv, RecordsAreOver, Past
<1>8. SessionsInOrder'
  <2>1. ASSUME NEW i \in DOMAIN sessions
        PROVE  /\ sessions[i].updatedAt <= now'
               /\ sessions[i].end # 0 => sessions[i].end <= now'
    <3>1. sessions[i].updatedAt \in Nat /\ sessions[i].end \in Nat
      BY <2>1, Facts, SessionFacts
    <3>2. /\ sessions[i].updatedAt <= now
          /\ sessions[i].end # 0 => sessions[i].end <= now
      BY <2>1, Facts DEF InOrder
    <3> QED BY <1>2, <3>1, <3>2
  <2>2. InOrder(sessions, curSess, now)
    BY Facts
  <2>3. InOrder(sessions, curSess, now')
    BY <2>1, <2>2 DEF InOrder
  <2> QED BY <1>1, <2>3 DEF SessionsInOrder
<1>9. AwayIsAway' /\ DowntimeCountedOnce' /\ NeverOvercounts'
  BY <1>1, StopsStay DEF Inv, AwayIsAway
<1> QED BY <1>3, <1>4, <1>5, <1>6, <1>7, <1>8, <1>9 DEF Inv

-----------------------------------------------------------------------------
(* The theorems. *)

(* Every step of the page keeps the invariant. *)
LEMMA StepInv ==
    ASSUME Inv, [Next]_vars
    PROVE  Inv'
<1>1. CASE UNCHANGED vars
  <2>1. UNCHANGED <<now, page, machines, ui, timer, pending, recovered, openSess, prefs, ip,
                    curSess, sessions, stops, serial, gone, ran, cut, kills, setups>>
    BY <1>1 DEF vars
  <2>2. Typed' /\ PageInStep' /\ OneAtATime'
    BY <2>1 DEF Inv, Typed, TypeOK, PageInStep, OneAtATime
  <2>3. SaveIsFine' /\ ClaimsAreFine' /\ RecordsAreOver'
    BY <2>1 DEF Inv, SaveIsFine, ClaimsAreFine, Elapsed, RecordsAreOver, Past
  <2>4. SessionsInOrder' /\ AwayIsAway' /\ DowntimeCountedOnce' /\ NeverOvercounts'
    BY <2>1, StopsStay DEF Inv, SessionsInOrder, AwayIsAway
  <2> QED BY <2>2, <2>3, <2>4 DEF Inv
<1>2. CASE Tick \/ Kill \/ Load \/ LoadStored
  BY <1>2, TickInv, KillInv, LoadInv, LoadStoredInv
<1>3. CASE heartbeat \/ RemoteClose \/ visibilitychange
  BY <1>3, HeartbeatInv, VisibilitychangeInv
<1>4. CASE \E m \in Machines : DropMachine(m) \/ switchMachine(m)
  BY <1>4, DropMachineInv, SwitchMachineInv
<1>5. CASE (\E name \in Anyone : setOperator(name)) \/ lockSetup \/ unlockSetup
           \/ toggleDark \/ startNewShift
  BY <1>5, SetOperatorInv, LockSetupInv, UnlockSetupInv, ToggleDarkInv, StartNewShiftInv
<1>6. CASE start \/ pause \/ resume \/ handleStop \/ recoverResume \/ recoverFinalize
  BY <1>6, StartInv, PauseInv, HandleStopInv, RecoverResumeInv, RecoverFinalizeInv
<1>7. CASE handleSave \/ handleDiscardPending \/ recoverDiscard
           \/ (\E m \in machines, d \in Reports : handleManualSave(m, d))
  BY <1>7, HandleSaveInv, DiscardInv, ManualSaveInv
<1>8. CASE startOffMachine \/ (\E m \in Machines : endOffMachine(m) \/ discardOffMachine(m))
  BY <1>8, StartOffMachineInv, EndOffMachineInv, DiscardOffMachineInv
<1> QED BY <1>1, <1>2, <1>3, <1>4, <1>5, <1>6, <1>7, <1>8 DEF Next

(* The invariant holds in every reachable state of the page, for any names, *)
(* machines, thresholds and bounds, if the load does not wait for /health.  *)
THEOREM Invariance == Spec /\ ~Probing => []Inv
<1>1. ~Probing /\ Init => Inv
  BY InitInv
<1>2. Inv /\ [Next]_vars => Inv'
  BY StepInv
<1> QED BY <1>1, <1>2, PTL DEF Spec

(* The page's state, its storage and its sessions keep their types: no      *)
(* timer, pending stop or session has a time that was not.                 *)
THEOREM TypeCorrect == Spec /\ ~Probing => []TypeOK
<1>1. Inv => TypeOK
  BY DEF Inv, Typed
<1> QED BY <1>1, Invariance, PTL

(* No minute is downtime twice, however stops are paused, killed, restored, *)
(* finalized and mixed with spans off the machines (timerBusy,             *)
(* recoverResume, recoverFinalize, endOffMachine).                         *)
THEOREM DowntimeIsCountedOnce == Spec /\ ~Probing => []DowntimeCountedOnce
<1>1. Inv => DowntimeCountedOnce
  BY DEF Inv
<1> QED BY <1>1, Invariance, PTL

(* No recorded stop claims more than its timer ran, and one that no reload  *)
(* cut claims exactly that (useTimer, recoverResume, recoverFinalize).      *)
THEOREM NoStopOvercounts == Spec /\ ~Probing => []NeverOvercounts
<1>1. Inv => NeverOvercounts
  BY DEF Inv
<1> QED BY <1>1, Invariance, PTL

(* Presence spans overlap neither each other nor time off the machines     *)
(* (closeSession, openSession, startOffMachine, the load).                  *)
THEOREM OperatorIsAtOnePlace == Spec /\ ~Probing => []OnePlaceAtATime
<1>1. Inv => OnePlaceAtATime
  <2> SUFFICES ASSUME Inv, NEW i \in DOMAIN sessions
      PROVE  /\ \A j \in DOMAIN sessions : i < j => SpanEnd(i) <= sessions[j].start
             /\ \A s \in stops : s.kind = "off" =>
                   SpanEnd(i) <= s.start \/ s.end <= sessions[i].start
             /\ ui.off # NoSpan => SpanEnd(i) <= ui.off.start
    BY DEF OnePlaceAtATime
  <2>1. /\ curSess \in {0, Len(sessions)} /\ (sessions[i].end = 0 => i = curSess)
        /\ \A j \in DOMAIN sessions : i < j => sessions[i].end <= sessions[j].start
    BY Facts DEF InOrder
  <2>2. i # curSess => SpanEnd(i) = sessions[i].end
    BY <2>1 DEF SpanEnd
  <2>3. \A j \in DOMAIN sessions : i < j => SpanEnd(i) <= sessions[j].start
    BY <2>1, <2>2, Facts
  <2>4. \A s \in stops : s.kind = "off" =>
           SpanEnd(i) <= s.start \/ s.end <= sessions[i].start
    BY <2>2 DEF Inv, AwayIsAway
  <2>5. ui.off # NoSpan => SpanEnd(i) <= ui.off.start
    <3>1. ui.off # NoSpan => ui.off = prefs.off
      BY DEF Inv, PageInStep
    <3>2. ui.off # NoSpan => curSess = 0 /\ sessions[i].end <= ui.off.start
      BY <3>1 DEF Inv, AwayIsAway
    <3> QED BY <2>2, <3>2, Facts
  <2> QED BY <2>3, <2>4, <2>5
<1> QED BY <1>1, Invariance, PTL

(* An open session is the one the page, or the next load, will close       *)
(* (sync:currentSession).                                                  *)
THEOREM OpenSessionsAreKnown == Spec /\ ~Probing => []OpenSessionIsKnown
<1>1. Inv => OpenSessionIsKnown
  BY Facts DEF OpenSessionIsKnown, Inv, PageInStep, InOrder, Up
<1> QED BY <1>1, Invariance, PTL
(* The downtime under way is known to storage, or pending.                 *)
LEMMA DowntimeIs ==
    ASSUME Inv
    PROVE  /\ Downtime \subseteq ({ip.t.n, pending.n, prefs.off.n} \ {0}) \cup {s.n : s \in stops}
           /\ ip = NoIp => ip.t.n = 0
           /\ pending = NoStop => pending.n = 0
           /\ prefs.off = NoSpan => prefs.off.n = 0
<1>1. timer.n \in {0, ip.t.n}
  BY DEF Inv, PageInStep, Idle
<1>2. recovered.t.n \in {0, ip.t.n}
  BY DEF Inv, PageInStep, Idle, NoIp
<1>3. ui.off.n \in {0, prefs.off.n}
  BY DEF Inv, PageInStep, NoSpan
<1>4. /\ ip = NoIp => ip.t.n = 0
      /\ pending = NoStop => pending.n = 0
      /\ prefs.off = NoSpan => prefs.off.n = 0
  BY DEF NoIp, Idle, NoStop, NoSpan
<1> QED BY <1>1, <1>2, <1>3, <1>4 DEF Downtime

(* Where each of the three may go: another of them, a record, or given up.  *)
LEMMA KeptIf ==
    ASSUME Inv, stops \subseteq stops',
           ip.t.n \in {0, ip'.t.n, pending'.n} \cup gone',
           pending.n \in {0, pending'.n} \cup gone' \cup {s.n : s \in stops'},
           prefs.off.n \in {0, prefs'.off.n} \cup gone' \cup {s.n : s \in stops'}
    PROVE  Downtime \subseteq Downtime' \cup gone'
<1>1. {ip'.t.n, pending'.n, prefs'.off.n} \ {0} \subseteq Downtime'
  BY DEF Downtime
<1>2. {s.n : s \in stops'} \subseteq Downtime'
  BY DEF Downtime
<1>3. {s.n : s \in stops} \subseteq {s.n : s \in stops'}
  OBVIOUS
<1> QED BY <1>1, <1>2, <1>3, DowntimeIs

(* Autosave repeats the stop it saved. *)
LEMMA SavedAgain ==
    ASSUME Inv, NEW name, ip' \in {ip, Autosaved(timer, name)}
    PROVE  ip'.t = ip.t
  BY UpFacts DEF Autosaved

(* The taps that touch no stop. *)
LEMMA SetupKeeps ==
    ASSUME Inv, NEW m \in Machines, NEW name \in Anyone,
           \/ setOperator(name) \/ lockSetup \/ unlockSetup \/ toggleDark
           \/ startNewShift \/ switchMachine(m) \/ DropMachine(m)
           \/ heartbeat \/ RemoteClose \/ visibilitychange
    PROVE  Downtime \subseteq Downtime' \cup gone'
<1>1. UNCHANGED <<stops, pending>>
  BY DEF setOperator, lockSetup, unlockSetup, toggleDark, startNewShift, switchMachine,
         DropMachine, heartbeat, RemoteClose, visibilitychange, pageVars
<1>2. ip'.t = ip.t
  <2>1. ip' \in {ip, Autosaved(timer, name), Autosaved(timer, ui.operator)}
    BY DEF setOperator, lockSetup, unlockSetup, toggleDark, startNewShift, switchMachine,
           DropMachine, heartbeat, RemoteClose, visibilitychange, pageVars
  <2> QED BY <2>1, SavedAgain
<1>3. prefs'.off = prefs.off
  <2>1. CASE lockSetup \/ unlockSetup \/ startNewShift
    <3>1. ui'.off = ui.off /\ prefs' = ui' /\ page = "up"
      BY <2>1, UpFacts DEF lockSetup, unlockSetup, startNewShift, Setups
    <3> QED BY <3>1, UpFacts
  <2>2. CASE toggleDark
    BY <2>2, UpFacts DEF toggleDark
  <2>3. CASE \/ setOperator(name) \/ switchMachine(m) \/ DropMachine(m)
             \/ heartbeat \/ RemoteClose \/ visibilitychange
    BY <2>3 DEF setOperator, switchMachine, DropMachine, heartbeat, RemoteClose,
                visibilitychange
  <2> QED BY <2>1, <2>2, <2>3
<1> QED BY <1>1, <1>2, <1>3, KeptIf

(* The timer, from the start of a stop to its finish. *)
LEMMA TimerKeeps ==
    ASSUME Inv, start \/ pause \/ resume \/ handleStop \/ recoverResume \/ recoverFinalize
    PROVE  Downtime \subseteq Downtime' \cup gone'
<1>1. UNCHANGED <<stops, prefs>>
  BY DEF start, pause, resume, handleStop, recoverResume, recoverFinalize
<1>2. CASE start
  <2>1. ip.t.n = 0 /\ pending' = pending
    BY <1>2, IdleFacts, DowntimeIs DEF start
  <2> QED BY <1>1, <2>1, KeptIf
<1>3. CASE pause \/ resume
  <2>1. timer.running /\ ip.t = timer
    BY <1>3, UpFacts DEF pause, resume, Inv, PageInStep, Idle
  <2>2. timer'.running /\ timer'.n = timer.n
    BY <1>3, <2>1, UpFacts DEF pause, resume, Timers
  <2>3. ip'.t = timer' /\ pending' = pending
    BY <1>3, <2>2 DEF pause, resume, Autosaved
  <2> QED BY <1>1, <2>1, <2>2, <2>3, KeptIf
<1>4. CASE handleStop
  <2>1. timer.running /\ ip.t = timer /\ pending = NoStop
    BY <1>4, UpFacts, TimerFacts DEF handleStop
  <2>2. pending'.n = timer.n
    BY <1>4 DEF handleStop
  <2> QED BY <1>1, <2>1, <2>2, KeptIf, DowntimeIs
<1>5. CASE recoverResume
  <2>1. recovered = ip /\ ip.t \in Timers /\ pending' = pending
    BY <1>5, RecoveredFacts DEF recoverResume
  <2>2. timer'.running /\ timer'.n = ip.t.n
    BY <1>5, <2>1 DEF recoverResume, Timers
  <2>3. ip'.t = timer'
    BY <1>5, <2>2 DEF recoverResume, Autosaved
  <2> QED BY <1>1, <2>1, <2>2, <2>3, KeptIf
<1>6. CASE recoverFinalize
  <2>1. recovered = ip /\ pending = NoStop
    BY <1>6, RecoveredFacts DEF recoverFinalize
  <2>2. pending'.n = ip.t.n
    BY <1>6, <2>1 DEF recoverFinalize
  <2> QED BY <1>1, <2>1, <2>2, KeptIf, DowntimeIs
<1> QED BY <1>2, <1>3, <1>4, <1>5, <1>6

(* Records, and what is given up. *)
LEMMA RecordKeeps ==
    ASSUME Inv,
           \/ handleSave \/ handleDiscardPending \/ recoverDiscard
           \/ \E m \in machines, d \in Reports : handleManualSave(m, d)
    PROVE  Downtime \subseteq Downtime' \cup gone'
<1>1. CASE handleSave
  <2>3. PICK s : s = Stop("timed", pending.n, pending.machine, ui.operator,
                          pending.start, pending.end, pending.duration)
    OBVIOUS
  <2>1. stops' = stops \cup {s} /\ s.n = pending.n
    BY <1>1, <2>3 DEF handleSave, Stop
  <2>2. ip' = ip /\ prefs.off.n = 0
    BY <1>1, PendingFacts, DowntimeIs DEF handleSave
  <2> QED BY <2>1, <2>2, KeptIf
<1>2. CASE handleDiscardPending
  <2>1. UNCHANGED <<stops, ip, prefs>> /\ pending.n \in gone'
    BY <1>2 DEF handleDiscardPending
  <2> QED BY <2>1, KeptIf
<1>3. CASE recoverDiscard
  <2>1. UNCHANGED <<stops, pending, prefs>> /\ ip.t.n \in gone'
    BY <1>3, RecoveredFacts DEF recoverDiscard
  <2> QED BY <2>1, KeptIf
<1>4. ASSUME NEW m \in machines, NEW d \in Reports, handleManualSave(m, d)
      PROVE  Downtime \subseteq Downtime' \cup gone'
  <2>1. ip' = ip /\ pending' = pending /\ prefs.off.n = 0 /\ stops \subseteq stops'
    BY <1>4, IdleFacts, DowntimeIs DEF handleManualSave, pageVars
  <2> QED BY <2>1, KeptIf
<1> QED BY <1>1, <1>2, <1>3, <1>4

(* Spans off the machines. *)
LEMMA OffKeeps ==
    ASSUME Inv, NEW m \in Machines,
           startOffMachine \/ endOffMachine(m) \/ discardOffMachine(m)
    PROVE  Downtime \subseteq Downtime' \cup gone'
<1>1. UNCHANGED <<ip, pending>>
  BY DEF startOffMachine, endOffMachine, discardOffMachine, Return
<1>2. CASE startOffMachine
  <2>1. prefs.off.n = 0 /\ stops' = stops
    BY <1>2, IdleFacts, DowntimeIs DEF startOffMachine
  <2> QED BY <1>1, <2>1, KeptIf
<1>3. CASE endOffMachine(m) \/ discardOffMachine(m)
  <2>1. prefs.off = ui.off
    BY <1>3, SpanFacts DEF endOffMachine, discardOffMachine
  <2>2. CASE ui.off.n \in gone' /\ stops' = stops
    BY <1>1, <2>1, <2>2, KeptIf
  <2>3. CASE \E s : stops' = stops \cup {s} /\ s.n = ui.off.n
    BY <1>1, <2>1, <2>3, KeptIf
  <2>4. \/ ui.off.n \in gone' /\ stops' = stops
        \/ \E s : stops' = stops \cup {s} /\ s.n = ui.off.n
    <3>1. CASE discardOffMachine(m)
      BY <3>1 DEF discardOffMachine
    <3>2. CASE endOffMachine(m) /\ now > ui.off.start
      <4>1. PICK s : s = Stop("off", ui.off.n, ui.off.machine, ui.off.operator,
                              ui.off.start, now, now - ui.off.start)
        OBVIOUS
      <4> QED BY <3>2, <4>1 DEF endOffMachine, Stop
    <3>3. CASE endOffMachine(m) /\ ~(now > ui.off.start)
      BY <3>3 DEF endOffMachine
    <3> QED BY <1>3, <3>1, <3>2, <3>3
  <2> QED BY <2>2, <2>3, <2>4
<1> QED BY <1>2, <1>3

(* The end of the page, the load and time. *)
LEMMA LoadKeeps ==
    ASSUME Inv, Kill \/ Load \/ LoadStored \/ Tick \/ UNCHANGED vars
    PROVE  Downtime \subseteq Downtime' \cup gone'
<1>1. CASE Kill
  <2>1. UNCHANGED <<stops, ip, prefs>> /\ pending.n \in {0} \cup gone'
    BY <1>1, DowntimeIs DEF Kill
  <2> QED BY <2>1, KeptIf
<1>2. CASE Load \/ Tick \/ UNCHANGED vars
  <2>1. UNCHANGED <<stops, ip, prefs, pending>>
    BY <1>2 DEF Load, Tick, vars, pageVars
  <2> QED BY <2>1, KeptIf
<1>3. CASE LoadStored
  <2>1. UNCHANGED <<stops, ip, pending>>
    BY <1>3 DEF LoadStored
  <2>2. prefs.off.n \in {0, prefs'.off.n} \cup gone'
    <3>1. CASE prefs.off = NoSpan
      BY <3>1, DowntimeIs
    <3>2. CASE prefs.off # NoSpan
      BY <1>3, <3>2 DEF LoadStored
    <3> QED BY <3>1, <3>2
  <2> QED BY <2>1, <2>2, KeptIf
<1> QED BY <1>1, <1>2, <1>3

(* Downtime that began stays known until a record, the operator or a named  *)
(* loss ends it (handleStop, handleSave, endOffMachine, the autosave, the   *)
(* load).                                                                  *)
THEOREM NoDowntimeVanishes == Spec /\ ~Probing => DowntimeKept
<1>1. Inv /\ [Next]_vars => [Downtime \subseteq Downtime' \cup gone']_vars
  <2> SUFFICES ASSUME Inv, [Next]_vars PROVE Downtime \subseteq Downtime' \cup gone'
    OBVIOUS
  <2>1. Machines # {} /\ NoName \in Anyone
    BY OperatorAssumption DEF Anyone
  <2>2. CASE \/ heartbeat \/ RemoteClose \/ lockSetup \/ unlockSetup \/ toggleDark
             \/ startNewShift \/ visibilitychange
             \/ (\E m \in Machines : DropMachine(m) \/ switchMachine(m))
             \/ (\E name \in Anyone : setOperator(name))
    BY <2>1, <2>2, SetupKeeps
  <2>3. CASE \E m \in Machines : startOffMachine \/ endOffMachine(m) \/ discardOffMachine(m)
    BY <2>3, OffKeeps
  <2> QED BY <2>1, <2>2, <2>3, TimerKeeps, RecordKeeps, LoadKeeps DEF Next
<1> QED BY <1>1, Invariance, PTL DEF Spec, DowntimeKept

=============================================================================
