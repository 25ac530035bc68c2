------------------------ MODULE TutoringPartsProofs -------------------------
(***************************************************************************)
(* Four parts of tutoring that stand alone: the abstract slot sale, the    *)
(* refund policy, the attendance of a session, and the outbox relay.  They *)
(* share no state and no definition; their proofs are kept together        *)
(* because each is short.                                                  *)
(***************************************************************************)
EXTENDS SlotSale, RefundPolicy, SessionAttendance, TutoringOutbox, FiniteSetTheorems, TLAPS

-----------------------------------------------------------------------------
(* The abstract slot sale never books a slot twice, for any number of slots *)
(* and orders.                                                              *)

SaleTypeOK == /\ owners \in [Slots -> SUBSET Orders]
              /\ retired \subseteq Slots
              /\ sold \subseteq Orders

SaleInv == SaleTypeOK /\ NoDoubleBooking

\* Nothing is sold at the start.
LEMMA SaleInitInv == SaleInit => SaleInv
  BY DEF SaleInit, SaleInv, SaleTypeOK, NoDoubleBooking

\* A sale, a move and a retirement keep one owner for each slot and each order.
LEMMA SaleNextInv == SaleInv /\ [SaleNext]_saleVars => SaleInv'
<1> SUFFICES ASSUME SaleInv, [SaleNext]_saleVars PROVE SaleInv'
  OBVIOUS
<1> USE DEF SaleInv, SaleTypeOK, NoDoubleBooking
<1>1. ASSUME NEW s \in Slots, NEW o \in Orders, Sell(s, o) PROVE SaleInv'
  BY <1>1 DEF Sell, Free
<1>2. ASSUME NEW s \in Slots, NEW o \in Orders, Retire(s, o) PROVE SaleInv'
  BY <1>2 DEF Retire
<1>3. ASSUME NEW s \in Slots, NEW t \in Slots, NEW o \in Orders, Move(s, t, o) PROVE SaleInv'
  BY <1>3 DEF Move, Free
<1>4. CASE UNCHANGED saleVars
  BY <1>4 DEF saleVars
<1> QED
  BY <1>1, <1>2, <1>3, <1>4 DEF SaleNext

\* No behaviour of the slot sale double-books a slot (the promise of
\* uq_tutoring_sessions_slot_id together with the slot status machine).
THEOREM SaleSafe == SaleSpec => []NoDoubleBooking
<1>1. SaleInv => NoDoubleBooking
  BY DEF SaleInv
<1> QED
  BY SaleInitInv, SaleNextInv, <1>1, PTL DEF SaleSpec

-----------------------------------------------------------------------------
(* The refund policy, for every window length, every captured amount and   *)
(* every exception amount, to the second.                                  *)

\* What hours_before returns lies within half a hundredth of an hour, that is
\* 18 seconds, of the time that is left.
LEMMA RoundingError ==
  ASSUME NEW seconds \in Int, NEW h \in Hundredths(seconds)
  PROVE  /\ h \in Int
         /\ seconds >= 0 => 36 * h - seconds \in -18 .. 18
         /\ seconds < 0 => h = 0
  BY DEF Hundredths, NotNegative

\* A whole number of hours is not rounded away: with the full notice the hour
\* count reaches the window, 19 seconds late it does not.
LEMMA WindowBoundary ==
  ASSUME NEW seconds \in Int, NEW h \in Hundredths(seconds), NEW w \in Nat \ {0}
  PROVE  /\ seconds >= 3600 * w => h >= 100 * w
         /\ seconds < 3600 * w - 18 => ~(h >= 100 * w)
<1>1. /\ h \in Int
      /\ seconds >= 0 => 36 * h - seconds \in -18 .. 18
      /\ seconds < 0 => h = 0
  BY RoundingError
<1> QED
  BY <1>1

\* Whatever the window, the amounts and the second of the cancellation: no
\* refund exceeds what was captured; a tutor who cancels and a student who gives
\* the full notice, to the second, cost and get all of it; a student more than
\* 18 seconds late is refunded nothing.
THEOREM RefundPolicySafe ==
  ASSUME NEW captured \in Nat \ {0}, NEW windowHours \in Nat \ {0},
         NEW seconds \in Int, NEW hours100 \in Hundredths(seconds),
         NEW role \in {"student", "tutor", "admin"}, NEW exception \in BOOLEAN,
         NEW amount \in Nat \union {-1}, exception => role = "admin",
         NEW a, a = Assess(captured, hours100, role, exception, role = "admin", amount,
                           100 * windowHours),
         a.decision \in Decisions
  PROVE  /\ RefundDue(a) => 0 < a.amount /\ a.amount <= captured
         /\ role = "tutor" \/ (role = "student" /\ seconds >= 3600 * windowHours)
              => RefundDue(a) /\ a.amount = captured
         /\ role = "student" /\ seconds < 3600 * windowHours - 18
              => a.decision = "no_auto_refund" /\ ~RefundDue(a)
<1>1. /\ seconds >= 3600 * windowHours => hours100 >= 100 * windowHours
      /\ seconds < 3600 * windowHours - 18 => ~(hours100 >= 100 * windowHours)
  BY WindowBoundary
<1>2. CASE role = "tutor"
  BY <1>2 DEF Assess, Outcome, RefundDue, Decisions
<1>3. CASE role = "admin"
  BY <1>3 DEF Assess, AdminException, Outcome, RefundDue, Decisions
<1>4. CASE role = "student"
  BY <1>1, <1>4 DEF Assess, Outcome, RefundDue, Decisions
<1> QED
  BY <1>2, <1>3, <1>4

-----------------------------------------------------------------------------
(* Attendance, for any number of requests and versions.                    *)

\* A request's copies are of rows that have moved on since, or are the rows as
\* they stand: every write takes the version one further.  A request that saw
\* the session disputed saw a dispute that is not undone.
CopiesInv ==
  /\ attendance.state = "none" => attendance.version = 0
  /\ \A q \in Requests :
       LET r == request[q] IN
       /\ r.stage # "idle" =>
            /\ r.session.version <= session.version
            /\ r.session.version = session.version => r.session.status = session.status
            /\ ~blind /\ r.session.status = "disputed" => attendance.state \in {"disputed", "resolved"}
       /\ r.stage = "ready" /\ r.op \in Decisive =>
            /\ r.attendance.version <= attendance.version
            /\ r.attendance.version = attendance.version => r.attendance.state = attendance.state
            /\ Decision(r.op) \in NextStates(r.attendance.state)
       /\ r.stage = "ready" /\ r.op \in Changes => r.session.status \in LiveStates

AttendanceInv == AttendanceTypeOK /\ CopiesInv /\ AttendanceMatchesSession

\* A session that was just sold has no attendance.
LEMMA AttendanceInitInv == AttendanceInit => AttendanceInv
<1> SUFFICES ASSUME AttendanceInit PROVE AttendanceInv
  OBVIOUS
<1>1. NoRequest \in Request /\ NoRequest.stage = "idle"
  BY DEF NoRequest, Request, NoAttendance, SessionRow, AttendanceRow, SessionStates,
         AttendanceStates, Stages
<1>2. AttendanceTypeOK
  BY <1>1 DEF AttendanceInit, AttendanceTypeOK, NoAttendance, SessionRow, AttendanceRow,
              SessionStates, AttendanceStates
<1>3. CopiesInv
  BY <1>1 DEF AttendanceInit, CopiesInv, NoAttendance
<1>4. AttendanceMatchesSession
  BY DEF AttendanceInit, AttendanceMatchesSession, NoAttendance, LiveStates
<1> QED
  BY <1>2, <1>3, <1>4 DEF AttendanceInv

\* What a write does to the rows, seen from outside: a row that changes takes
\* its version one further, and unless the write was blind it makes a legal
\* move from where both rows were.
RowsMove ==
  /\ session' = session \/ session'.version = session.version + 1
  /\ attendance' = attendance \/ attendance'.version = attendance.version + 1
  /\ ~blind' => /\ ~blind
                /\ attendance'.state # attendance.state
                     => attendance'.state \in NextStates(attendance.state)
                /\ session'.status # session.status
                     => session'.status \in NextStatuses(session.status)

\* A transition that lands is judged by the status it lands on, if the version
\* it names is the one that was read.
LEMMA TransitionFacts ==
  ASSUME AttendanceInv, NEW q \in Requests, request[q].stage # "idle",
         NEW to \in SessionStates, NEW named \in Nat,
         Transition(request[q].session, to, named)
  PROVE  /\ session'.status = to /\ session'.version = session.version + 1
         /\ session' \in SessionRow
         /\ named = request[q].session.version =>
              to \in NextStatuses(session.status) /\ request[q].session.status = session.status
  BY DEF AttendanceInv, AttendanceTypeOK, CopiesInv, Transition, VersionMatches, SessionRow

\* A request that only reads, or ends, keeps the invariant.
LEMMA ReadStep ==
  ASSUME AttendanceInv, NEW q \in Requests,
         \/ \E op \in Decisive \union Changes : ReadSession(q, op)
         \/ \E named \in 0 .. MaxVersion : ReadAttendance(q, named) \/ PrepareChange(q, named)
         \/ GiveUp(q)
  PROVE  AttendanceInv' /\ RowsMove
<1> USE DEF AttendanceInv, AttendanceTypeOK
<1>1. session \in SessionRow /\ attendance \in AttendanceRow /\ request \in [Requests -> Request]
  OBVIOUS
<1>2. NoRequest \in Request
  BY DEF NoRequest, Request, NoAttendance, SessionRow, AttendanceRow, SessionStates,
         AttendanceStates, Stages
<1>3. ASSUME NEW r \in Request, request' = [request EXCEPT ![q] = r],
             UNCHANGED <<session, attendance, blind>>,
             r.stage # "idle" =>
               /\ r.session.version <= session.version
               /\ r.session.version = session.version => r.session.status = session.status
               /\ ~blind /\ r.session.status = "disputed"
                    => attendance.state \in {"disputed", "resolved"},
             r.stage = "ready" /\ r.op \in Decisive =>
               r.attendance = attendance /\ Decision(r.op) \in NextStates(attendance.state),
             r.stage = "ready" /\ r.op \in Changes => r.session.status \in LiveStates
      PROVE  AttendanceInv' /\ RowsMove
  <2>1. request'[q] = r /\ \A p \in Requests \ {q} : request'[p] = request[p]
    BY <1>1, <1>3
  <2>2. AttendanceTypeOK'
    BY <1>1, <1>3
  <2>3. CopiesInv'
    BY <1>1, <1>3, <2>1 DEF CopiesInv, AttendanceRow
  <2>4. AttendanceMatchesSession' /\ RowsMove
    BY <1>3 DEF AttendanceMatchesSession, RowsMove
  <2> QED
    BY <2>2, <2>3, <2>4
<1>4. ASSUME NEW op \in Decisive \union Changes, ReadSession(q, op)
      PROVE  AttendanceInv' /\ RowsMove
  <2> DEFINE r == [NoRequest EXCEPT !.op = op, !.stage = "session_read", !.session = session]
  <2>1. r.op = op /\ r.stage = "session_read" /\ r.session = session
    BY DEF NoRequest
  <2>2. r \in Request
    BY <1>1, <1>2, <1>4 DEF Request, Stages
  <2>3. request' = [request EXCEPT ![q] = r] /\ UNCHANGED <<session, attendance, blind>>
    BY <1>4 DEF ReadSession
  <2> HIDE DEF r
  <2>4. ~blind /\ session.status = "disputed" => attendance.state \in {"disputed", "resolved"}
    BY DEF AttendanceMatchesSession
  <2>5. session.version <= session.version /\ r.stage # "ready"
    BY <1>1, <2>1 DEF SessionRow
  <2> QED
    BY <1>3, <2>1, <2>2, <2>3, <2>4, <2>5
<1>5. ASSUME NEW named \in 0 .. MaxVersion, ReadAttendance(q, named)
      PROVE  AttendanceInv' /\ RowsMove
  <2> DEFINE r == [request[q] EXCEPT !.stage = "ready", !.attendance = attendance, !.named = named]
  <2>1. /\ r.op = request[q].op /\ r.stage = "ready" /\ r.session = request[q].session
        /\ r.attendance = attendance
    BY <1>1 DEF Request
  <2>2. r \in Request
    <3>1. PICK one : one = [request[q] EXCEPT !.stage = "ready"]
      OBVIOUS
    <3>2. one \in Request
      BY <1>1, <3>1 DEF Request, Stages
    <3>3. PICK two : two = [one EXCEPT !.attendance = attendance]
      OBVIOUS
    <3>4. two \in Request
      BY <1>1, <3>2, <3>3 DEF Request
    <3>5. r = [two EXCEPT !.named = named]
      BY <3>1, <3>3
    <3> QED
      BY <3>4, <3>5 DEF Request
  <2>3. /\ request' = [request EXCEPT ![q] = r] /\ UNCHANGED <<session, attendance, blind>>
        /\ Decision(request[q].op) \in NextStates(attendance.state)
        /\ request[q].op \in Decisive /\ request[q].stage # "idle"
    BY <1>5 DEF ReadAttendance
  <2> HIDE DEF r
  <2>4. r.op \notin Changes
    BY <2>1, <2>3 DEF Decisive, Changes
  <2>5. /\ r.session.version <= session.version
        /\ r.session.version = session.version => r.session.status = session.status
        /\ ~blind /\ r.session.status = "disputed" => attendance.state \in {"disputed", "resolved"}
    BY <2>1, <2>3 DEF CopiesInv
  <2> QED
    BY <1>3, <2>1, <2>2, <2>3, <2>4, <2>5
<1>6. ASSUME NEW named \in 0 .. MaxVersion, PrepareChange(q, named)
      PROVE  AttendanceInv' /\ RowsMove
  <2> DEFINE r == [request[q] EXCEPT !.stage = "ready", !.named = named]
  <2>1. r.op = request[q].op /\ r.stage = "ready" /\ r.session = request[q].session
    BY <1>1 DEF Request
  <2>2. r \in Request
    <3>1. PICK one : one = [request[q] EXCEPT !.stage = "ready"]
      OBVIOUS
    <3>2. one \in Request
      BY <1>1, <3>1 DEF Request, Stages
    <3>3. r = [one EXCEPT !.named = named]
      BY <3>1
    <3> QED
      BY <3>2, <3>3 DEF Request
  <2>3. /\ request' = [request EXCEPT ![q] = r] /\ UNCHANGED <<session, attendance, blind>>
        /\ request[q].session.status \in LiveStates
        /\ request[q].op \in Changes /\ request[q].stage # "idle"
    BY <1>6 DEF PrepareChange
  <2> HIDE DEF r
  <2>4. r.op \notin Decisive
    BY <2>1, <2>3 DEF Decisive, Changes
  <2>5. /\ r.session.version <= session.version
        /\ r.session.version = session.version => r.session.status = session.status
        /\ ~blind /\ r.session.status = "disputed" => attendance.state \in {"disputed", "resolved"}
    BY <2>1, <2>3 DEF CopiesInv
  <2> QED
    BY <1>3, <2>1, <2>2, <2>3, <2>4, <2>5
<1>7. CASE GiveUp(q)
  <2>1. NoRequest.stage = "idle"
    BY DEF NoRequest
  <2> QED
    BY <1>2, <1>3, <1>7, <2>1 DEF GiveUp
<1> QED
  BY <1>4, <1>5, <1>6, <1>7

\* A write that lands ends its request and makes a legal move, unless blind.
LEMMA WriteStep ==
  ASSUME AttendanceInv, NEW q \in Requests, Record(q) \/ Decide(q) \/ Change(q)
  PROVE  /\ RowsMove
         /\ session' \in SessionRow /\ attendance' \in AttendanceRow /\ blind' \in BOOLEAN
         /\ request' = [request EXCEPT ![q] = NoRequest]
         /\ AttendanceMatchesSession'
<1> USE DEF AttendanceInv, AttendanceTypeOK
<1> DEFINE read == request[q].session
<1>1. /\ session \in SessionRow /\ attendance \in AttendanceRow /\ request[q] \in Request
      /\ blind \in BOOLEAN
  OBVIOUS
<1>2. /\ read \in SessionRow /\ read.version \in Nat /\ request[q].named \in Nat
      /\ request[q].attendance \in AttendanceRow
  BY <1>1 DEF Request, SessionRow
<1>3. request[q].stage = "ready"
  BY DEF Record, Decide, Change
<1>4. ASSUME NEW to \in SessionStates, Transition(read, to, read.version)
      PROVE  /\ session' \in SessionRow /\ session'.status = to
             /\ session'.version = session.version + 1
             /\ to \in NextStatuses(session.status) /\ read.status = session.status
  BY <1>2, <1>3, <1>4, TransitionFacts
<1>5. CASE Record(q)
  <2>1. /\ attendance.state = "none" /\ attendance' = [state |-> "recorded", version |-> 1]
        /\ request[q].op = "record" /\ request' = [request EXCEPT ![q] = NoRequest]
        /\ blind' = blind /\ Transition(read, "completed", read.version)
    BY <1>5 DEF Record, SessionFollows
  <2> HIDE DEF read
  <2>2. /\ session' \in SessionRow /\ session'.status = "completed"
        /\ session'.version = session.version + 1
        /\ "completed" \in NextStatuses(session.status)
    BY <1>4, <2>1 DEF SessionStates
  <2>3. attendance' \in AttendanceRow /\ attendance'.state = "recorded" /\ attendance'.version = 1
    BY <2>1 DEF AttendanceRow, AttendanceStates
  <2>4. attendance.version = 0
    BY <2>1 DEF CopiesInv
  <2>5. RowsMove
    BY <2>1, <2>2, <2>3, <2>4 DEF RowsMove, NextStates
  <2> QED
    BY <1>1, <2>1, <2>2, <2>3, <2>5 DEF AttendanceMatchesSession, LiveStates
<1>6. CASE Decide(q)
  <2> DEFINE op == request[q].op
             seen == request[q].attendance
             named == request[q].named
  <2>1. /\ op \in {"confirm", "dispute", "resolve"}
        /\ attendance.version = named
        /\ attendance' = [state |-> Decision(op), version |-> named + 1]
        /\ request' = [request EXCEPT ![q] = NoRequest]
        /\ blind' = (blind \/ named # seen.version)
    BY <1>6 DEF Decide, Decisive, VersionMatches
  <2>2. \/ op = "dispute" /\ read.status # "disputed" /\ Transition(read, "disputed", read.version)
        \/ op = "resolve" /\ read.status = "disputed" /\ Transition(read, "completed", read.version)
        \/ /\ \/ op = "confirm"
              \/ op = "dispute" /\ read.status = "disputed"
              \/ op = "resolve" /\ read.status # "disputed"
           /\ UNCHANGED session
    BY <1>6, <2>1 DEF Decide, SessionFollows
  <2>3. /\ Decision(op) \in NextStates(seen.state)
        /\ seen.version = attendance.version => seen.state = attendance.state
        /\ ~blind /\ read.status = "disputed" => attendance.state \in {"disputed", "resolved"}
    BY <1>3, <2>1 DEF CopiesInv, Decisive
  <2> HIDE DEF read, op, seen, named
  <2>4. /\ attendance' \in AttendanceRow /\ attendance'.state = Decision(op)
        /\ attendance'.version = attendance.version + 1
        /\ Decision(op) = CASE op = "confirm" -> "confirmed" [] op = "dispute" -> "disputed"
                            [] op = "resolve" -> "resolved"
    BY <1>1, <2>1 DEF AttendanceRow, AttendanceStates, Decision
  <2>5. ~blind' => /\ ~blind
                   /\ Decision(op) \in NextStates(attendance.state)
                   /\ op = "confirm" => attendance.state = "recorded"
                   /\ op = "dispute" => attendance.state \in {"recorded", "confirmed"}
                   /\ op = "resolve" => attendance.state = "disputed"
    BY <2>1, <2>3, <2>4 DEF NextStates
  <2>6. CASE op = "dispute" /\ read.status # "disputed" /\ Transition(read, "disputed", read.version)
    <3>1. /\ session' \in SessionRow /\ session'.status = "disputed"
          /\ session'.version = session.version + 1
          /\ "disputed" \in NextStatuses(session.status)
      BY <1>4, <2>6 DEF SessionStates
    <3> QED
      BY <1>1, <2>1, <2>4, <2>5, <2>6, <3>1 DEF RowsMove, AttendanceMatchesSession, LiveStates
  <2>7. CASE op = "resolve" /\ read.status = "disputed" /\ Transition(read, "completed", read.version)
    <3>1. /\ session' \in SessionRow /\ session'.status = "completed"
          /\ session'.version = session.version + 1
          /\ "completed" \in NextStatuses(session.status)
      BY <1>4, <2>7 DEF SessionStates
    <3> QED
      BY <1>1, <2>1, <2>4, <2>5, <2>7, <3>1 DEF RowsMove, AttendanceMatchesSession, LiveStates
  <2>8. CASE UNCHANGED session /\ (op = "dispute" => read.status = "disputed")
    <3>1. RowsMove
      BY <2>1, <2>4, <2>5, <2>8 DEF RowsMove
    <3>2. AttendanceMatchesSession'
      BY <2>1, <2>3, <2>4, <2>5, <2>8 DEF AttendanceMatchesSession, LiveStates
    <3> QED
      BY <1>1, <2>1, <2>4, <2>8, <3>1, <3>2
  <2> QED
    BY <2>1, <2>2, <2>6, <2>7, <2>8
<1>7. CASE Change(q)
  <2> DEFINE to == IF request[q].op = "cancel" THEN "cancelled" ELSE "rescheduled"
             named == request[q].named
  <2>1. /\ Transition(read, to, named)
        /\ request' = [request EXCEPT ![q] = NoRequest]
        /\ blind' = (blind \/ named # read.version)
        /\ UNCHANGED attendance
        /\ request[q].op \in Changes
    BY <1>7 DEF Change
  <2>2. read.status \in LiveStates
    BY <1>3, <2>1 DEF CopiesInv
  <2>3. to \in {"cancelled", "rescheduled"}
    OBVIOUS
  <2> HIDE DEF to
  <2>4. /\ session' \in SessionRow /\ session'.status = to
        /\ session'.version = session.version + 1
        /\ named = read.version => to \in NextStatuses(session.status) /\ read.status = session.status
    BY <1>2, <1>3, <2>1, <2>3, TransitionFacts DEF SessionStates
  <2> HIDE DEF read, named
  <2>5. RowsMove
    BY <2>1, <2>4 DEF RowsMove
  <2>6. AttendanceMatchesSession'
    BY <2>1, <2>2, <2>3, <2>4 DEF AttendanceMatchesSession, LiveStates
  <2> QED
    BY <1>1, <2>1, <2>4, <2>5, <2>6
<1> QED
  BY <1>5, <1>6, <1>7

\* Every step keeps the invariant and makes a legal move, unless blind.
LEMMA AttendanceNextInv ==
  AttendanceInv /\ [AttendanceNext]_attendanceVars => AttendanceInv' /\ RowsMove
<1> SUFFICES ASSUME AttendanceInv, [AttendanceNext]_attendanceVars
             PROVE  AttendanceInv' /\ RowsMove
  OBVIOUS
<1> USE DEF AttendanceInv, AttendanceTypeOK
<1>1. ASSUME NEW q \in Requests, Record(q) \/ Decide(q) \/ Change(q)
      PROVE  AttendanceInv' /\ RowsMove
  <2>1. /\ RowsMove
        /\ session' \in SessionRow /\ attendance' \in AttendanceRow /\ blind' \in BOOLEAN
        /\ request' = [request EXCEPT ![q] = NoRequest]
        /\ AttendanceMatchesSession'
    BY <1>1, WriteStep
  <2>2. NoRequest \in Request /\ NoRequest.stage = "idle"
    BY DEF NoRequest, Request, NoAttendance, SessionRow, AttendanceRow, SessionStates,
           AttendanceStates, Stages
  <2>3. request'[q].stage = "idle" /\ \A p \in Requests \ {q} : request'[p] = request[p]
    BY <2>1, <2>2
  <2>4. AttendanceTypeOK'
    BY <2>1, <2>2
  <2>5. session.version \in Nat /\ attendance.version \in Nat
    BY DEF SessionRow, AttendanceRow
  <2>6. \A p \in Requests : request[p].session.version \in Nat /\ request[p].attendance.version \in Nat
    BY DEF Request, SessionRow, AttendanceRow
  <2>7. attendance'.state # "none"  \/ attendance' = attendance
    BY <1>1 DEF Record, Decide, Decision, Change
  <2>8. ~blind' => (attendance.state \in {"disputed", "resolved"}
                      => attendance'.state \in {"disputed", "resolved"})
    BY <2>1 DEF RowsMove, NextStates
  <2>9. CopiesInv'
    BY <2>1, <2>2, <2>3, <2>5, <2>6, <2>7, <2>8 DEF CopiesInv, RowsMove, Decisive, Changes
  <2> QED
    BY <2>1, <2>4, <2>9
<1>2. CASE UNCHANGED attendanceVars
  BY <1>2 DEF attendanceVars, CopiesInv, AttendanceMatchesSession, RowsMove
<1> QED
  BY <1>1, <1>2, ReadStep DEF AttendanceNext, InBounds

\* For any number of requests, however their reads and writes interleave, and
\* as long as no client names a version its request had not read: session and
\* attendance stay in step (attendance.py).
THEOREM AttendanceIsSafe == AttendanceSpec => []AttendanceMatchesSession
<1>1. AttendanceInv => AttendanceMatchesSession
  BY DEF AttendanceInv
<1> QED
  BY <1>1, AttendanceInitInv, AttendanceNextInv, PTL DEF AttendanceSpec

\* Under the same condition, a decision on a state that is gone never lands.
THEOREM StaleDecisionsLose == AttendanceSpec => StaleDecisionLoses
<1>1. RowsMove =>
        [~blind' => /\ attendance'.state # attendance.state
                         => attendance'.state \in NextStates(attendance.state)
                    /\ session'.status # session.status
                         => session'.status \in NextStatuses(session.status)]_attendanceVars
  BY DEF RowsMove
<1> QED
  BY <1>1, AttendanceInitInv, AttendanceNextInv, PTL DEF AttendanceSpec, StaleDecisionLoses

-----------------------------------------------------------------------------
(* The outbox relay for any number of rows, requests, relays and crashes.   *)

\* What a process remembers of a row never runs ahead of the row: the attempts
\* it read are at most those counted, the attempt it owns is counted, and a
\* permanent refusal it saw is on record.
MemoryInv ==
  /\ \A p \in Procs : \A j \in todo[p] : j.seen <= row[j.row].attempts
  /\ \A p \in Procs : claim[p].row # None =>
        /\ claim[p].seen < row[claim[p].row].attempts
        /\ claim[p].outcome = "permanent" => claim[p].row \in refused
  /\ \A p \in Procs : claim[p].row = None => claim[p].outcome = "none"
  /\ \A r \in Rows : row[r].attempts <= Limit

OutboxInv == OutboxTypeOK /\ MemoryInv /\ AttemptsAreExclusive /\ VoidIsEarned

\* An empty outbox satisfies the invariant.
LEMMA OutboxInitInv == OutboxInit => OutboxInv
  BY OutboxAssumption DEF OutboxInit, OutboxInv, OutboxTypeOK, MemoryInv, AttemptsAreExclusive,
     VoidIsEarned, NoClaim, Claims, Seen, Status, Outcomes

\* Every step of a request, a relay or a crash preserves it.
LEMMA OutboxNextInv == OutboxInv /\ [OutboxNext]_outboxVars => OutboxInv'
<1> SUFFICES ASSUME OutboxInv, [OutboxNext]_outboxVars PROVE OutboxInv'
  OBVIOUS
<1> USE OutboxAssumption
<1> USE DEF OutboxInv, OutboxTypeOK, MemoryInv, AttemptsAreExclusive, VoidIsEarned,
            Claims, Seen, Status, NoClaim, Idle, history
<1>1. ASSUME NEW p \in Procs, NEW r \in Rows, Enqueue(p, r) PROVE OutboxInv'
  BY <1>1 DEF Enqueue
<1>2. ASSUME NEW p \in Procs, StartPass(p) PROVE OutboxInv'
  <2> DEFINE read == {[row |-> r, seen |-> row[r].attempts] : r \in PendingRows}
  <2>1. read \in SUBSET Seen /\ \A j \in read : j.seen <= row[j.row].attempts
    <3>1. \A r \in PendingRows : r \in Rows /\ row[r].attempts \in Nat
      BY DEF PendingRows, Undelivered
    <3> QED
      BY <3>1
  <2>2. todo' = [todo EXCEPT ![p] = read]
    BY <1>2 DEF StartPass
  <2> HIDE DEF read
  <2>3. UNCHANGED <<row, claim, crashes, dispatched, refused, sentOnce>>
    BY <1>2 DEF StartPass
  <2> QED
    BY <2>1, <2>2, <2>3
<1>3. ASSUME NEW p \in Procs, NEW j \in todo[p], Exhaust(p, j) PROVE OutboxInv'
  <2>1. j.row \in Rows /\ row[j.row].attempts = Limit
    <3>1. j \in Seen /\ j.seen <= row[j.row].attempts
      OBVIOUS
    <3>2. row[j.row].attempts \in Nat /\ row[j.row].attempts <= Limit
      BY <3>1
    <3>3. j.row \in Rows /\ j.seen \in Nat /\ j.seen >= Limit
      BY <1>3, <3>1 DEF Exhaust
    <3> HIDE DEF OutboxInv
    <3> QED
      BY <3>1, <3>2, <3>3
  <2>2. OutboxTypeOK'
    BY <1>3 DEF Exhaust, Done
  <2>3. \A r \in Rows : row'[r].attempts = row[r].attempts
    BY <1>3, <2>1 DEF Exhaust
  <2>4. MemoryInv'
    BY <1>3, <2>1, <2>3 DEF Exhaust, Done
  <2>5. AttemptsAreExclusive' /\ VoidIsEarned'
    BY <1>3, <2>1 DEF Exhaust
  <2> QED
    BY <2>2, <2>4, <2>5
<1>4. ASSUME NEW p \in Procs, NEW j \in todo[p], Claim(p, j) PROVE OutboxInv'
  BY <1>4 DEF Claim, NextUp, Done, AsSeen
<1>5. ASSUME NEW p \in Procs, NEW j \in todo[p], Skip(p, j) PROVE OutboxInv'
  BY <1>5 DEF Skip, NextUp, Done
<1>6. ASSUME NEW p \in Procs, NEW outcome \in Outcomes, Dispatch(p, outcome) PROVE OutboxInv'
  BY <1>6 DEF Dispatch, Outcomes
<1>7. ASSUME NEW p \in Procs, Finish(p) PROVE OutboxInv'
  <2> DEFINE r == claim[p].row
             verdict == Verdict(claim[p])
  <2>1. r \in Rows
    BY <1>7 DEF Finish
  <2>2. verdict \in {"sent", "failed", "void"}
    BY DEF Verdict
  <2>3. verdict = "void" => r \in refused \/ row[r].attempts = Limit
    <3>1. /\ claim[p].seen \in Nat
          /\ row[r].attempts \in Nat
          /\ claim[p].seen < row[r].attempts
          /\ row[r].attempts <= Limit
          /\ claim[p].outcome \in Outcomes
          /\ claim[p].outcome = "permanent" => r \in refused
      BY <1>7, <2>1 DEF Finish
    <3>2. CASE claim[p].outcome = "delivered"
      BY <3>2 DEF Verdict
    <3>3. CASE claim[p].outcome = "permanent"
      BY <3>1, <3>3
    <3>4. CASE claim[p].outcome = "retryable"
      <4>1. verdict = "void" => ~(claim[p].seen + 1 < Limit)
        BY <3>4 DEF Verdict
      <4>2. Limit \in Nat
        OBVIOUS
      <4> HIDE DEF verdict, OutboxInv, OutboxTypeOK, MemoryInv, Claims
      <4> QED
        BY <3>1, <4>1, <4>2
    <3> QED
      BY <3>1, <3>2, <3>3, <3>4 DEF Outcomes
  <2>4. /\ row' = [row EXCEPT ![r].status = verdict]
        /\ claim' = [claim EXCEPT ![p] = NoClaim]
        /\ sentOnce' \subseteq Rows
        /\ UNCHANGED <<todo, crashes, dispatched, refused>>
    BY <1>7, <2>1 DEF Finish
  <2> HIDE DEF r, verdict
  <2>5. OutboxTypeOK'
    BY <2>1, <2>2, <2>4
  <2>6. \A q \in Rows : row'[q].attempts = row[q].attempts
    BY <2>1, <2>4
  <2>7. MemoryInv'
    BY <2>4, <2>6
  <2>8. AttemptsAreExclusive' /\ VoidIsEarned'
    BY <2>1, <2>3, <2>4
  <2> QED
    BY <2>5, <2>7, <2>8
<1>8. ASSUME NEW p \in Procs, Crash(p) PROVE OutboxInv'
  BY <1>8 DEF Crash
<1>9. CASE UNCHANGED outboxVars
  BY <1>9 DEF outboxVars
<1> QED
  BY <1>1, <1>2, <1>3, <1>4, <1>5, <1>6, <1>7, <1>8, <1>9 DEF OutboxNext, Work

\* An attempt has one owner, and a notification is given up only when it may be
\* (outbox_relay._claim, run_delivery and relay_pending).
THEOREM OutboxSafe == OutboxSpec => [](AttemptsAreExclusive /\ VoidIsEarned)
<1>1. OutboxInv => AttemptsAreExclusive /\ VoidIsEarned
  BY DEF OutboxInv
<1> QED
  BY OutboxInitInv, OutboxNextInv, <1>1, PTL DEF OutboxSpec

-----------------------------------------------------------------------------
(* Attempts and dispatches.                                                 *)

\* The attempts of a row that somebody owns and has not dispatched yet.
Owed(r) == {claim[p].seen : p \in {q \in Procs : claim[q].row = r /\ claim[q].outcome = "none"}}

\* Every attempt that was counted pays for one dispatch, made or still owed.
EveryDispatchIsCounted ==
  \A r \in Rows : dispatched[r] + Cardinality(Owed(r)) <= row[r].attempts

DispatchInv == OutboxInv /\ EveryDispatchIsCounted

\* Only attempts already counted are owed, so finitely many.
LEMMA OwedFinite ==
  ASSUME OutboxInv, NEW r \in Rows
  PROVE  /\ Owed(r) \subseteq 0 .. (row[r].attempts - 1)
         /\ IsFiniteSet(Owed(r)) /\ Cardinality(Owed(r)) \in Nat
         /\ row[r].attempts \in Nat /\ dispatched[r] \in Nat
<1>1. row[r].attempts \in Nat /\ dispatched[r] \in Nat
  BY DEF OutboxInv, OutboxTypeOK
<1>2. Owed(r) \subseteq 0 .. (row[r].attempts - 1)
  <2> SUFFICES ASSUME NEW p \in Procs, claim[p].row = r
               PROVE  claim[p].seen \in 0 .. (row[r].attempts - 1)
    BY DEF Owed
  <2>1. claim[p].seen \in Nat /\ claim[p].seen < row[r].attempts
    BY OutboxAssumption DEF OutboxInv, OutboxTypeOK, MemoryInv, Claims
  <2> QED
    BY <1>1, <2>1
<1>3. IsFiniteSet(0 .. (row[r].attempts - 1))
  BY <1>1, FS_Interval
<1>4. IsFiniteSet(Owed(r))
  BY <1>2, <1>3, FS_Subset
<1> QED
  BY <1>1, <1>2, <1>4, FS_CardinalityType

\* A step that dispatches nothing and lets nobody owe a new attempt.
LEMMA NothingOwed ==
  ASSUME DispatchInv, UNCHANGED dispatched,
         \A r \in Rows : row'[r].attempts = row[r].attempts,
         \A r \in Rows : Owed(r)' \subseteq Owed(r)
  PROVE  EveryDispatchIsCounted'
<1> SUFFICES ASSUME NEW r \in Rows
             PROVE  dispatched'[r] + Cardinality(Owed(r)') <= row'[r].attempts
  BY DEF EveryDispatchIsCounted
<1>1. /\ IsFiniteSet(Owed(r)) /\ Cardinality(Owed(r)) \in Nat
      /\ row[r].attempts \in Nat /\ dispatched[r] \in Nat
  BY OwedFinite DEF DispatchInv
<1>2. Cardinality(Owed(r)') <= Cardinality(Owed(r)) /\ IsFiniteSet(Owed(r)')
  BY <1>1, FS_Subset
<1>3. Cardinality(Owed(r)') \in Nat
  BY <1>2, FS_CardinalityType
<1>4. dispatched[r] + Cardinality(Owed(r)) <= row[r].attempts
  BY DEF DispatchInv, EveryDispatchIsCounted
<1> QED
  BY <1>1, <1>2, <1>3, <1>4

\* A claim counts an attempt that nobody owns and owes its dispatch.
LEMMA ClaimOwes ==
  ASSUME DispatchInv, NEW p \in Procs, NEW j \in todo[p], Claim(p, j)
  PROVE  EveryDispatchIsCounted'
<1> SUFFICES ASSUME NEW r \in Rows
             PROVE  dispatched'[r] + Cardinality(Owed(r)') <= row'[r].attempts
  BY DEF EveryDispatchIsCounted
<1>1. /\ IsFiniteSet(Owed(r)) /\ Cardinality(Owed(r)) \in Nat
      /\ row[r].attempts \in Nat /\ dispatched[r] \in Nat
      /\ dispatched[r] + Cardinality(Owed(r)) <= row[r].attempts
  BY OwedFinite DEF DispatchInv, EveryDispatchIsCounted
<1>2. /\ row[j.row].attempts = j.seen /\ claim[p] = NoClaim
      /\ row' = [row EXCEPT ![j.row].attempts = j.seen + 1]
      /\ claim' = [claim EXCEPT ![p] = [row |-> j.row, seen |-> j.seen, outcome |-> "none"]]
      /\ UNCHANGED dispatched
  BY DEF Claim, AsSeen, NextUp
<1>3. /\ j.row \in Rows /\ row \in [Rows -> [status : Status, attempts : Nat]]
      /\ claim \in [Procs -> Claims]
  BY DEF DispatchInv, OutboxInv, OutboxTypeOK, Seen
<1>4. claim[p].row # r
  BY <1>2, OutboxAssumption DEF NoClaim
<1>5. CASE r = j.row
  <2>1. Owed(r)' = Owed(r) \union {j.seen}
    BY <1>2, <1>3, <1>4, <1>5 DEF Owed
  <2>2. Cardinality(Owed(r)') <= Cardinality(Owed(r)) + 1 /\ Cardinality(Owed(r)') \in Nat
    <3>1. /\ IsFiniteSet(Owed(r) \union {j.seen})
          /\ Cardinality(Owed(r) \union {j.seen}) =
               IF j.seen \in Owed(r) THEN Cardinality(Owed(r)) ELSE Cardinality(Owed(r)) + 1
      BY <1>1, FS_AddElement
    <3> QED
      BY <1>1, <2>1, <3>1
  <2>3. row'[r].attempts = row[r].attempts + 1
    BY <1>2, <1>3, <1>5
  <2> QED
    BY <1>1, <1>2, <2>2, <2>3
<1>6. CASE r # j.row
  <2>1. Owed(r)' = Owed(r)
    BY <1>2, <1>3, <1>4, <1>6 DEF Owed
  <2>2. row'[r].attempts = row[r].attempts
    BY <1>2, <1>3, <1>6
  <2> QED
    BY <1>1, <1>2, <2>1, <2>2
<1> QED
  BY <1>5, <1>6

\* A dispatch settles the one attempt it was owed for: nobody else owns it.
LEMMA DispatchSettles ==
  ASSUME DispatchInv, NEW p \in Procs, NEW outcome \in Outcomes, Dispatch(p, outcome)
  PROVE  EveryDispatchIsCounted'
<1> DEFINE mine == claim[p].row
<1> SUFFICES ASSUME NEW r \in Rows
             PROVE  dispatched'[r] + Cardinality(Owed(r)') <= row'[r].attempts
  BY DEF EveryDispatchIsCounted
<1>1. /\ IsFiniteSet(Owed(r)) /\ Cardinality(Owed(r)) \in Nat
      /\ row[r].attempts \in Nat /\ dispatched[r] \in Nat
      /\ dispatched[r] + Cardinality(Owed(r)) <= row[r].attempts
  BY OwedFinite DEF DispatchInv, EveryDispatchIsCounted
<1>2. /\ mine # None /\ claim[p].outcome = "none"
      /\ claim' = [claim EXCEPT ![p].outcome = outcome]
      /\ dispatched' = [dispatched EXCEPT ![mine] = @ + 1]
      /\ UNCHANGED row
  BY DEF Dispatch
<1>3. claim \in [Procs -> Claims] /\ dispatched \in [Rows -> Nat] /\ outcome # "none"
  BY DEF DispatchInv, OutboxInv, OutboxTypeOK, Outcomes
<1>4. \A q \in Procs : /\ claim'[q].row = claim[q].row /\ claim'[q].seen = claim[q].seen
                       /\ claim'[q].outcome = IF q = p THEN outcome ELSE claim[q].outcome
  BY <1>2, <1>3 DEF Claims
<1>5. CASE r = mine
  <2>1. \A q \in Procs : claim[q].row = r /\ claim[q].seen = claim[p].seen => q = p
    BY <1>2, <1>5 DEF DispatchInv, OutboxInv, AttemptsAreExclusive
  <2>2. Owed(r)' = Owed(r) \ {claim[p].seen}
    BY <1>3, <1>4, <2>1 DEF Owed
  <2>3. claim[p].seen \in Owed(r)
    BY <1>2, <1>5 DEF Owed
  <2>4. Cardinality(Owed(r) \ {claim[p].seen}) = Cardinality(Owed(r)) - 1
    BY <1>1, <2>3, FS_RemoveElement
  <2>5. dispatched'[r] = dispatched[r] + 1
    BY <1>2, <1>3, <1>5
  <2> QED
    BY <1>1, <1>2, <2>2, <2>4, <2>5
<1>6. CASE r # mine
  <2>1. Owed(r)' = Owed(r)
    BY <1>4, <1>6 DEF Owed
  <2>2. dispatched'[r] = dispatched[r]
    BY <1>2, <1>3, <1>6
  <2> QED
    BY <1>1, <1>2, <2>1, <2>2
<1> QED
  BY <1>5, <1>6

\* Every step keeps the count.
LEMMA DispatchNextInv == DispatchInv /\ [OutboxNext]_outboxVars => EveryDispatchIsCounted'
<1> SUFFICES ASSUME DispatchInv, [OutboxNext]_outboxVars PROVE EveryDispatchIsCounted'
  OBVIOUS
<1>1. /\ row \in [Rows -> [status : Status, attempts : Nat]]
      /\ claim \in [Procs -> Claims] /\ \A p \in Procs : todo[p] \subseteq Seen
  BY DEF DispatchInv, OutboxInv, OutboxTypeOK
<1>2. ASSUME NEW p \in Procs, NEW r \in Rows, Enqueue(p, r) PROVE EveryDispatchIsCounted'
  <2>1. UNCHANGED <<claim, dispatched>> /\ \A q \in Rows : row'[q].attempts = row[q].attempts
    BY <1>1, <1>2 DEF Enqueue
  <2> QED
    BY <2>1, NothingOwed DEF Owed
<1>3. ASSUME NEW p \in Procs, StartPass(p) PROVE EveryDispatchIsCounted'
  BY <1>3, NothingOwed DEF StartPass, Owed
<1>4. ASSUME NEW p \in Procs, NEW j \in todo[p], Exhaust(p, j) PROVE EveryDispatchIsCounted'
  <2>1. UNCHANGED <<claim, dispatched>> /\ \A q \in Rows : row'[q].attempts = row[q].attempts
    BY <1>1, <1>4 DEF Exhaust, Seen
  <2> QED
    BY <2>1, NothingOwed DEF Owed
<1>5. ASSUME NEW p \in Procs, NEW j \in todo[p], Skip(p, j) PROVE EveryDispatchIsCounted'
  BY <1>5, NothingOwed DEF Skip, Owed
<1>6. ASSUME NEW p \in Procs, claim' = [claim EXCEPT ![p] = NoClaim], UNCHANGED dispatched,
             \A q \in Rows : row'[q].attempts = row[q].attempts
      PROVE  EveryDispatchIsCounted'
  <2>1. \A q \in Procs, r \in Rows : claim'[q].row = r => claim'[q] = claim[q]
    BY <1>1, <1>6, OutboxAssumption DEF NoClaim
  <2>2. \A r \in Rows : Owed(r)' \subseteq Owed(r)
    BY <2>1 DEF Owed
  <2> QED
    BY <1>6, <2>2, NothingOwed
<1>7. ASSUME NEW p \in Procs, Finish(p) PROVE EveryDispatchIsCounted'
  <2>1. \A q \in Rows : row'[q].attempts = row[q].attempts
    BY <1>1, <1>7 DEF Finish
  <2> QED
    BY <1>6, <1>7, <2>1 DEF Finish
<1>8. ASSUME NEW p \in Procs, Crash(p) PROVE EveryDispatchIsCounted'
  BY <1>6, <1>8 DEF Crash
<1>9. CASE UNCHANGED outboxVars
  BY <1>9, NothingOwed DEF outboxVars, Owed
<1> QED
  BY <1>2, <1>3, <1>4, <1>5, <1>7, <1>8, <1>9, ClaimOwes, DispatchSettles DEF OutboxNext, Work

\* Through every race and crash a row is dispatched at most once per attempt,
\* and never more often than worker_max_attempts.
THEOREM DispatchesAreBounded == OutboxSpec => []DispatchedOncePerAttempt
<1>1. OutboxInit => EveryDispatchIsCounted
  <2> SUFFICES ASSUME OutboxInit, NEW r \in Rows
               PROVE  dispatched[r] + Cardinality(Owed(r)) <= row[r].attempts
    BY DEF EveryDispatchIsCounted
  <2>1. Owed(r) = {}
    BY OutboxAssumption DEF OutboxInit, Owed, NoClaim
  <2> QED
    BY <2>1, FS_EmptySet DEF OutboxInit
<1>2. OutboxInv /\ EveryDispatchIsCounted => DispatchedOncePerAttempt
  <2> SUFFICES ASSUME OutboxInv, EveryDispatchIsCounted, NEW r \in Rows
               PROVE  dispatched[r] <= row[r].attempts /\ row[r].attempts <= Limit
    BY DEF DispatchedOncePerAttempt
  <2>1. /\ Cardinality(Owed(r)) \in Nat /\ row[r].attempts \in Nat /\ dispatched[r] \in Nat
        /\ dispatched[r] + Cardinality(Owed(r)) <= row[r].attempts
    BY OwedFinite DEF EveryDispatchIsCounted
  <2>2. row[r].attempts <= Limit
    BY DEF OutboxInv, MemoryInv
  <2> QED
    BY <2>1, <2>2
<1>3. OutboxInv /\ EveryDispatchIsCounted <=> DispatchInv
  BY DEF DispatchInv
<1> QED
  BY <1>1, <1>2, <1>3, OutboxInitInv, OutboxNextInv, DispatchNextInv, PTL DEF OutboxSpec
=============================================================================
