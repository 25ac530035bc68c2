------------------------- MODULE SessionAttendance --------------------------
(***************************************************************************)
(* Who held the session and what became of it: attendance.py, over the     *)
(* versioned updates of sessions.transition and attendance._bump.          *)
(*                                                                         *)
(* One session, its attendance row and the requests about them, statement  *)
(* by statement.  A request reads the session, then the attendance row,    *)
(* both without a lock, and decides on those copies.  Its writes and its   *)
(* commit are one step: each UPDATE names a version and keeps its row      *)
(* locked until the commit, and the attendance row is always written       *)
(* before the session.  A client may name a version of its own; one below  *)
(* the version its request read always loses and is left out.              *)
(*                                                                         *)
(* The clock is left out: the session may have ended before any request,   *)
(* and a tutor, an admin or the student may still move or cancel it.       *)
(***************************************************************************)
EXTENDS Naturals

CONSTANTS Requests,   \* requests in progress at one time
          MaxVersion  \* bound: versions of a row

ASSUME AttendanceAssumption == MaxVersion \in Nat \ {0}

VARIABLES session,    \* row of tutoring_sessions: status and version
          attendance, \* row of session_attendance: state and version
          request,    \* request[q]: what request q asks for, read and named
          blind       \* a write landed on a version its request never read

attendanceVars == <<session, attendance, request, blind>>

SessionStates == {"confirmed", "rescheduled", "cancelled", "completed", "disputed"}
LiveStates == {"confirmed", "rescheduled"}
AttendanceStates == {"none", "recorded", "confirmed", "disputed", "resolved"}
Decisive == {"record", "confirm", "dispute", "resolve"}
Changes == {"reschedule", "cancel"}
Stages == {"idle", "session_read", "ready"}

\* LEGAL_STATES; a session without an attendance row is about to have one.
NextStates(state) == CASE state = "none" -> {"recorded"}
                       [] state = "recorded" -> {"confirmed", "disputed"}
                       [] state = "confirmed" -> {"disputed"}
                       [] state = "disputed" -> {"resolved"}
                       [] OTHER -> {}

\* The state an attendance request writes.
Decision(op) == CASE op = "record" -> "recorded"
                  [] op = "confirm" -> "confirmed"
                  [] op = "dispute" -> "disputed"
                  [] OTHER -> "resolved"

\* LEGAL_TRANSITIONS.
NextStatuses(status) == CASE status \in LiveStates -> {"rescheduled", "cancelled", "completed",
                                                       "disputed"}
                          [] status = "completed" -> {"disputed"}
                          [] status = "disputed" -> {"completed"}
                          [] OTHER -> {}

SessionRow == [status : SessionStates, version : Nat]
AttendanceRow == [state : AttendanceStates, version : Nat]
Request == [op : Decisive \union Changes \union {"none"}, stage : Stages,
            session : SessionRow, attendance : AttendanceRow, named : Nat]

NoAttendance == [state |-> "none", version |-> 0]
NoRequest == [op |-> "none", stage |-> "idle",
              session |-> [status |-> "confirmed", version |-> 0],
              attendance |-> NoAttendance, named |-> 0]

AttendanceInit == /\ session = [status |-> "confirmed", version |-> 1]
                  /\ attendance = NoAttendance
                  /\ request = [q \in Requests |-> NoRequest]
                  /\ blind = FALSE

-----------------------------------------------------------------------------
\* get_session, and what the request asks of the session it got.
ReadSession(q, op) ==
  /\ request[q].stage = "idle"
  /\ op = "record" => session.status \in LiveStates
  /\ request' = [request EXCEPT ![q] = [NoRequest EXCEPT !.op = op, !.stage = "session_read",
                                                         !.session = session]]
  /\ UNCHANGED <<session, attendance, blind>>

\* get_attendance or _require, and _assert_state.
ReadAttendance(q, named) ==
  /\ request[q].stage = "session_read"
  /\ request[q].op \in Decisive
  /\ Decision(request[q].op) \in NextStates(attendance.state)
  /\ named >= attendance.version
  /\ request' = [request EXCEPT ![q] = [@ EXCEPT !.stage = "ready", !.attendance = attendance,
                                                 !.named = named]]
  /\ UNCHANGED <<session, attendance, blind>>

\* reschedule and cancel look at the session only.
PrepareChange(q, named) ==
  /\ request[q].stage = "session_read"
  /\ request[q].op \in Changes
  /\ request[q].session.status \in LiveStates
  /\ named >= request[q].session.version
  /\ request' = [request EXCEPT ![q] = [@ EXCEPT !.stage = "ready", !.named = named]]
  /\ UNCHANGED <<session, attendance, blind>>

\* A refusal or a crash: the transaction, if it began, rolls back.
GiveUp(q) ==
  /\ request[q].stage # "idle"
  /\ request' = [request EXCEPT ![q] = NoRequest]
  /\ UNCHANGED <<session, attendance, blind>>

-----------------------------------------------------------------------------
\* The conditional UPDATEs: the row still has the version that was named.
VersionIgnored(row, named) == TRUE
VersionMatches(row, named) == row.version = named

\* sessions.transition: the move is judged by the status that was read, and
\* lands if the row has the version.
Transition(read, to, named) ==
  /\ to \in NextStatuses(read.status)
  /\ VersionMatches(session, named)
  /\ session' = [status |-> to, version |-> named + 1]

\* Recording completes the session, a dispute moves it to disputed, and its
\* resolution back to completed, as far as the copy of the session knows.
SessionFollows(q) ==
  LET read == request[q].session
      op == request[q].op
  IN  \/ op = "record" /\ Transition(read, "completed", read.version)
      \/ op = "dispute" /\ read.status # "disputed" /\ Transition(read, "disputed", read.version)
      \/ op = "resolve" /\ read.status = "disputed" /\ Transition(read, "completed", read.version)
      \/ /\ \/ op = "confirm"
            \/ op = "dispute" /\ read.status = "disputed"
            \/ op = "resolve" /\ read.status # "disputed"
         /\ UNCHANGED session

\* record, up to its commit: the unique index admits one attendance row.
Record(q) ==
  /\ request[q].stage = "ready"
  /\ request[q].op = "record"
  /\ attendance.state = "none"
  /\ attendance' = [state |-> "recorded", version |-> 1]
  /\ SessionFollows(q)
  /\ request' = [request EXCEPT ![q] = NoRequest]
  /\ UNCHANGED blind

\* confirm, dispute and resolve, up to their commit.
Decide(q) ==
  /\ request[q].stage = "ready"
  /\ request[q].op \in Decisive \ {"record"}
  /\ VersionMatches(attendance, request[q].named)
  /\ attendance' = [state |-> Decision(request[q].op), version |-> request[q].named + 1]
  /\ SessionFollows(q)
  /\ request' = [request EXCEPT ![q] = NoRequest]
  /\ blind' = (blind \/ request[q].named # request[q].attendance.version)

\* reschedule and cancel, up to their commit.
Change(q) ==
  /\ request[q].stage = "ready"
  /\ request[q].op \in Changes
  /\ Transition(request[q].session,
                IF request[q].op = "cancel" THEN "cancelled" ELSE "rescheduled",
                request[q].named)
  /\ request' = [request EXCEPT ![q] = NoRequest]
  /\ blind' = (blind \/ request[q].named # request[q].session.version)
  /\ UNCHANGED attendance

InBounds == session.version < MaxVersion /\ attendance.version < MaxVersion

AttendanceNext ==
  \E q \in Requests :
    \/ \E op \in Decisive \union Changes : InBounds /\ ReadSession(q, op)
    \/ \E named \in 0 .. MaxVersion : ReadAttendance(q, named) \/ PrepareChange(q, named)
    \/ Record(q)
    \/ Decide(q)
    \/ Change(q)
    \/ GiveUp(q)

AttendanceSpec == AttendanceInit /\ [][AttendanceNext]_attendanceVars

-----------------------------------------------------------------------------
AttendanceTypeOK == /\ session \in SessionRow
                    /\ attendance \in AttendanceRow
                    /\ request \in [Requests -> Request]
                    /\ blind \in BOOLEAN

\* "Session status follows along" (attendance.py), for as long as no client
\* named a version its request had not read: a session without attendance was
\* not held, a disputed attendance has a disputed session, and a session is
\* left disputed only by a dispute, pending or resolved.
AttendanceMatchesSession ==
  ~blind => /\ attendance.state = "none" <=> session.status \in LiveStates \union {"cancelled"}
            /\ attendance.state = "disputed" => session.status = "disputed"
            /\ session.status = "disputed" => attendance.state \in {"disputed", "resolved"}

\* Of two requests that decide on the same state of the attendance, or on the
\* same session, one loses: every change that lands is a legal move from what
\* the rows say at that moment, not from what the request had read.
StaleDecisionLoses ==
  [][~blind' => /\ attendance'.state # attendance.state
                     => attendance'.state \in NextStates(attendance.state)
                /\ session'.status # session.status
                     => session'.status \in NextStatuses(session.status)]_attendanceVars

-----------------------------------------------------------------------------
(* What the documents say and the code does not keep.                      *)

\* "an admin resolution returns it to completed" (attendance.py).
ResolutionCompletes == attendance.state = "resolved" => session.status = "completed"

\* "a caller working from a stale read loses ... instead of overwriting someone
\* else's decision" (attendance.py), for every client.
NobodyOverwrites ==
  [][attendance'.state # attendance.state
       => attendance'.state \in NextStates(attendance.state)]_attendanceVars
=============================================================================
