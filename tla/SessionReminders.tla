-------------------------- MODULE SessionReminders --------------------------
(***************************************************************************)
(* The reminders of one tutoring session (services/tutoring/reminders.py)  *)
(* while its owner moves, cancels or completes it (sessions.py,            *)
(* attendance.py) and workers enqueue what is due: statement by statement  *)
(* on a READ COMMITTED database, where a statement waits for the rows      *)
(* another open transaction has changed.                                   *)
(*                                                                         *)
(* A job is the pair <<t, k>>: the reminder k ticks before a session that  *)
(* starts at t, which is what uq_session_reminder_jobs_session_offset      *)
(* keys.  Slots stand for their start; BookingHolds has their statuses.    *)
(* A client may name the version its change is made under (expected_version *)
(* of sessions.py), also one the handler has not read; the ghost unread    *)
(* records that such a change was committed.                               *)
(* An administrator's exception moves a session at any notice, so the      *)
(* notice window, which TutoringBooking has, stops nothing here.           *)
(***************************************************************************)
EXTENDS Integers, FiniteSets

CONSTANTS Procs,     \* requests and workers that may run at once
          Starts,    \* start instants of the tutor's slots
          Offsets,   \* reminder_offsets, in ticks
          MaxNow,    \* bound: the clock stops here
          MaxMoves   \* bound: reschedules of the session

ASSUME RemindersAssumption ==
  /\ Starts \subseteq Nat \ {0}
  /\ Offsets \subseteq Nat \ {0}
  /\ MaxNow \in Nat
  /\ MaxMoves \in Nat

VARIABLES now,      \* wall clock
          sess,     \* the row of tutoring_sessions
          jobs,     \* jobs[j]: session_reminder_jobs.status
          notices,  \* notices[j]: session_reminder rows of tutoring_outbox
          unread,   \* ghost: 1 once a change under an unread version is committed
          tx        \* tx[p]: the open transaction of p

vars == <<now, sess, jobs, notices, unread, tx>>
tables == <<now, sess, jobs, notices, unread>>

-----------------------------------------------------------------------------
Jobs == Starts \X Offsets
Instant(j) == j[1] - j[2]

JobStatus == {"none", "scheduled", "sent", "revoked"}
LiveStatus == {"confirmed", "rescheduled"}   \* LIVE_STATUSES, REMINDABLE_SESSION_STATUSES
SessRow == [status : LiveStatus \union {"cancelled", "completed"},
            start : Starts, version : 1 .. MaxMoves + 2]

\* The rows a statement locks: the session, the slot at t and the jobs.
SessionLock == <<0, 0>>
SlotLock(t) == <<t, 0>>
Lockable == {SessionLock} \union {SlotLock(t) : t \in Starts} \union Jobs

Steps == {"slots", "list", "revoke", "session", "schedule", "retire", "read", "claim", "commit"}
Open == [op : {"move", "cancel", "complete", "enqueue"},
         pc : Steps,
         at : Nat,                   \* a reschedule's now, used when it schedules
         to : Starts,                \* start of the slot to move to
         seen : SessRow,             \* the session as it was read
         named : 1 .. MaxMoves + 2,  \* the version the change is made under
         row : SessRow,              \* the session as it was written
         todo : SUBSET Jobs,         \* jobs a statement has found and not yet changed
         put : [Jobs -> JobStatus \union {"untouched"}],
         locks : SUBSET Lockable]
Idle == [pc |-> "idle", locks |-> {}]

\* A session is sold, and scheduled, at tick 0.
Init == /\ now = 0
        /\ sess \in [status : {"confirmed"}, start : Starts, version : {1}]
        /\ jobs = [j \in Jobs |-> IF j[1] = sess.start /\ Instant(j) > 0 THEN "scheduled" ELSE "none"]
        /\ notices = [j \in Jobs |-> 0]
        /\ unread = 0
        /\ tx = [p \in Procs |-> Idle]

-----------------------------------------------------------------------------
(* Transactions.                                                           *)

JobSeen(p, j) == IF tx[p].put[j] = "untouched" THEN jobs[j] ELSE tx[p].put[j]
Scheduled(p, J) == {j \in J : JobSeen(p, j) = "scheduled"}

\* enqueue_due takes the due jobs oldest first.
Oldest(J) == {j \in J : \A i \in J : Instant(j) <= Instant(i)}

\* The rows the next statement of p has to lock.
Needs(p) ==
  CASE tx[p].pc = "slots" -> {SlotLock(tx[p].to), SlotLock(tx[p].seen.start)}
    [] tx[p].pc = "revoke" -> tx[p].todo
    [] tx[p].pc = "session" -> {SessionLock}
    [] tx[p].pc = "schedule" -> {j \in Jobs : j[1] = tx[p].to}
    [] tx[p].pc = "retire" -> {SlotLock(tx[p].row.start)}
    [] tx[p].pc = "claim" -> Oldest(tx[p].todo)
    [] OTHER -> {}

WaitsFor(p, q) == p # q /\ Needs(p) \intersect tx[q].locks # {}
MayRun(p, pc) == tx[p].pc = pc /\ \A q \in Procs : ~ WaitsFor(p, q)

Begin(p, op, pc) ==
  [op |-> op, pc |-> pc, at |-> 0, to |-> sess.start, seen |-> sess, named |-> sess.version,
   row |-> sess, todo |-> {}, put |-> [j \in Jobs |-> "untouched"], locks |-> {}]
Goto(p, t) == tx' = [tx EXCEPT ![p] = t] /\ UNCHANGED tables
Rollback(p) == Goto(p, Idle)

Put(p, J, status) == [j \in Jobs |-> IF j \in J THEN status ELSE tx[p].put[j]]

\* ORM rows, jobs and outbox rows become visible together.
Commit(p) ==
  LET t == tx[p] IN
  /\ t.pc = "commit"
  /\ sess' = IF SessionLock \in t.locks THEN t.row ELSE sess
  /\ jobs' = [j \in Jobs |-> JobSeen(p, j)]
  /\ notices' = [j \in Jobs |-> notices[j] + IF t.put[j] = "sent" THEN 1 ELSE 0]
  /\ unread' = IF SessionLock \in t.locks /\ t.named # t.seen.version THEN 1 ELSE unread
  /\ tx' = [tx EXCEPT ![p] = Idle]
  /\ UNCHANGED now

\* The process dies: PostgreSQL drops its transaction.
Crash(p) == tx[p].pc # "idle" /\ Rollback(p)

\* PostgreSQL ends one of two transactions that wait for each other.
DeadlockVictim(p) == /\ \E q \in Procs : WaitsFor(p, q) /\ WaitsFor(q, p)
                     /\ Rollback(p)

-----------------------------------------------------------------------------
(* sessions.reschedule and sessions.cancel.                                *)

\* A client that names a version below the one read is always refused.
BeginMove(p, t) ==
  /\ tx[p].pc = "idle"
  /\ sess.status \in LiveStatus
  /\ t # sess.start
  /\ t > now
  /\ \E v \in sess.version .. MaxMoves :
       Goto(p, [Begin(p, "move", "slots") EXCEPT !.to = t, !.at = now, !.named = v])

BeginCancel(p) ==
  /\ tx[p].pc = "idle"
  /\ sess.status \in LiveStatus
  /\ \E v \in sess.version .. MaxMoves + 1 :
       Goto(p, [Begin(p, "cancel", "list") EXCEPT !.named = v])

\* The new slot is booked, then the old one is freed.
SwapSlots(p) ==
  /\ MayRun(p, "slots")
  /\ Goto(p, [tx[p] EXCEPT !.pc = "list", !.locks = @ \union Needs(p)])

\* revoke_for_session is one UPDATE of the jobs still scheduled.  It finds them
\* when it starts, so a job inserted while it waits for a lock is not among them.
ListJobs(p) ==
  /\ tx[p].pc = "list"
  /\ Goto(p, [tx[p] EXCEPT !.pc = "revoke", !.todo = Scheduled(p, Jobs)])

RevokeJobs(p) ==
  /\ MayRun(p, "revoke")
  /\ Goto(p, [tx[p] EXCEPT !.pc = "session", !.todo = {},
                           !.put = Put(p, Scheduled(p, tx[p].todo), "revoked"),
                           !.locks = @ \union Scheduled(p, tx[p].todo)])

\* transition: UPDATE ... WHERE version = the one named; no row is a refusal.
VersionMatches(p) == sess.version = tx[p].named

Refuse(p) == tx[p].pc = "session" /\ ~ VersionMatches(p) /\ Rollback(p)

Transition(p) ==
  /\ MayRun(p, "session")
  /\ VersionMatches(p)
  /\ Goto(p, [tx[p] EXCEPT
       !.pc = IF tx[p].op = "move" THEN "schedule" ELSE "retire",
       !.row = [status |-> IF tx[p].op = "move" THEN "rescheduled" ELSE "cancelled",
                start |-> IF tx[p].op = "move" THEN tx[p].to ELSE sess.start,
                version |-> tx[p].named + 1],
       !.locks = @ \union {SessionLock}])

\* schedule_for_session: a reminder already due is none, a revoked one is
\* reinstated, a sent one is left alone.
MayScheduleNew(p, j) == JobSeen(p, j) = "none"
MaySchedule(p, j) == JobSeen(p, j) \in {"none", "revoked"}

Schedule(p) ==
  LET J == {j \in Needs(p) : Instant(j) > tx[p].at /\ MaySchedule(p, j)} IN
  /\ MayRun(p, "schedule")
  /\ Goto(p, [tx[p] EXCEPT !.pc = "commit", !.put = Put(p, J, "scheduled"), !.locks = @ \union J])

\* cancel retires the slot of the row it has just refreshed.
RetireSlot(p) ==
  /\ MayRun(p, "retire")
  /\ Goto(p, [tx[p] EXCEPT !.pc = "commit", !.locks = @ \union Needs(p)])

-----------------------------------------------------------------------------
(* attendance.record: the session is read FOR UPDATE, after its end.       *)

Complete(p) ==
  /\ tx[p].pc = "idle"
  /\ \A q \in Procs : SessionLock \notin tx[q].locks
  /\ sess.status \in LiveStatus
  /\ now > sess.start                    \* a session lasts one tick
  /\ Goto(p, [Begin(p, "complete", "commit") EXCEPT
                !.row = [sess EXCEPT !.status = "completed", !.version = @ + 1],
                !.locks = {SessionLock}])

-----------------------------------------------------------------------------
(* reminders.enqueue_due.                                                  *)

DueJobs == {j \in Jobs : jobs[j] = "scheduled" /\ Instant(j) <= now}

ListDue(p) ==
  /\ tx[p].pc = "idle"
  /\ DueJobs # {}
  /\ Goto(p, [Begin(p, "enqueue", "read") EXCEPT !.todo = DueJobs])

\* The ORM keeps the session it read first for the rest of the pass.
ReadSession(p) ==
  /\ tx[p].pc = "read"
  /\ Goto(p, [tx[p] EXCEPT !.pc = "claim", !.seen = sess])

\* A claim is an UPDATE of a job that is still scheduled; its winner writes
\* the outbox row.  A job of a session that is over is revoked instead.
ClaimableSeen(p, j) == JobSeen(p, j) # "none"
Claimable(p, j) == JobSeen(p, j) = "scheduled"
Remindable(p) == tx[p].seen.status \in LiveStatus

\* A job whose claim was lost is left to its winner.
RetryLost(p, j, hit) == tx[p].todo \ hit
StillToDo(p, j, hit) == tx[p].todo \ {j}

Claim(p) ==
  /\ MayRun(p, "claim")
  /\ \E j \in Oldest(tx[p].todo) :
       LET hit == {i \in {j} : Claimable(p, i)} IN
       Goto(p, [tx[p] EXCEPT
                  !.pc = IF StillToDo(p, j, hit) = {} THEN "commit" ELSE "claim",
                  !.todo = StillToDo(p, j, hit),
                  !.put = Put(p, hit, IF Remindable(p) THEN "sent" ELSE "revoked"),
                  !.locks = @ \union hit])

-----------------------------------------------------------------------------
Tick == now < MaxNow /\ now' = now + 1 /\ UNCHANGED <<sess, jobs, notices, unread, tx>>

Statement(p) == \/ SwapSlots(p) \/ ListJobs(p) \/ RevokeJobs(p) \/ Refuse(p) \/ Transition(p)
                \/ Schedule(p) \/ RetireSlot(p) \/ ReadSession(p) \/ Claim(p) \/ Commit(p)
Request(p) == \/ \E t \in Starts : BeginMove(p, t)
              \/ BeginCancel(p) \/ Complete(p) \/ ListDue(p)

Next == \/ \E p \in Procs : Request(p) \/ Statement(p) \/ DeadlockVictim(p) \/ Crash(p)
        \/ Tick

Spec == Init /\ [][Next]_vars

-----------------------------------------------------------------------------
\* Rows and transactions have the shapes the tables and handlers allow.
RemindersTypeOK ==
  /\ now \in 0 .. MaxNow
  /\ sess \in SessRow
  /\ jobs \in [Jobs -> JobStatus]
  /\ notices \in [Jobs -> 0 .. 1]
  /\ unread \in 0 .. 1
  /\ \A p \in Procs : tx[p] = Idle \/ tx[p] \in Open

\* While every change was made under the version its handler had read, the jobs
\* are those of the session as it stands: nothing is scheduled for a start it gave
\* up or once it is cancelled (a completed session keeps what was scheduled), and
\* every reminder a live session has still ahead is scheduled, also when it came
\* back to an earlier start.
JobsFollowSession ==
  unread = 0 => \A j \in Jobs :
    /\ jobs[j] = "scheduled" => sess.status # "cancelled" /\ j[1] = sess.start
    /\ sess.status \in LiveStatus /\ j[1] = sess.start /\ Instant(j) > now => jobs[j] = "scheduled"

\* A worker never sends a reminder early, and under the same condition never for
\* a cancelled session or for a start the session has left, whatever it read before
\* it claimed the job.  One of a session completed meanwhile may go out.
NeverOnOldSchedule ==
  [][\A j \in Jobs : jobs[j] # "sent" /\ jobs'[j] = "sent" =>
       /\ Instant(j) <= now
       /\ unread = 0 => sess.status # "cancelled" /\ j[1] = sess.start]_vars

\* sessions.py, cancel: "Reminder jobs are revoked".  A cancellation whose client
\* names the version a concurrent move makes misses the jobs that move schedules.
CancelledHasNoJobs ==
  sess.status = "cancelled" => \A j \in Jobs : jobs[j] # "scheduled"

\* A reminder is written to the outbox once, exactly when its job is sent.
SentMeansNotified ==
  \A j \in Jobs : notices[j] = IF jobs[j] = "sent" THEN 1 ELSE 0

\* Waiters are served in turn and a deadlock is broken.
FairSpec == /\ Spec
            /\ \A p \in Procs : SF_vars(Statement(p)) /\ WF_vars(DeadlockVictim(p))

\* A move locks slots before jobs and a cancellation jobs before slots: they
\* may wait for each other, but every request ends.
EveryRequestEnds == \A p \in Procs : tx[p].pc # "idle" ~> tx[p].pc = "idle"
=============================================================================
