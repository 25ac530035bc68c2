----------------------- MODULE SessionRemindersProofs -----------------------
(* The reminders of a session that is moved, cancelled or completed while   *)
(* they are sent, statement by statement, for any number of transactions,   *)
(* starts, offsets and moves.                                               *)
EXTENDS SessionReminders, TLAPS

\* A live session can still be ended: its version has one step to go.
SessOK(s) == s \in SessRow /\ (s.status \in LiveStatus => s.version <= MaxMoves + 1)

\* A sent reminder was due.
SentWasDue == \A j \in Jobs : jobs[j] = "sent" => Instant(j) <= now

\* What an open transaction read is the row as it is or as it was.
Reads(t) == /\ SessOK(t.seen) /\ t.seen.version <= sess.version
            /\ t.seen.version = sess.version => t.seen = sess

\* What it has written it has locked, and no job was sent before it did.
Writes(t) == \A j \in Jobs : t.put[j] # "untouched" =>
               /\ j \in t.locks /\ jobs[j] # "sent"
               /\ t.put[j] = "sent" => jobs[j] = "scheduled" /\ Instant(j) <= now

\* Its update has found every scheduled job.
Listed(t) == \A j \in Jobs : jobs[j] = "scheduled" => j \in t.todo

\* No scheduled job is left as it is.
Covers(t) == \A j \in Jobs : jobs[j] = "scheduled" => t.put[j] # "untouched"

\* It has the session, which has the version it names: the one it read, or a
\* later one its client knew to name.
Holder(t) == SessionLock \in t.locks /\ t.named = sess.version

Early == {"slots", "list", "revoke"}
Late == {"schedule", "retire", "commit"}

\* A move or a cancellation, statement by statement.
Changes(t) ==
  /\ t.seen.status \in LiveStatus /\ t.pc \in Early \union Late \union {"session"}
  /\ t.pc \in Early => \A j \in Jobs : t.put[j] = "untouched"
  /\ t.pc \notin Early \union {"commit"} => \A j \in Jobs : t.put[j] \in {"untouched", "revoked"}
  /\ t.pc = "revoke" /\ t.seen.version = sess.version => Listed(t)
  /\ t.pc \notin Early /\ t.seen.version = sess.version => Covers(t)
  /\ t.pc \in Late => /\ Holder(t) /\ t.row.version = t.named + 1
                      /\ t.op = "move" => t.row.start = t.to
                      /\ t.row.status = IF t.op = "move" THEN "rescheduled" ELSE "cancelled"

Moves(t) ==
  /\ Changes(t) /\ t.named <= MaxMoves /\ t.at <= now /\ t.pc # "retire"
  /\ t.pc = "commit" => \A j \in Jobs :
       /\ t.put[j] # "sent" /\ (t.put[j] = "scheduled" => j[1] = t.to)
       /\ t.named = t.seen.version /\ j[1] = t.to /\ Instant(j) > now => t.put[j] = "scheduled"

Cancels(t) == Changes(t) /\ t.named <= MaxMoves + 1 /\ t.pc \notin {"slots", "schedule"}
              /\ \A j \in Jobs : t.put[j] \in {"untouched", "revoked"}

Completes(t) == /\ t.pc = "commit" /\ Holder(t) /\ t.seen.status \in LiveStatus
                /\ \A j \in Jobs : t.put[j] = "untouched"
                /\ t.row.status = "completed" /\ t.row.start = t.seen.start
                /\ t.row.version = t.named + 1 /\ t.named = t.seen.version

Enqueues(t) == /\ t.pc \in {"read", "claim", "commit"} /\ SessionLock \notin t.locks
               /\ \A j \in Jobs : t.put[j] \in {"untouched", "sent", "revoked"}
                                  /\ (t.put[j] # "untouched" => Instant(j) <= now)
               /\ \A j \in t.todo : Instant(j) <= now

TxOK(t) == /\ t \in Open /\ Reads(t) /\ Writes(t)
           /\ t.op = "move" => Moves(t)
           /\ t.op = "cancel" => Cancels(t)
           /\ t.op = "complete" => Completes(t)
           /\ t.op = "enqueue" => Enqueues(t)

\* No two transactions hold one lock.
Apart == \A p, q \in Procs : p # q => tx[p].locks \intersect tx[q].locks = {}

Tables == /\ now \in 0 .. MaxNow /\ SessOK(sess) /\ jobs \in [Jobs -> JobStatus]
          /\ notices \in [Jobs -> 0 .. 1] /\ unread \in 0 .. 1
          /\ JobsFollowSession /\ SentMeansNotified /\ SentWasDue

Transactions == /\ tx = [p \in Procs |-> tx[p]]
                /\ \A p \in Procs : tx[p] = Idle \/ TxOK(tx[p])
                /\ Apart

RemindersInv == Tables /\ Transactions

-----------------------------------------------------------------------------
(* A statement: one transaction changes, the tables do not.                 *)

LEMMA JobFacts ==
  /\ \A j \in Jobs : j[1] \in Starts /\ j[1] \in Nat /\ Instant(j) \in Int /\ j # SessionLock
  /\ MaxMoves \in Nat /\ MaxNow \in Nat
<1> USE RemindersAssumption
<1>1. \A j \in Jobs : j[1] \in Starts /\ j[2] \in Offsets /\ j = <<j[1], j[2]>>
  BY DEF Jobs
<1>2. \A j \in Jobs : j[1] \in Nat /\ j[2] \in Nat /\ j[1] # 0
  BY <1>1
<1>3. \A j \in Jobs : Instant(j) \in Int
  BY <1>2 DEF Instant
<1>4. \A j \in Jobs : j # SessionLock
  BY <1>1, <1>2 DEF SessionLock
<1> QED BY <1>1, <1>2, <1>3, <1>4

LEMMA Current ==
  ASSUME RemindersInv, NEW p \in Procs, tx[p].pc # "idle"
  PROVE  TxOK(tx[p]) /\ tx[p] \in Open
  BY DEF RemindersInv, Transactions, TxOK, Idle

LEMMA SameTables ==
  ASSUME NEW t, TxOK(t), UNCHANGED tables
  PROVE  TxOK(t)'
<1>1. UNCHANGED <<now, sess, jobs, notices, unread>>
  BY DEF tables
<1> QED BY <1>1 DEF TxOK, Reads, SessOK, Writes, Covers, Listed, Holder, Changes, Moves, Cancels,
                    Completes, Enqueues, Instant

LEMMA LocalStep ==
  ASSUME RemindersInv, NEW p \in Procs, NEW t, Goto(p, t), t = Idle \/ TxOK(t),
         \A q \in Procs \ {p} : t.locks \intersect tx[q].locks = {}
  PROVE  RemindersInv' /\ jobs' = jobs
<1>1. /\ tx' = [tx EXCEPT ![p] = t] /\ UNCHANGED tables
      /\ UNCHANGED <<now, sess, jobs, notices, unread>> /\ tx = [q \in Procs |-> tx[q]]
  BY DEF Goto, tables, RemindersInv, Transactions
<1>2. \A q \in Procs : tx'[q] = IF q = p THEN t ELSE tx[q]
  BY <1>1
<1>3. tx' = [q \in Procs |-> tx'[q]]
  BY <1>1
<1>4. ASSUME NEW q \in Procs
      PROVE  tx'[q] = Idle \/ TxOK(tx[q])'
  <2>1. PICK w : w = tx'[q]
    OBVIOUS
  <2>2. w = Idle \/ TxOK(w)
    BY <1>2, <2>1 DEF RemindersInv, Transactions
  <2>3. w = Idle \/ TxOK(w)'
    BY <2>2, <1>1, SameTables
  <2> QED BY <2>1, <2>3
<1>5. Apart'
  BY <1>2 DEF RemindersInv, Transactions, Apart
<1>6. Transactions'
  BY <1>3, <1>4, <1>5 DEF Transactions, Idle
<1>7. Tables'
  BY <1>1 DEF RemindersInv, Tables, SessOK, JobsFollowSession, SentMeansNotified, SentWasDue, Instant
<1> QED BY <1>1, <1>6, <1>7 DEF RemindersInv

LEMMA RollbackStep ==
  ASSUME RemindersInv, NEW p \in Procs, Rollback(p)
  PROVE  RemindersInv' /\ jobs' = jobs
<1>1. Idle.locks = {}
  BY DEF Idle
<1>2. \A q \in Procs \ {p} : Idle.locks \intersect tx[q].locks = {}
  BY <1>1
<1> QED BY <1>2, LocalStep DEF Rollback

\* What a new transaction starts from.
LEMMA BeginFacts ==
  ASSUME RemindersInv, NEW p \in Procs, NEW op \in {"move", "cancel", "complete", "enqueue"},
         NEW pc \in Steps, NEW t, t = Begin(p, op, pc)
  PROVE  /\ t \in Open /\ t.op = op /\ t.pc = pc /\ t.seen = sess /\ t.to = sess.start
         /\ t.locks = {} /\ t.todo = {} /\ \A j \in Jobs : t.put[j] = "untouched"
         /\ t.named = sess.version /\ Reads(t) /\ sess \in SessRow /\ SessOK(sess)
         /\ sess.version \in Nat /\ sess.start \in Starts
<1>1. SessOK(sess) /\ sess \in SessRow
  BY DEF RemindersInv, Tables, SessOK
<1>2. sess.start \in Starts /\ sess.version \in Nat /\ sess.version \in 1 .. MaxMoves + 2
  BY <1>1, JobFacts DEF SessRow
<1>3. t \in Open /\ t.seen = sess
  BY <1>1, <1>2 DEF Begin, Open
<1>4. Reads(t)
  BY <1>1, <1>2, <1>3 DEF Reads
<1> QED BY <1>1, <1>2, <1>3, <1>4 DEF Begin

\* A request begins: it has read the session, and neither locked nor written.
LEMMA BeginMoveStep ==
  ASSUME RemindersInv, NEW p \in Procs, NEW s \in Starts, BeginMove(p, s)
  PROVE  RemindersInv' /\ jobs' = jobs
<1>0. PICK v \in sess.version .. MaxMoves :
        Goto(p, [Begin(p, "move", "slots") EXCEPT !.to = s, !.at = now, !.named = v])
  BY DEF BeginMove
<1>1. sess.status \in LiveStatus
  BY DEF BeginMove
<1>2. PICK t : t = Begin(p, "move", "slots")
  OBVIOUS
<1>3. /\ t \in Open /\ t.op = "move" /\ t.pc = "slots" /\ t.seen = sess
      /\ t.locks = {} /\ t.todo = {} /\ \A j \in Jobs : t.put[j] = "untouched"
      /\ Reads(t) /\ sess.version \in 1 .. MaxMoves + 2
  BY <1>2, BeginFacts DEF Steps, SessRow
<1>31. v \in 1 .. MaxMoves + 2 /\ v <= MaxMoves
  BY <1>3, JobFacts
<1>4. PICK one : one = [t EXCEPT !.to = s]
  OBVIOUS
<1>5. one \in Open /\ one.op = "move" /\ one.pc = "slots" /\ one.seen = t.seen /\ one.locks = {}
      /\ one.put = t.put
  BY <1>3, <1>4 DEF Open
<1>6. now \in Nat
  BY JobFacts DEF RemindersInv, Tables
<1>7. PICK two : two = [one EXCEPT !.at = now]
  OBVIOUS
<1>71. two \in Open /\ two.op = "move" /\ two.pc = "slots" /\ two.seen = t.seen /\ two.locks = {}
       /\ two.put = t.put /\ two.at = now
  BY <1>5, <1>6, <1>7 DEF Open
<1>72. PICK u : u = [two EXCEPT !.named = v]
  OBVIOUS
<1>8. u \in Open /\ u.op = "move" /\ u.pc = "slots" /\ u.seen = t.seen /\ u.locks = {} /\ u.put = t.put
      /\ u.at = now /\ u.named = v
  BY <1>31, <1>71, <1>72 DEF Open
<1>9. Goto(p, u)
  BY <1>0, <1>2, <1>4, <1>7, <1>72
<1>10. Moves(u)
  BY <1>1, <1>3, <1>31, <1>6, <1>8 DEF Moves, Changes, Early, Late
<1>11. TxOK(u)
  BY <1>3, <1>8, <1>10 DEF TxOK, Reads, Writes
<1>12. \A q \in Procs \ {p} : u.locks \intersect tx[q].locks = {}
  BY <1>8
<1> QED BY <1>9, <1>11, <1>12, LocalStep

LEMMA BeginCancelStep ==
  ASSUME RemindersInv, NEW p \in Procs, BeginCancel(p)
  PROVE  RemindersInv' /\ jobs' = jobs
<1>0. PICK v \in sess.version .. MaxMoves + 1 :
        Goto(p, [Begin(p, "cancel", "list") EXCEPT !.named = v])
  BY DEF BeginCancel
<1>1. PICK t : t = Begin(p, "cancel", "list")
  OBVIOUS
<1>2. /\ t \in Open /\ t.op = "cancel" /\ t.pc = "list" /\ t.seen = sess
      /\ t.locks = {} /\ \A j \in Jobs : t.put[j] = "untouched"
      /\ Reads(t) /\ sess.version \in 1 .. MaxMoves + 2
  BY <1>1, BeginFacts DEF Steps, SessRow
<1>3. v \in 1 .. MaxMoves + 2 /\ v <= MaxMoves + 1
  BY <1>2, JobFacts
<1>4. PICK u : u = [t EXCEPT !.named = v]
  OBVIOUS
<1>5. u \in Open /\ u.op = "cancel" /\ u.pc = "list" /\ u.seen = t.seen /\ u.locks = {} /\ u.put = t.put
      /\ u.named = v
  BY <1>2, <1>3, <1>4 DEF Open
<1>6. Goto(p, u)
  BY <1>0, <1>1, <1>4
<1>7. sess.status \in LiveStatus
  BY DEF BeginCancel
<1>8. Cancels(u)
  BY <1>2, <1>3, <1>5, <1>7 DEF Cancels, Changes, Early, Late
<1>9. TxOK(u)
  BY <1>2, <1>5, <1>8 DEF TxOK, Reads, Writes
<1>10. \A q \in Procs \ {p} : u.locks \intersect tx[q].locks = {}
  BY <1>5
<1> QED BY <1>6, <1>9, <1>10, LocalStep

LEMMA ListDueStep ==
  ASSUME RemindersInv, NEW p \in Procs, ListDue(p)
  PROVE  RemindersInv' /\ jobs' = jobs
<1>1. PICK t : t = Begin(p, "enqueue", "read")
  OBVIOUS
<1>2. /\ t \in Open /\ t.op = "enqueue" /\ t.pc = "read" /\ t.seen = sess
      /\ t.locks = {} /\ \A j \in Jobs : t.put[j] = "untouched"
      /\ Reads(t)
  BY <1>1, BeginFacts DEF Steps
<1>3. PICK u : u = [t EXCEPT !.todo = DueJobs]
  OBVIOUS
<1>4. DueJobs \subseteq Jobs /\ \A j \in DueJobs : Instant(j) <= now
  BY DEF DueJobs
<1>5. u \in Open /\ u.op = "enqueue" /\ u.pc = "read" /\ u.seen = t.seen /\ u.locks = {}
      /\ u.put = t.put /\ u.todo = DueJobs
  BY <1>2, <1>3, <1>4 DEF Open
<1>6. Goto(p, u)
  BY <1>1, <1>3 DEF ListDue
<1>7. Enqueues(u)
  BY <1>2, <1>4, <1>5 DEF Enqueues
<1>8. TxOK(u)
  BY <1>2, <1>5, <1>7 DEF TxOK, Reads, Writes
<1>9. \A q \in Procs \ {p} : u.locks \intersect tx[q].locks = {}
  BY <1>5
<1> QED BY <1>6, <1>8, <1>9, LocalStep

\* An attendance record reads and changes the session under its lock.
LEMMA CompleteStep ==
  ASSUME RemindersInv, NEW p \in Procs, Complete(p)
  PROVE  RemindersInv' /\ jobs' = jobs
<1> DEFINE done == [sess EXCEPT !.status = "completed", !.version = @ + 1]
<1>1. /\ sess.status \in LiveStatus /\ \A q \in Procs : SessionLock \notin tx[q].locks
      /\ Goto(p, [Begin(p, "complete", "commit") EXCEPT !.row = done, !.locks = {SessionLock}])
  BY DEF Complete
<1>2. PICK t : t = Begin(p, "complete", "commit")
  OBVIOUS
<1>3. /\ t \in Open /\ t.op = "complete" /\ t.pc = "commit" /\ t.seen = sess
      /\ \A j \in Jobs : t.put[j] = "untouched"
      /\ Reads(t) /\ SessOK(sess) /\ sess \in SessRow /\ t.named = sess.version
  BY <1>2, BeginFacts DEF Steps
<1>4. sess.version + 1 \in 1 .. MaxMoves + 2
  BY <1>1, <1>3, JobFacts DEF SessOK, SessRow
<1>5. PICK a : a = [sess EXCEPT !.status = "completed"]
  OBVIOUS
<1>6. a \in SessRow /\ a.status = "completed" /\ a.start = sess.start /\ a.version = sess.version
  BY <1>3, <1>5 DEF SessRow
<1>7. PICK n : n = sess.version + 1
  OBVIOUS
<1>8. PICK b : b = [a EXCEPT !.version = n]
  OBVIOUS
<1>9. b \in SessRow /\ b.status = "completed" /\ b.start = sess.start /\ b.version = n
  BY <1>4, <1>6, <1>7, <1>8 DEF SessRow
<1>10. done = b
  BY <1>3, <1>5, <1>7, <1>8 DEF SessRow
<1> HIDE DEF done
<1>11. PICK one : one = [t EXCEPT !.row = b]
  OBVIOUS
<1>12. one \in Open /\ one.op = "complete" /\ one.pc = "commit" /\ one.seen = t.seen /\ one.put = t.put
       /\ one.row = b /\ one.named = t.named
  BY <1>3, <1>9, <1>11 DEF Open
<1>13. PICK u : u = [one EXCEPT !.locks = {SessionLock}]
  OBVIOUS
<1>14. u \in Open /\ u.op = "complete" /\ u.pc = "commit" /\ u.seen = t.seen /\ u.put = t.put
       /\ u.row = b /\ u.locks = {SessionLock} /\ u.named = t.named
  BY <1>12, <1>13 DEF Open, Lockable
<1>15. Goto(p, u)
  BY <1>1, <1>2, <1>10, <1>11, <1>13
<1>16. Completes(u)
  BY <1>1, <1>3, <1>7, <1>9, <1>14 DEF Completes, Holder
<1>17. TxOK(u)
  BY <1>3, <1>14, <1>16 DEF TxOK, Reads, Writes
<1>18. \A q \in Procs \ {p} : u.locks \intersect tx[q].locks = {}
  BY <1>1, <1>14
<1> QED BY <1>15, <1>17, <1>18, LocalStep

\* The rows a statement has to lock.
LEMMA NeedsFacts ==
  ASSUME NEW p \in Procs, tx[p] \in Open
  PROVE  /\ Needs(p) \subseteq Lockable
         /\ tx[p].pc = "revoke" => Needs(p) = tx[p].todo
         /\ tx[p].pc = "session" => Needs(p) = {SessionLock}
         /\ tx[p].pc = "schedule" => Needs(p) = {j \in Jobs : j[1] = tx[p].to}
         /\ tx[p].pc = "claim" => Needs(p) = Oldest(tx[p].todo)
<1>1. PICK t : t = tx[p]
  OBVIOUS
<1>2. t.pc \in Steps /\ t.to \in Starts /\ t.seen.start \in Starts /\ t.row.start \in Starts
      /\ t.todo \subseteq Jobs
  BY <1>1 DEF Open, SessRow
<1>3. Oldest(t.todo) \subseteq Jobs
  BY <1>2 DEF Oldest
<1>4. SlotLock(t.to) \in Lockable /\ SlotLock(t.seen.start) \in Lockable
      /\ SlotLock(t.row.start) \in Lockable /\ SessionLock \in Lockable
      /\ Jobs \subseteq Lockable
  BY <1>2 DEF Lockable
<1>5. /\ t.pc = "slots" => Needs(p) = {SlotLock(t.to), SlotLock(t.seen.start)}
      /\ t.pc = "revoke" => Needs(p) = t.todo
      /\ t.pc = "session" => Needs(p) = {SessionLock}
      /\ t.pc = "schedule" => Needs(p) = {j \in Jobs : j[1] = t.to}
      /\ t.pc = "retire" => Needs(p) = {SlotLock(t.row.start)}
      /\ t.pc = "claim" => Needs(p) = Oldest(t.todo)
      /\ t.pc \in {"list", "read", "commit"} => Needs(p) = {}
  BY <1>1 DEF Needs
<1>6. Needs(p) \subseteq Lockable
  BY <1>2, <1>3, <1>4, <1>5 DEF Steps
<1> QED BY <1>1, <1>5, <1>6

\* A statement that may run takes its locks from nobody.
LEMMA LockFacts ==
  ASSUME RemindersInv, NEW p \in Procs, NEW pc, MayRun(p, pc), NEW L, L \subseteq Needs(p)
  PROVE  /\ tx[p].pc = pc
         /\ \A q \in Procs \ {p} : (tx[p].locks \union L) \intersect tx[q].locks = {}
<1>1. tx[p].pc = pc /\ \A q \in Procs \ {p} : Needs(p) \intersect tx[q].locks = {}
  BY DEF MayRun, WaitsFor
<1>2. \A q \in Procs \ {p} : tx[p].locks \intersect tx[q].locks = {}
  BY DEF RemindersInv, Transactions, Apart
<1> QED BY <1>1, <1>2

LEMMA SwapSlotsStep ==
  ASSUME RemindersInv, NEW p \in Procs, SwapSlots(p)
  PROVE  RemindersInv' /\ jobs' = jobs
<1>1. PICK t : t = tx[p]
  OBVIOUS
<1>2. t.pc = "slots" /\ \A q \in Procs \ {p} : (t.locks \union Needs(p)) \intersect tx[q].locks = {}
  BY <1>1, LockFacts DEF SwapSlots
<1>3. TxOK(t) /\ t \in Open /\ Needs(p) \subseteq Lockable
  BY <1>1, <1>2, Current, NeedsFacts
<1>4. t.op = "move" /\ Moves(t) /\ Changes(t)
  BY <1>2, <1>3 DEF TxOK, Open, Cancels, Completes, Enqueues, Moves
<1>5. PICK one : one = [t EXCEPT !.pc = "list"]
  OBVIOUS
<1>6. one \in Open /\ one.op = "move" /\ one.pc = "list" /\ one.seen = t.seen /\ one.put = t.put
      /\ one.at = t.at /\ one.locks = t.locks /\ one.named = t.named
  BY <1>3, <1>4, <1>5 DEF Open, Steps
<1>7. PICK L : L = t.locks \union Needs(p)
  OBVIOUS
<1>8. L \subseteq Lockable
  BY <1>3, <1>7 DEF Open
<1>9. PICK u : u = [one EXCEPT !.locks = L]
  OBVIOUS
<1>10. u \in Open /\ u.op = "move" /\ u.pc = "list" /\ u.seen = t.seen /\ u.put = t.put
       /\ u.at = t.at /\ u.locks = L /\ u.named = t.named
  BY <1>6, <1>8, <1>9 DEF Open
<1>11. Goto(p, u)
  BY <1>1, <1>3, <1>5, <1>7, <1>9 DEF SwapSlots, Open
<1>12. Moves(u)
  BY <1>2, <1>4, <1>10 DEF Moves, Changes, Early, Late
<1>13. TxOK(u)
  BY <1>2, <1>3, <1>4, <1>10, <1>12 DEF TxOK, Reads, Writes, Changes, Early
<1>14. \A q \in Procs \ {p} : u.locks \intersect tx[q].locks = {}
  BY <1>2, <1>7, <1>10
<1> QED BY <1>11, <1>13, <1>14, LocalStep

\* The update finds every job that is scheduled as it starts.
LEMMA ListJobsStep ==
  ASSUME RemindersInv, NEW p \in Procs, ListJobs(p)
  PROVE  RemindersInv' /\ jobs' = jobs
<1>1. PICK t : t = tx[p]
  OBVIOUS
<1>2. PICK D : D = Scheduled(p, Jobs)
  OBVIOUS
<1>3. t.pc = "list" /\ Goto(p, [t EXCEPT !.pc = "revoke", !.todo = D])
  BY <1>1, <1>2 DEF ListJobs
<1>4. TxOK(t) /\ t \in Open
  BY <1>1, <1>3, Current
<1>5. t.op \in {"move", "cancel"} /\ Changes(t) /\ (t.op = "move" => Moves(t))
      /\ (t.op = "cancel" => Cancels(t))
  BY <1>3, <1>4 DEF TxOK, Open, Cancels, Completes, Enqueues, Moves
<1>6. \A j \in Jobs : t.put[j] = "untouched"
  BY <1>3, <1>5 DEF Changes, Early
<1>7. D \subseteq Jobs /\ \A j \in Jobs : jobs[j] = "scheduled" => j \in D
  BY <1>1, <1>2, <1>6 DEF Scheduled, JobSeen
<1>8. PICK one : one = [t EXCEPT !.pc = "revoke"]
  OBVIOUS
<1>9. one \in Open /\ one.op = t.op /\ one.pc = "revoke" /\ one.seen = t.seen /\ one.at = t.at
      /\ one.put = t.put /\ one.locks = t.locks /\ one.named = t.named
  BY <1>4, <1>8 DEF Open, Steps
<1>10. PICK u : u = [one EXCEPT !.todo = D]
  OBVIOUS
<1>11. u \in Open /\ u.op = t.op /\ u.pc = "revoke" /\ u.seen = t.seen /\ u.at = t.at
       /\ u.put = t.put /\ u.locks = t.locks /\ u.named = t.named /\ u.todo = D
  BY <1>7, <1>9, <1>10 DEF Open
<1>12. Goto(p, u)
  BY <1>3, <1>8, <1>10
<1>13. Listed(u)
  BY <1>7, <1>11 DEF Listed
<1>14. Changes(u)
  BY <1>5, <1>6, <1>11, <1>13 DEF Changes, Early, Late
<1>15. Moves(u) \/ ~ (u.op = "move")
  BY <1>5, <1>11, <1>14 DEF Moves
<1>16. Cancels(u) \/ ~ (u.op = "cancel")
  BY <1>5, <1>11, <1>14 DEF Cancels
<1>17. Reads(u) /\ Writes(u)
  BY <1>4, <1>11 DEF TxOK, Reads, Writes
<1>18. TxOK(u)
  BY <1>5, <1>11, <1>15, <1>16, <1>17 DEF TxOK
<1>19. \A q \in Procs \ {p} : u.locks \intersect tx[q].locks = {}
  BY <1>1, <1>11 DEF RemindersInv, Transactions, Apart
<1> QED BY <1>12, <1>18, <1>19, LocalStep

\* While the session is as it was read, the update leaves no job scheduled.
LEMMA RevokeJobsStep ==
  ASSUME RemindersInv, NEW p \in Procs, RevokeJobs(p)
  PROVE  RemindersInv' /\ jobs' = jobs
<1>1. PICK t : t = tx[p]
  OBVIOUS
<1>2. PICK D : D = Scheduled(p, t.todo)
  OBVIOUS
<1>3. MayRun(p, "revoke")
      /\ Goto(p, [tx[p] EXCEPT !.pc = "session", !.todo = {}, !.put = Put(p, D, "revoked"),
                               !.locks = @ \union D])
  BY <1>1, <1>2 DEF RevokeJobs
<1>4. t.pc = "revoke" /\ TxOK(t) /\ t \in Open /\ Needs(p) = t.todo
  BY <1>1, <1>3, LockFacts, Current, NeedsFacts
<1>5. D \subseteq Needs(p)
  BY <1>2, <1>4 DEF Scheduled
<1>6. \A q \in Procs \ {p} : (t.locks \union D) \intersect tx[q].locks = {}
  BY <1>1, <1>3, <1>5, LockFacts
<1>7. t.op \in {"move", "cancel"} /\ Changes(t) /\ (t.op = "move" => Moves(t))
      /\ (t.op = "cancel" => Cancels(t))
  BY <1>4 DEF TxOK, Open, Cancels, Completes, Enqueues, Moves
<1>8. \A j \in Jobs : t.put[j] = "untouched"
  BY <1>4, <1>7 DEF Changes, Early
<1>9. D \subseteq Jobs /\ \A j \in Jobs : j \in D <=> j \in t.todo /\ jobs[j] = "scheduled"
  <2>1. \A j \in Jobs : JobSeen(p, j) = jobs[j]
    BY <1>1, <1>8 DEF JobSeen
  <2>2. t.todo \subseteq Jobs
    BY <1>4 DEF Open
  <2> QED BY <1>2, <2>1, <2>2 DEF Scheduled
<1>10. PICK b : b = Put(p, D, "revoked")
  OBVIOUS
<1>11. /\ b \in [Jobs -> JobStatus \union {"untouched"}]
       /\ \A j \in Jobs : b[j] = IF j \in D THEN "revoked" ELSE "untouched"
  BY <1>1, <1>8, <1>10 DEF Put, JobStatus
<1>12. PICK L : L = t.locks \union D
  OBVIOUS
<1>13. L \subseteq Lockable /\ D \subseteq L
  BY <1>4, <1>9, <1>12 DEF Open, Lockable
<1>14. PICK one : one = [t EXCEPT !.pc = "session"]
  OBVIOUS
<1>15. one \in Open /\ one.op = t.op /\ one.pc = "session" /\ one.seen = t.seen /\ one.at = t.at
       /\ one.locks = t.locks /\ one.named = t.named
  BY <1>4, <1>14 DEF Open, Steps
<1>16. PICK two : two = [one EXCEPT !.todo = {}]
  OBVIOUS
<1>17. two \in Open /\ two.op = t.op /\ two.pc = "session" /\ two.seen = t.seen /\ two.at = t.at
       /\ two.locks = t.locks /\ two.named = t.named
  BY <1>15, <1>16 DEF Open
<1>18. PICK three : three = [two EXCEPT !.put = b]
  OBVIOUS
<1>19. three \in Open /\ three.op = t.op /\ three.pc = "session" /\ three.seen = t.seen
       /\ three.at = t.at /\ three.locks = t.locks /\ three.named = t.named /\ three.put = b
  BY <1>11, <1>17, <1>18 DEF Open
<1>20. PICK u : u = [three EXCEPT !.locks = L]
  OBVIOUS
<1>21. u \in Open /\ u.op = t.op /\ u.pc = "session" /\ u.seen = t.seen /\ u.at = t.at
       /\ u.locks = L /\ u.named = t.named /\ u.put = b
  BY <1>13, <1>19, <1>20 DEF Open
<1>22. Goto(p, u)
  BY <1>1, <1>3, <1>4, <1>10, <1>12, <1>14, <1>16, <1>18, <1>20 DEF Open
<1>23. u.seen.version = sess.version => Covers(u)
  BY <1>4, <1>7, <1>9, <1>11, <1>21 DEF Changes, Listed, Covers
<1>24. Changes(u)
  BY <1>7, <1>11, <1>21, <1>23 DEF Changes, Early, Late
<1>25. Moves(u) \/ ~ (u.op = "move")
  BY <1>7, <1>21, <1>24 DEF Moves
<1>26. Cancels(u) \/ ~ (u.op = "cancel")
  BY <1>7, <1>11, <1>21, <1>24 DEF Cancels
<1>27. Reads(u) /\ Writes(u)
  BY <1>4, <1>9, <1>11, <1>13, <1>21 DEF TxOK, Reads, Writes
<1>28. TxOK(u)
  BY <1>7, <1>21, <1>25, <1>26, <1>27 DEF TxOK
<1>29. \A q \in Procs \ {p} : u.locks \intersect tx[q].locks = {}
  BY <1>6, <1>12, <1>21
<1> QED BY <1>22, <1>28, <1>29, LocalStep

\* The row has the version the request names, and nobody else changes it before
\* the commit.
LEMMA TransitionStep ==
  ASSUME RemindersInv, NEW p \in Procs, Transition(p)
  PROVE  RemindersInv' /\ jobs' = jobs
<1>1. PICK t : t = tx[p]
  OBVIOUS
<1> DEFINE next == IF t.op = "move" THEN "schedule" ELSE "retire"
           new == [status |-> IF t.op = "move" THEN "rescheduled" ELSE "cancelled",
                   start |-> IF t.op = "move" THEN t.to ELSE sess.start,
                   version |-> t.named + 1]
           L == t.locks \union {SessionLock}
<1>2. /\ MayRun(p, "session") /\ sess.version = t.named
      /\ Goto(p, [tx[p] EXCEPT !.pc = next, !.row = new, !.locks = L])
  BY <1>1 DEF Transition, VersionMatches
<1>3. t.pc = "session"
  BY <1>1, <1>2, LockFacts
<1>4. TxOK(t) /\ t \in Open /\ Needs(p) = {SessionLock}
  BY <1>1, <1>3, Current, NeedsFacts
<1>5. \A q \in Procs \ {p} : L \intersect tx[q].locks = {}
  BY <1>1, <1>2, <1>4, LockFacts
<1>6. t.op \in {"move", "cancel"} /\ Changes(t) /\ (t.op = "move" => Moves(t))
      /\ (t.op = "cancel" => Cancels(t))
  BY <1>3, <1>4 DEF TxOK, Open, Cancels, Completes, Enqueues, Moves
<1>7. new \in SessRow
  <2>1. t.named \in 1 .. MaxMoves + 2 /\ t.to \in Starts /\ sess.start \in Starts
    BY <1>4 DEF Open, RemindersInv, Tables, SessOK, SessRow
  <2>2. t.named <= MaxMoves + 1
    BY <1>6, <2>1, JobFacts DEF Moves, Cancels
  <2>3. t.named + 1 \in 1 .. MaxMoves + 2
    BY <2>1, <2>2, JobFacts
  <2> QED BY <2>1, <2>3 DEF SessRow, LiveStatus
<1>8. L \subseteq Lockable
  BY <1>4 DEF Open, Lockable
<1>9. next \in Steps /\ (t.op = "move" => next = "schedule") /\ (t.op = "cancel" => next = "retire")
  BY DEF Steps
<1>10. /\ new.version = t.named + 1
       /\ t.op = "move" => new.start = t.to
       /\ new.status = IF t.op = "move" THEN "rescheduled" ELSE "cancelled"
  OBVIOUS
<1>11. SessionLock \in L /\ t.locks \subseteq L
  OBVIOUS
<1> HIDE DEF next, new, L
<1>12. PICK one : one = [t EXCEPT !.pc = next]
  OBVIOUS
<1>13. one \in Open /\ one.op = t.op /\ one.pc = next /\ one.seen = t.seen /\ one.at = t.at
       /\ one.to = t.to /\ one.put = t.put /\ one.named = t.named
  BY <1>4, <1>9, <1>12 DEF Open
<1>14. PICK two : two = [one EXCEPT !.row = new]
  OBVIOUS
<1>15. two \in Open /\ two.op = t.op /\ two.pc = next /\ two.seen = t.seen /\ two.at = t.at
       /\ two.to = t.to /\ two.put = t.put /\ two.named = t.named /\ two.row = new
  BY <1>7, <1>13, <1>14 DEF Open
<1>16. PICK u : u = [two EXCEPT !.locks = L]
  OBVIOUS
<1>17. u \in Open /\ u.op = t.op /\ u.pc = next /\ u.seen = t.seen /\ u.at = t.at
       /\ u.to = t.to /\ u.put = t.put /\ u.named = t.named /\ u.row = new /\ u.locks = L
  BY <1>8, <1>15, <1>16 DEF Open
<1>18. Goto(p, u)
  BY <1>1, <1>2, <1>12, <1>14, <1>16
<1>19. u.seen.version = sess.version => Covers(u)
  BY <1>3, <1>6, <1>17 DEF Changes, Covers, Early
<1>20. Holder(u)
  BY <1>2, <1>11, <1>17 DEF Holder
<1>21. Changes(u)
  BY <1>3, <1>6, <1>9, <1>10, <1>17, <1>19, <1>20 DEF Changes, Early, Late
<1>22. Moves(u) \/ ~ (u.op = "move")
  BY <1>6, <1>9, <1>17, <1>21 DEF Moves
<1>23. Cancels(u) \/ ~ (u.op = "cancel")
  BY <1>6, <1>9, <1>17, <1>21 DEF Cancels
<1>24. Reads(u) /\ Writes(u)
  BY <1>4, <1>11, <1>17 DEF TxOK, Reads, Writes
<1>25. TxOK(u)
  BY <1>6, <1>17, <1>22, <1>23, <1>24 DEF TxOK
<1>26. \A q \in Procs \ {p} : u.locks \intersect tx[q].locks = {}
  BY <1>5, <1>17
<1> QED BY <1>18, <1>25, <1>26, LocalStep

\* Whatever is still ahead of the new start is scheduled, as none of it was sent
\* and, under the version that was read, all of it had been revoked.
LEMMA ScheduleStep ==
  ASSUME RemindersInv, NEW p \in Procs, Schedule(p)
  PROVE  RemindersInv' /\ jobs' = jobs
<1>1. PICK t : t = tx[p]
  OBVIOUS
<1>2. PICK J : J = {j \in Needs(p) : Instant(j) > t.at /\ MaySchedule(p, j)}
  OBVIOUS
<1>3. MayRun(p, "schedule") /\ J \subseteq Needs(p)
      /\ Goto(p, [tx[p] EXCEPT !.pc = "commit", !.put = Put(p, J, "scheduled"), !.locks = @ \union J])
  BY <1>1, <1>2 DEF Schedule
<1>4. t.pc = "schedule" /\ \A q \in Procs \ {p} : (t.locks \union J) \intersect tx[q].locks = {}
  BY <1>1, <1>3, LockFacts
<1>5. TxOK(t) /\ t \in Open /\ Needs(p) = {j \in Jobs : j[1] = t.to} /\ Needs(p) \subseteq Lockable
  BY <1>1, <1>4, Current, NeedsFacts
<1>6. t.op = "move" /\ Moves(t) /\ Changes(t)
  BY <1>4, <1>5 DEF TxOK, Open, Cancels, Completes, Enqueues, Moves
<1>7. /\ \A j \in Jobs : t.put[j] \in {"untouched", "revoked"}
      /\ t.seen.version = sess.version => Covers(t)
      /\ Holder(t) /\ t.at <= now /\ t.at \in Nat
  BY <1>4, <1>5, <1>6 DEF Changes, Moves, Early, Late, Holder, Open
<1>8. \A j \in Jobs : j \in J <=> /\ j[1] = t.to /\ Instant(j) > t.at
                                  /\ t.put[j] = "revoked" \/ jobs[j] \in {"none", "revoked"}
  <2>1. \A j \in Jobs : JobSeen(p, j) = IF t.put[j] = "untouched" THEN jobs[j] ELSE "revoked"
    BY <1>1, <1>7 DEF JobSeen
  <2>2. \A j \in Jobs : t.put[j] = "revoked" \/ t.put[j] = "untouched"
    BY <1>7
  <2>3. \A j \in Jobs : MaySchedule(p, j) <=> t.put[j] = "revoked" \/ jobs[j] \in {"none", "revoked"}
    <3> SUFFICES ASSUME NEW j \in Jobs
                 PROVE  MaySchedule(p, j) <=> t.put[j] = "revoked" \/ jobs[j] \in {"none", "revoked"}
      OBVIOUS
    <3>1. t.put[j] # "untouched" => t.put[j] = "revoked"
      BY <2>2
    <3>2. t.put[j] = "revoked" => JobSeen(p, j) = "revoked"
      BY <2>1
    <3> QED BY <2>1, <3>1, <3>2 DEF MaySchedule
  <2>4. \A j \in Jobs : j \in Needs(p) <=> j[1] = t.to
    BY <1>5
  <2>5. \A j \in Jobs : j \in J <=> j \in Needs(p) /\ Instant(j) > t.at /\ MaySchedule(p, j)
    BY <1>2
  <2> QED BY <2>3, <2>4, <2>5
<1>9. PICK b : b = Put(p, J, "scheduled")
  OBVIOUS
<1>10. /\ b \in [Jobs -> JobStatus \union {"untouched"}]
       /\ \A j \in Jobs : b[j] = IF j \in J THEN "scheduled" ELSE t.put[j]
  BY <1>1, <1>5, <1>9 DEF Put, JobStatus, Open
<1>11. PICK L : L = t.locks \union J
  OBVIOUS
<1>12. L \subseteq Lockable /\ J \subseteq L /\ t.locks \subseteq L
  BY <1>3, <1>5, <1>11 DEF Open
<1>13. PICK one : one = [t EXCEPT !.pc = "commit"]
  OBVIOUS
<1>14. one \in Open /\ one.op = t.op /\ one.pc = "commit" /\ one.seen = t.seen /\ one.at = t.at
       /\ one.to = t.to /\ one.row = t.row /\ one.locks = t.locks /\ one.named = t.named
  BY <1>5, <1>13 DEF Open, Steps
<1>15. PICK two : two = [one EXCEPT !.put = b]
  OBVIOUS
<1>16. two \in Open /\ two.op = t.op /\ two.pc = "commit" /\ two.seen = t.seen /\ two.at = t.at
       /\ two.to = t.to /\ two.row = t.row /\ two.locks = t.locks /\ two.put = b /\ two.named = t.named
  BY <1>10, <1>14, <1>15 DEF Open
<1>17. PICK u : u = [two EXCEPT !.locks = L]
  OBVIOUS
<1>18. u \in Open /\ u.op = t.op /\ u.pc = "commit" /\ u.seen = t.seen /\ u.at = t.at
       /\ u.to = t.to /\ u.row = t.row /\ u.locks = L /\ u.put = b /\ u.named = t.named
  BY <1>12, <1>16, <1>17 DEF Open
<1>19. Goto(p, u)
  BY <1>1, <1>3, <1>5, <1>9, <1>11, <1>13, <1>15, <1>17 DEF Open
<1>20. Holder(u) /\ (u.seen.version = sess.version => Covers(u))
  BY <1>7, <1>10, <1>12, <1>18 DEF Covers, Holder
<1>21. Changes(u)
  BY <1>4, <1>6, <1>18, <1>20 DEF Changes, Early, Late
<1>22. Moves(u)
  <2>1. ASSUME NEW j \in Jobs
        PROVE  /\ u.put[j] # "sent" /\ (u.put[j] = "scheduled" => j[1] = u.to)
               /\ u.named = u.seen.version /\ j[1] = u.to /\ Instant(j) > now => u.put[j] = "scheduled"
    <3>1. u.put[j] = IF j \in J THEN "scheduled" ELSE t.put[j]
      BY <1>10, <1>18
    <3>2. t.put[j] \in {"untouched", "revoked"}
      BY <1>7
    <3>3. jobs[j] = "sent" => Instant(j) <= now
      BY DEF RemindersInv, Tables, SentWasDue
    <3>4. t.named = t.seen.version /\ jobs[j] = "scheduled" => t.put[j] # "untouched"
      BY <1>7 DEF Covers, Holder
    <3>5. jobs[j] \in JobStatus
      BY DEF RemindersInv, Tables
    <3>6. now \in Nat /\ Instant(j) \in Int
      BY JobFacts DEF RemindersInv, Tables
    <3>7. Instant(j) > now => Instant(j) > t.at
      BY <1>7, <3>6
    <3>8. t.named = t.seen.version /\ j[1] = t.to /\ Instant(j) > now => j \in J
      BY <1>8, <3>2, <3>3, <3>4, <3>5, <3>6, <3>7 DEF JobStatus
    <3>9. j \in J => j[1] = t.to
      BY <1>8
    <3> QED BY <1>18, <3>1, <3>2, <3>8, <3>9
  <2> QED BY <1>6, <1>18, <1>21, <2>1 DEF Moves
<1>23. Reads(u) /\ Writes(u)
  <2>1. Reads(u)
    BY <1>5, <1>18 DEF TxOK, Reads
  <2>2. ASSUME NEW j \in Jobs, u.put[j] # "untouched"
        PROVE  /\ j \in u.locks /\ jobs[j] # "sent" /\ u.put[j] # "sent"
    <3>1. CASE j \in J
      <4>1. t.put[j] # "untouched" => jobs[j] # "sent"
        BY <1>5 DEF TxOK, Writes
      <4> QED BY <1>8, <1>10, <1>12, <1>18, <3>1, <4>1
    <3>2. CASE j \notin J
      BY <1>5, <1>7, <1>10, <1>12, <1>18, <2>2, <3>2 DEF TxOK, Writes
    <3> QED BY <3>1, <3>2
  <2> QED BY <2>1, <2>2 DEF Writes
<1>24. TxOK(u)
  BY <1>6, <1>18, <1>22, <1>23 DEF TxOK
<1>25. \A q \in Procs \ {p} : u.locks \intersect tx[q].locks = {}
  BY <1>4, <1>11, <1>18
<1> QED BY <1>19, <1>24, <1>25, LocalStep

LEMMA RetireSlotStep ==
  ASSUME RemindersInv, NEW p \in Procs, RetireSlot(p)
  PROVE  RemindersInv' /\ jobs' = jobs
<1>1. PICK t : t = tx[p]
  OBVIOUS
<1>2. t.pc = "retire" /\ \A q \in Procs \ {p} : (t.locks \union Needs(p)) \intersect tx[q].locks = {}
  BY <1>1, LockFacts DEF RetireSlot
<1>3. TxOK(t) /\ t \in Open /\ Needs(p) \subseteq Lockable
  BY <1>1, <1>2, Current, NeedsFacts
<1>4. t.op = "cancel" /\ Cancels(t) /\ Changes(t)
  BY <1>2, <1>3 DEF TxOK, Open, Cancels, Completes, Enqueues, Moves
<1>5. PICK L : L = t.locks \union Needs(p)
  OBVIOUS
<1>6. L \subseteq Lockable /\ t.locks \subseteq L
  BY <1>3, <1>5 DEF Open
<1>7. PICK one : one = [t EXCEPT !.pc = "commit"]
  OBVIOUS
<1>8. one \in Open /\ one.op = t.op /\ one.pc = "commit" /\ one.seen = t.seen /\ one.put = t.put
      /\ one.to = t.to /\ one.row = t.row /\ one.locks = t.locks /\ one.named = t.named
  BY <1>3, <1>7 DEF Open, Steps
<1>9. PICK u : u = [one EXCEPT !.locks = L]
  OBVIOUS
<1>10. u \in Open /\ u.op = t.op /\ u.pc = "commit" /\ u.seen = t.seen /\ u.put = t.put
       /\ u.to = t.to /\ u.row = t.row /\ u.locks = L /\ u.named = t.named
  BY <1>6, <1>8, <1>9 DEF Open
<1>11. Goto(p, u)
  BY <1>1, <1>3, <1>5, <1>7, <1>9 DEF RetireSlot, Open
<1>12. Holder(u) /\ (u.seen.version = sess.version => Covers(u))
  BY <1>2, <1>4, <1>6, <1>10 DEF Changes, Covers, Holder, Early, Late
<1>13. Changes(u)
  BY <1>2, <1>4, <1>10, <1>12 DEF Changes, Early, Late
<1>14. Cancels(u)
  BY <1>4, <1>10, <1>13 DEF Cancels
<1>15. Reads(u) /\ Writes(u)
  BY <1>3, <1>6, <1>10 DEF TxOK, Reads, Writes
<1>16. TxOK(u)
  BY <1>4, <1>10, <1>14, <1>15 DEF TxOK
<1>17. \A q \in Procs \ {p} : u.locks \intersect tx[q].locks = {}
  BY <1>2, <1>5, <1>10
<1> QED BY <1>11, <1>16, <1>17, LocalStep

LEMMA ReadSessionStep ==
  ASSUME RemindersInv, NEW p \in Procs, ReadSession(p)
  PROVE  RemindersInv' /\ jobs' = jobs
<1>1. PICK t : t = tx[p]
  OBVIOUS
<1>2. t.pc = "read" /\ Goto(p, [t EXCEPT !.pc = "claim", !.seen = sess])
  BY <1>1 DEF ReadSession
<1>3. TxOK(t) /\ t \in Open /\ SessOK(sess) /\ sess \in SessRow
  BY <1>1, <1>2, Current DEF RemindersInv, Tables, SessOK
<1>4. t.op = "enqueue" /\ Enqueues(t)
  BY <1>2, <1>3 DEF TxOK, Open, Cancels, Completes, Moves, Changes, Early, Late
<1>5. PICK one : one = [t EXCEPT !.pc = "claim"]
  OBVIOUS
<1>6. one \in Open /\ one.op = t.op /\ one.pc = "claim" /\ one.put = t.put /\ one.todo = t.todo
      /\ one.locks = t.locks
  BY <1>3, <1>5 DEF Open, Steps
<1>7. PICK u : u = [one EXCEPT !.seen = sess]
  OBVIOUS
<1>8. u \in Open /\ u.op = t.op /\ u.pc = "claim" /\ u.put = t.put /\ u.todo = t.todo
      /\ u.locks = t.locks /\ u.seen = sess
  BY <1>3, <1>6, <1>7 DEF Open
<1>9. Goto(p, u)
  BY <1>2, <1>5, <1>7
<1>10. Enqueues(u)
  BY <1>4, <1>8 DEF Enqueues
<1>11. sess.version \in Nat
  BY <1>3, JobFacts DEF SessRow
<1>12. Reads(u) /\ Writes(u)
  BY <1>3, <1>8, <1>11 DEF TxOK, Reads, Writes
<1>13. TxOK(u)
  BY <1>4, <1>8, <1>10, <1>12 DEF TxOK
<1>14. \A q \in Procs \ {p} : u.locks \intersect tx[q].locks = {}
  BY <1>1, <1>8 DEF RemindersInv, Transactions, Apart
<1> QED BY <1>9, <1>13, <1>14, LocalStep

\* A claimed job is still scheduled in the table, and stays so until the commit.
LEMMA ClaimStep ==
  ASSUME RemindersInv, NEW p \in Procs, Claim(p)
  PROVE  RemindersInv' /\ jobs' = jobs
<1>1. PICK t : t = tx[p]
  OBVIOUS
<1>2. PICK j \in Oldest(t.todo) : \E hit : /\ hit = {i \in {j} : Claimable(p, i)}
        /\ Goto(p, [tx[p] EXCEPT
                      !.pc = IF StillToDo(p, j, hit) = {} THEN "commit" ELSE "claim",
                      !.todo = StillToDo(p, j, hit),
                      !.put = Put(p, hit, IF Remindable(p) THEN "sent" ELSE "revoked"),
                      !.locks = @ \union hit])
  BY <1>1 DEF Claim
<1>3. PICK hit : /\ hit = {i \in {j} : Claimable(p, i)}
        /\ Goto(p, [tx[p] EXCEPT
                      !.pc = IF StillToDo(p, j, hit) = {} THEN "commit" ELSE "claim",
                      !.todo = StillToDo(p, j, hit),
                      !.put = Put(p, hit, IF Remindable(p) THEN "sent" ELSE "revoked"),
                      !.locks = @ \union hit])
  BY <1>2
<1>4. MayRun(p, "claim") /\ t.pc = "claim"
  BY <1>1, LockFacts DEF Claim
<1>5. TxOK(t) /\ t \in Open /\ Needs(p) = Oldest(t.todo)
  BY <1>1, <1>4, Current, NeedsFacts
<1>6. hit \subseteq Needs(p) /\ j \in t.todo /\ j \in Jobs /\ t.todo \subseteq Jobs
  BY <1>2, <1>3, <1>5 DEF Oldest, Open
<1>7. \A q \in Procs \ {p} : (t.locks \union hit) \intersect tx[q].locks = {}
  BY <1>1, <1>4, <1>6, LockFacts
<1>8. t.op = "enqueue" /\ Enqueues(t)
  BY <1>4, <1>5 DEF TxOK, Open, Cancels, Completes, Moves, Changes, Early, Late
<1>9. \A i \in hit : i = j /\ i \in Jobs /\ Instant(i) <= now /\ jobs[i] = "scheduled"
  <2>1. \A i \in hit : i = j /\ JobSeen(p, i) = "scheduled"
    BY <1>3 DEF Claimable
  <2>2. t.put[j] # "scheduled" /\ Instant(j) <= now
    BY <1>6, <1>8 DEF Enqueues
  <2>3. JobSeen(p, j) = "scheduled" => jobs[j] = "scheduled"
    BY <1>1, <2>2 DEF JobSeen
  <2> QED BY <1>6, <2>1, <2>2, <2>3
<1>10. PICK x \in {"sent", "revoked"} : x = IF Remindable(p) THEN "sent" ELSE "revoked"
  OBVIOUS
<1>11. PICK b : b = Put(p, hit, x)
  OBVIOUS
<1>12. /\ b \in [Jobs -> JobStatus \union {"untouched"}]
       /\ \A i \in Jobs : b[i] = IF i \in hit THEN x ELSE t.put[i]
  BY <1>1, <1>5, <1>11 DEF Put, JobStatus, Open
<1>13. PICK L : L = t.locks \union hit
  OBVIOUS
<1>14. L \subseteq Lockable /\ hit \subseteq L /\ t.locks \subseteq L
  BY <1>5, <1>9, <1>13 DEF Open, Lockable
<1>15. PICK D : D = StillToDo(p, j, hit)
  OBVIOUS
<1>16. D \subseteq t.todo
  BY <1>1, <1>15 DEF StillToDo
<1>17. PICK pc \in {"commit", "claim"} : pc = IF D = {} THEN "commit" ELSE "claim"
  OBVIOUS
<1>18. PICK one : one = [t EXCEPT !.pc = pc]
  OBVIOUS
<1>19. one \in Open /\ one.op = t.op /\ one.pc = pc /\ one.seen = t.seen /\ one.locks = t.locks
  BY <1>5, <1>18 DEF Open, Steps
<1>20. PICK two : two = [one EXCEPT !.todo = D]
  OBVIOUS
<1>21. two \in Open /\ two.op = t.op /\ two.pc = pc /\ two.seen = t.seen /\ two.locks = t.locks
       /\ two.todo = D
  BY <1>6, <1>16, <1>19, <1>20 DEF Open
<1>22. PICK three : three = [two EXCEPT !.put = b]
  OBVIOUS
<1>23. three \in Open /\ three.op = t.op /\ three.pc = pc /\ three.seen = t.seen
       /\ three.locks = t.locks /\ three.todo = D /\ three.put = b
  BY <1>12, <1>21, <1>22 DEF Open
<1>24. PICK u : u = [three EXCEPT !.locks = L]
  OBVIOUS
<1>25. u \in Open /\ u.op = t.op /\ u.pc = pc /\ u.seen = t.seen
       /\ u.locks = L /\ u.todo = D /\ u.put = b
  BY <1>14, <1>23, <1>24 DEF Open
<1>26. Goto(p, u)
  BY <1>1, <1>3, <1>5, <1>10, <1>11, <1>13, <1>15, <1>17, <1>18, <1>20, <1>22, <1>24 DEF Open
<1>27. SessionLock \notin L
  BY <1>8, <1>9, <1>13, JobFacts DEF Enqueues
<1>28. Enqueues(u)
  BY <1>8, <1>9, <1>12, <1>16, <1>25, <1>27 DEF Enqueues
<1>29. Reads(u)
  BY <1>5, <1>25 DEF TxOK, Reads
<1>30. Writes(u)
  BY <1>5, <1>9, <1>12, <1>14, <1>25 DEF TxOK, Writes
<1>31. TxOK(u)
  BY <1>8, <1>25, <1>28, <1>29, <1>30 DEF TxOK
<1>32. \A q \in Procs \ {p} : u.locks \intersect tx[q].locks = {}
  BY <1>7, <1>13, <1>25
<1> QED BY <1>26, <1>31, <1>32, LocalStep

-----------------------------------------------------------------------------
(* A commit.                                                                *)

\* The tables after a commit, from the transaction that makes it.
LEMMA CommitFacts ==
  ASSUME RemindersInv, NEW p \in Procs, Commit(p), NEW t, t = tx[p]
  PROVE  /\ TxOK(t) /\ t \in Open /\ t.pc = "commit" /\ now' = now
         /\ sess' = IF SessionLock \in t.locks THEN t.row ELSE sess
         /\ jobs' = [j \in Jobs |-> IF t.put[j] = "untouched" THEN jobs[j] ELSE t.put[j]]
         /\ notices' = [j \in Jobs |-> notices[j] + IF t.put[j] = "sent" THEN 1 ELSE 0]
         /\ unread' = IF SessionLock \in t.locks /\ t.named # t.seen.version THEN 1 ELSE unread
         /\ tx' = [tx EXCEPT ![p] = Idle]
<1>1. t.pc = "commit"
  BY DEF Commit
<1>2. TxOK(t) /\ t \in Open
  BY <1>1, Current
<1> QED BY <1>1, <1>2 DEF Commit, JobSeen

\* Either the session has its next version, written under its lock, or it is
\* as it was and no job is newly scheduled.
LEMMA CommitEffect ==
  ASSUME RemindersInv, NEW p \in Procs, Commit(p), NEW t, t = tx[p]
  PROVE  /\ SessOK(sess') /\ sess'.version \in Nat /\ sess.version \in Nat
         /\ \/ /\ SessionLock \in t.locks /\ sess'.version = sess.version + 1
               /\ t.op # "enqueue" /\ sess' = t.row
               /\ unread' = 0 => unread = 0 /\ t.named = t.seen.version /\ t.seen = sess
            \/ /\ sess' = sess /\ t.op = "enqueue" /\ unread' = unread
               /\ \A j \in Jobs : jobs'[j] = "scheduled" => jobs[j] = "scheduled"
<1>1. /\ TxOK(t) /\ t \in Open /\ t.pc = "commit"
      /\ sess' = IF SessionLock \in t.locks THEN t.row ELSE sess
      /\ unread' = IF SessionLock \in t.locks /\ t.named # t.seen.version THEN 1 ELSE unread
      /\ jobs' = [j \in Jobs |-> IF t.put[j] = "untouched" THEN jobs[j] ELSE t.put[j]]
  BY CommitFacts
<1>2. SessOK(sess) /\ sess \in SessRow /\ sess.version \in Nat
  BY JobFacts DEF RemindersInv, Tables, SessOK, SessRow
<1>3. CASE t.op = "enqueue"
  <2>1. Enqueues(t)
    BY <1>1, <1>3 DEF TxOK
  <2>2. sess' = sess /\ unread' = unread
    BY <1>1, <2>1 DEF Enqueues
  <2>3. ASSUME NEW j \in Jobs, jobs'[j] = "scheduled"
        PROVE  jobs[j] = "scheduled"
    <3>1. t.put[j] # "scheduled"
      BY <2>1 DEF Enqueues
    <3>2. jobs'[j] = IF t.put[j] = "untouched" THEN jobs[j] ELSE t.put[j]
      BY <1>1
    <3> QED BY <2>3, <3>1, <3>2
  <2> QED BY <1>2, <1>3, <2>2, <2>3
<1>4. CASE t.op # "enqueue"
  <2>1. t.op \in {"move", "cancel", "complete"} /\ t.row \in SessRow
    BY <1>1, <1>4 DEF Open
  <2>2. /\ Holder(t) /\ t.row.version = t.named + 1
        /\ t.row.status \in {"rescheduled", "cancelled", "completed"}
        /\ t.row.status = "rescheduled" => t.op = "move" /\ t.named <= MaxMoves
    BY <1>1, <2>1 DEF TxOK, Moves, Cancels, Completes, Changes, Late
  <2>3. SessionLock \in t.locks /\ t.named = sess.version
        /\ (t.named = t.seen.version => t.seen = sess)
    BY <1>1, <2>2 DEF Holder, TxOK, Reads
  <2>4. SessOK(t.row)
    BY <1>2, <2>1, <2>2, <2>3, JobFacts DEF SessOK, LiveStatus
  <2> QED BY <1>1, <1>2, <1>4, <2>2, <2>3, <2>4
<1> QED BY <1>3, <1>4

\* Nobody is disturbed: the jobs others wrote are locked, and a session they
\* read is either locked or older than the row.
LEMMA OthersStand ==
  ASSUME RemindersInv, NEW p \in Procs, Commit(p), NEW q \in Procs \ {p}, NEW w, w = tx[q], TxOK(w)
  PROVE  TxOK(w)'
<1>1. PICK t : t = tx[p]
  OBVIOUS
<1>2. /\ TxOK(t) /\ now' = now
      /\ jobs' = [j \in Jobs |-> IF t.put[j] = "untouched" THEN jobs[j] ELSE t.put[j]]
  BY <1>1, CommitFacts
<1>3. /\ SessOK(sess') /\ sess'.version \in Nat /\ sess.version \in Nat
      /\ \/ SessionLock \in t.locks /\ sess'.version = sess.version + 1
         \/ /\ sess' = sess
            /\ \A j \in Jobs : jobs'[j] = "scheduled" => jobs[j] = "scheduled"
  BY <1>1, CommitEffect
<1>4. t.locks \intersect w.locks = {}
  BY <1>1 DEF RemindersInv, Transactions, Apart
<1>5. \A j \in Jobs : j \in w.locks => jobs'[j] = jobs[j]
  BY <1>2, <1>4 DEF TxOK, Writes
<1>6. w.seen.version \in Nat /\ w.seen.version <= sess.version
  BY <1>3, JobFacts DEF TxOK, Reads, SessOK, SessRow
<1>7. w.seen.version = sess'.version => sess' = sess
  BY <1>3, <1>6
<1>8. Reads(w)'
  BY <1>3, <1>6, <1>7 DEF TxOK, Reads, SessOK
<1>9. Writes(w)'
  BY <1>2, <1>5 DEF TxOK, Writes, Instant
<1>10. w.seen.version = sess'.version => (Covers(w) => Covers(w)') /\ (Listed(w) => Listed(w)')
  BY <1>3, <1>6 DEF Covers, Listed
<1>11. Holder(w) => Holder(w)'
  BY <1>3, <1>4 DEF Holder
<1>12. Changes(w) => Changes(w)'
  <2> SUFFICES ASSUME Changes(w) PROVE Changes(w)'
    OBVIOUS
  <2>1. w.pc \in Late => Holder(w)'
    BY <1>11 DEF Changes
  <2>2. w.pc \notin Early /\ w.seen.version = sess'.version => Covers(w)'
    BY <1>7, <1>10 DEF Changes
  <2>3. w.pc = "revoke" /\ w.seen.version = sess'.version => Listed(w)'
    BY <1>7, <1>10 DEF Changes
  <2> QED BY <2>1, <2>2, <2>3 DEF Changes
<1>13. Moves(w) => Moves(w)'
  BY <1>2, <1>12 DEF Moves, Instant
<1>14. Cancels(w) => Cancels(w)'
  BY <1>12 DEF Cancels
<1>15. Completes(w) => Completes(w)'
  BY <1>11 DEF Completes
<1>16. Enqueues(w) => Enqueues(w)'
  BY <1>2 DEF Enqueues, Instant
<1> QED BY <1>8, <1>9, <1>13, <1>14, <1>15, <1>16 DEF TxOK

\* What goes out at a commit was due and, while every change was made under the
\* version that was read, is for the start that stands.
LEMMA CommitSends ==
  ASSUME RemindersInv, NEW p \in Procs, Commit(p), NEW j \in Jobs, jobs[j] # "sent", jobs'[j] = "sent"
  PROVE  /\ Instant(j) <= now
         /\ unread = 0 => sess.status # "cancelled" /\ j[1] = sess.start
<1>1. PICK t : t = tx[p]
  OBVIOUS
<1>2. TxOK(t) /\ jobs' = [i \in Jobs |-> IF t.put[i] = "untouched" THEN jobs[i] ELSE t.put[i]]
  BY <1>1, CommitFacts
<1>3. t.put[j] = "sent"
  BY <1>2
<1>4. jobs[j] = "scheduled" /\ Instant(j) <= now
  BY <1>2, <1>3 DEF TxOK, Writes
<1> QED BY <1>4 DEF RemindersInv, Tables, JobsFollowSession

LEMMA CommitStep ==
  ASSUME RemindersInv, NEW p \in Procs, Commit(p)
  PROVE  RemindersInv'
<1>1. PICK t : t = tx[p]
  OBVIOUS
<1>2. /\ TxOK(t) /\ t \in Open /\ t.pc = "commit" /\ now' = now
      /\ jobs' = [j \in Jobs |-> IF t.put[j] = "untouched" THEN jobs[j] ELSE t.put[j]]
      /\ notices' = [j \in Jobs |-> notices[j] + IF t.put[j] = "sent" THEN 1 ELSE 0]
      /\ tx' = [tx EXCEPT ![p] = Idle] /\ tx = [q \in Procs |-> tx[q]]
  BY <1>1, CommitFacts DEF RemindersInv, Transactions
<1>3. /\ SessOK(sess')
      /\ \/ /\ t.op # "enqueue" /\ sess' = t.row
            /\ unread' = 0 => unread = 0 /\ t.named = t.seen.version /\ t.seen = sess
         \/ /\ sess' = sess /\ t.op = "enqueue" /\ unread' = unread
            /\ \A j \in Jobs : jobs'[j] = "scheduled" => jobs[j] = "scheduled"
  BY <1>1, CommitEffect
<1>4. Transactions'
  <2>1. \A q \in Procs : tx'[q] = IF q = p THEN Idle ELSE tx[q]
    BY <1>2
  <2>2. tx' = [q \in Procs |-> tx'[q]]
    BY <1>2
  <2>3. ASSUME NEW q \in Procs
        PROVE  tx'[q] = Idle \/ TxOK(tx[q])'
    <3>1. PICK w : w = tx[q]
      OBVIOUS
    <3>2. w = Idle \/ TxOK(w)
      BY <3>1 DEF RemindersInv, Transactions
    <3>3. q # p => w = Idle \/ TxOK(w)'
      BY <3>1, <3>2, OthersStand
    <3>4. q # p => tx'[q] = w
      BY <2>1, <3>1
    <3> QED BY <2>1, <3>3, <3>4
  <2>4. Idle.locks = {}
    BY DEF Idle
  <2>5. Apart'
    BY <2>1, <2>4 DEF RemindersInv, Transactions, Apart
  <2> QED BY <2>2, <2>3, <2>5 DEF Transactions, Idle
<1>5. /\ jobs \in [Jobs -> JobStatus] /\ notices \in [Jobs -> 0 .. 1] /\ now \in 0 .. MaxNow
      /\ JobsFollowSession /\ SentMeansNotified /\ SentWasDue /\ unread \in 0 .. 1
  BY DEF RemindersInv, Tables
<1>6. /\ jobs' \in [Jobs -> JobStatus]
      /\ \A j \in Jobs : jobs'[j] = IF t.put[j] = "untouched" THEN jobs[j] ELSE t.put[j]
  BY <1>2, <1>5 DEF Open, JobStatus
<1>7. SentMeansNotified' /\ notices' \in [Jobs -> 0 .. 1]
  <2>1. ASSUME NEW j \in Jobs
        PROVE  notices'[j] = IF jobs'[j] = "sent" THEN 1 ELSE 0
    <3>1. notices[j] = IF jobs[j] = "sent" THEN 1 ELSE 0
      BY <1>5 DEF SentMeansNotified
    <3>2. t.put[j] # "untouched" => jobs[j] # "sent"
      BY <1>2 DEF TxOK, Writes
    <3>3. notices'[j] = notices[j] + IF t.put[j] = "sent" THEN 1 ELSE 0
      BY <1>2
    <3> QED BY <1>6, <3>1, <3>2, <3>3
  <2>2. notices' = [j \in Jobs |-> notices'[j]]
    BY <1>2
  <2> QED BY <2>1, <2>2 DEF SentMeansNotified
<1>8. SentWasDue'
  BY <1>2, <1>5, <1>6 DEF SentWasDue, TxOK, Writes, Instant
<1>9. JobsFollowSession'
  <2> SUFFICES ASSUME unread' = 0, NEW j \in Jobs
               PROVE  /\ jobs'[j] = "scheduled" => sess'.status # "cancelled" /\ j[1] = sess'.start
                      /\ sess'.status \in LiveStatus /\ j[1] = sess'.start /\ Instant(j) > now =>
                           jobs'[j] = "scheduled"
    BY <1>2 DEF JobsFollowSession, Instant
  <2>0. unread = 0 /\ (t.op # "enqueue" => t.named = t.seen.version /\ t.seen = sess)
    BY <1>3
  <2>1. /\ jobs[j] = "scheduled" => sess.status # "cancelled" /\ j[1] = sess.start
        /\ sess.status \in LiveStatus /\ j[1] = sess.start /\ Instant(j) > now => jobs[j] = "scheduled"
    BY <1>5, <2>0 DEF JobsFollowSession
  <2>2. CASE t.op = "enqueue"
    <3>1. Instant(j) > now => t.put[j] = "untouched"
      BY <1>2, <1>5, <2>2, JobFacts DEF TxOK, Enqueues
    <3> QED BY <1>3, <1>6, <2>1, <2>2, <3>1
  <2>3. CASE t.op = "complete"
    <3>1. Completes(t)
      BY <1>2, <2>3 DEF TxOK
    <3>2. jobs'[j] = jobs[j] /\ sess'.status = "completed" /\ sess'.start = sess.start
      BY <1>3, <1>6, <2>0, <2>3, <3>1 DEF Completes
    <3> QED BY <2>1, <3>2 DEF LiveStatus
  <2>4. CASE t.op = "cancel"
    <3>1. Cancels(t) /\ Changes(t) /\ Holder(t)
      BY <1>2, <2>4 DEF TxOK, Cancels, Changes, Late
    <3>2. Covers(t) /\ t.row.status = "cancelled"
      BY <1>2, <2>0, <2>4, <3>1 DEF Changes, Holder, Early, Late
    <3>3. t.put[j] \in {"untouched", "revoked"} /\ (jobs[j] = "scheduled" => t.put[j] # "untouched")
      BY <3>1, <3>2 DEF Cancels, Covers
    <3> QED BY <1>3, <1>6, <2>4, <3>2, <3>3 DEF LiveStatus
  <2>5. CASE t.op = "move"
    <3>1. Moves(t) /\ Changes(t) /\ Holder(t)
      BY <1>2, <2>5 DEF TxOK, Moves, Changes, Late
    <3>2. Covers(t) /\ t.row.status = "rescheduled" /\ t.row.start = t.to
      BY <1>2, <2>0, <2>5, <3>1 DEF Changes, Holder, Early, Late
    <3>3. /\ jobs[j] = "scheduled" => t.put[j] # "untouched"
          /\ t.put[j] = "scheduled" => j[1] = t.to
          /\ j[1] = t.to /\ Instant(j) > now => t.put[j] = "scheduled"
      BY <1>2, <2>0, <2>5, <3>1, <3>2 DEF Moves, Covers
    <3> QED BY <1>3, <1>6, <2>5, <3>2, <3>3
  <2> QED BY <1>2, <2>2, <2>3, <2>4, <2>5 DEF Open
<1>10. unread' \in 0 .. 1
  BY <1>1, <1>5, CommitFacts
<1>11. Tables'
  BY <1>2, <1>3, <1>5, <1>6, <1>7, <1>8, <1>9, <1>10 DEF Tables, SessOK
<1> QED BY <1>4, <1>11 DEF RemindersInv

-----------------------------------------------------------------------------

LEMMA RemindersInitInv == Init => RemindersInv
<1> SUFFICES ASSUME Init
             PROVE  RemindersInv
  OBVIOUS
<1>1. /\ now = 0 /\ sess.status = "confirmed" /\ sess.version = 1 /\ sess.start \in Starts
      /\ sess \in SessRow
      /\ jobs = [j \in Jobs |-> IF j[1] = sess.start /\ Instant(j) > 0 THEN "scheduled" ELSE "none"]
      /\ notices = [j \in Jobs |-> 0] /\ unread = 0 /\ tx = [p \in Procs |-> Idle]
  BY JobFacts DEF Init, SessRow, LiveStatus
<1>2. SessOK(sess)
  BY <1>1, JobFacts DEF SessOK
<1>3. JobsFollowSession /\ SentMeansNotified /\ SentWasDue
  BY <1>1 DEF JobsFollowSession, SentMeansNotified, SentWasDue
<1>4. Tables
  BY <1>1, <1>2, <1>3, JobFacts DEF Tables, JobStatus
<1>5. Transactions
  BY <1>1 DEF Transactions, Apart, Idle
<1> QED BY <1>4, <1>5 DEF RemindersInv

LEMMA TickStep ==
  ASSUME RemindersInv, Tick
  PROVE  RemindersInv' /\ jobs' = jobs
<1>1. now < MaxNow /\ now' = now + 1 /\ UNCHANGED <<sess, jobs, notices, unread, tx>>
  BY DEF Tick
<1>2. now \in Nat /\ now' \in 0 .. MaxNow /\ now <= now' /\ now' \in Nat
  BY <1>1, JobFacts DEF RemindersInv, Tables
<1>3. \A n \in Int : n <= now => n <= now'
  BY <1>1, <1>2
<1>4. \A j \in Jobs : Instant(j) \in Int /\ (Instant(j) <= now => Instant(j) <= now')
                      /\ (Instant(j) > now' => Instant(j) > now)
  BY <1>1, <1>2, JobFacts
<1>5. ASSUME NEW w, TxOK(w)
      PROVE  TxOK(w)'
  <2>1. w \in Open /\ Reads(w)' /\ Writes(w)'
    <3>1. w \in Open /\ Reads(w) /\ Writes(w)
      BY <1>5 DEF TxOK
    <3>2. Reads(w)'
      BY <1>1, <3>1 DEF Reads, SessOK
    <3>3. Writes(w)'
      BY <1>1, <1>4, <3>1 DEF Writes, Instant
    <3> QED BY <3>1, <3>2, <3>3
  <2>2. Changes(w) => Changes(w)'
    BY <1>1 DEF Changes, Covers, Listed, Holder
  <2>3. Moves(w) => Moves(w)'
    <3>1. w.at \in Nat /\ (w.at <= now => w.at <= now')
      BY <1>3, <2>1 DEF Open
    <3> QED BY <1>4, <2>2, <3>1 DEF Moves, Instant
  <2>4. Cancels(w) => Cancels(w)'
    BY <2>2 DEF Cancels
  <2>5. Completes(w) => Completes(w)'
    BY <1>1 DEF Completes, Holder
  <2>6. Enqueues(w) => Enqueues(w)'
    <3>1. \A j \in w.todo : j \in Jobs
      BY <2>1 DEF Open
    <3> QED BY <1>4, <3>1 DEF Enqueues, Instant
  <2> QED BY <1>5, <2>1, <2>3, <2>4, <2>5, <2>6 DEF TxOK
<1>6. ASSUME NEW q \in Procs
      PROVE  tx'[q] = Idle \/ TxOK(tx[q])'
  <2>1. PICK w : w = tx'[q]
    OBVIOUS
  <2>2. w = Idle \/ TxOK(w)
    BY <1>1, <2>1 DEF RemindersInv, Transactions
  <2>3. w = Idle \/ TxOK(w)'
    BY <1>5, <2>2
  <2> QED BY <2>1, <2>3
<1>7. Apart' /\ tx' = [q \in Procs |-> tx'[q]]
  BY <1>1 DEF RemindersInv, Transactions, Apart
<1>8. Transactions'
  BY <1>6, <1>7 DEF Transactions, Idle
<1>9. JobsFollowSession' /\ SentMeansNotified' /\ SentWasDue'
  BY <1>1, <1>4 DEF RemindersInv, Tables, JobsFollowSession, SentMeansNotified, SentWasDue, Instant
<1>10. Tables'
  BY <1>1, <1>2, <1>9 DEF RemindersInv, Tables, SessOK
<1> QED BY <1>1, <1>8, <1>10 DEF RemindersInv

\* A reminder that goes out in a step is due and, under the condition, one of the
\* session as it stands.
OnSchedule == \A j \in Jobs : jobs[j] # "sent" /\ jobs'[j] = "sent" =>
                /\ Instant(j) <= now
                /\ unread = 0 => sess.status # "cancelled" /\ j[1] = sess.start

LEMMA RemindersStep ==
  ASSUME RemindersInv, [Next]_vars
  PROVE  RemindersInv' /\ OnSchedule
<1>1. ASSUME NEW p \in Procs, Request(p)
      PROVE  RemindersInv' /\ jobs' = jobs
  BY <1>1, BeginMoveStep, BeginCancelStep, CompleteStep, ListDueStep DEF Request
<1>2. ASSUME NEW p \in Procs, Statement(p), ~ Commit(p)
      PROVE  RemindersInv' /\ jobs' = jobs
  BY <1>2, SwapSlotsStep, ListJobsStep, RevokeJobsStep, RollbackStep, TransitionStep, ScheduleStep,
     RetireSlotStep, ReadSessionStep, ClaimStep DEF Statement, Refuse
<1>3. ASSUME NEW p \in Procs, Commit(p)
      PROVE  RemindersInv' /\ OnSchedule
  BY <1>3, CommitStep, CommitSends DEF OnSchedule
<1>4. ASSUME NEW p \in Procs, DeadlockVictim(p) \/ Crash(p)
      PROVE  RemindersInv' /\ jobs' = jobs
  BY <1>4, RollbackStep DEF DeadlockVictim, Crash
<1>5. CASE UNCHANGED vars
  <2>1. UNCHANGED <<now, sess, jobs, notices, unread, tx>>
    BY <1>5 DEF vars
  <2>2. ASSUME NEW q \in Procs
        PROVE  tx'[q] = Idle \/ TxOK(tx[q])'
    <3>1. PICK w : w = tx'[q]
      OBVIOUS
    <3>2. w = Idle \/ TxOK(w)
      BY <2>1, <3>1 DEF RemindersInv, Transactions
    <3>3. w = Idle \/ TxOK(w)'
      BY <2>1, <3>2, SameTables DEF tables
    <3> QED BY <3>1, <3>3
  <2>3. Transactions'
    BY <2>1, <2>2 DEF RemindersInv, Transactions, Apart, Idle
  <2>4. Tables'
    BY <2>1 DEF RemindersInv, Tables, SessOK, JobsFollowSession, SentMeansNotified, SentWasDue, Instant
  <2> QED BY <2>1, <2>3, <2>4 DEF RemindersInv, OnSchedule
<1>6. jobs' = jobs => OnSchedule
  BY DEF OnSchedule
<1> QED BY <1>1, <1>2, <1>3, <1>4, <1>5, <1>6, TickStep DEF Next

LEMMA RemindersInvHolds == Spec => []RemindersInv
<1>1. RemindersInv /\ [Next]_vars => RemindersInv'
  BY RemindersStep
<1> QED BY <1>1, RemindersInitInv, PTL DEF Spec

\* Rows and transactions have the shapes the tables and handlers allow.
THEOREM RemindersTyped == Spec => []RemindersTypeOK
<1>1. RemindersInv => RemindersTypeOK
  BY DEF RemindersInv, Tables, Transactions, SessOK, TxOK, RemindersTypeOK
<1> QED BY <1>1, RemindersInvHolds, PTL

\* While every change was made under the version its handler had read, the jobs
\* are those of the session as it stands: none scheduled for a start it gave up or
\* once it is cancelled (a completed one keeps its own), none missing that a live
\* session still has ahead.
THEOREM JobsAreCurrent == Spec => []JobsFollowSession
<1>1. RemindersInv => JobsFollowSession
  BY DEF RemindersInv, Tables
<1> QED BY <1>1, RemindersInvHolds, PTL

\* A reminder is in the outbox once, exactly when its job is sent.
THEOREM NoticesMatchJobs == Spec => []SentMeansNotified
<1>1. RemindersInv => SentMeansNotified
  BY DEF RemindersInv, Tables
<1> QED BY <1>1, RemindersInvHolds, PTL

\* No reminder goes out early; under the same condition none goes out after a
\* cancellation or for a start the session has left.  After a completion one may.
THEOREM RemindersAreCurrent == Spec => NeverOnOldSchedule
<1>1. RemindersInv /\ [Next]_vars => OnSchedule
  BY RemindersStep
<1> QED BY <1>1, RemindersInvHolds, PTL DEF Spec, NeverOnOldSchedule, OnSchedule
=============================================================================
