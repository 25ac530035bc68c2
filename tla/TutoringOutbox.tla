--------------------------- MODULE TutoringOutbox ---------------------------
(***************************************************************************)
(* The durable outbox of the tutoring domain (outbox_relay.py): requests   *)
(* that deliver their own notification after they commit, and relay passes *)
(* that deliver what a request or an earlier pass left behind.  A claim, a *)
(* dispatch and its outcome are three steps, each committed on its own; a  *)
(* process may die between any two.                                        *)
(*                                                                         *)
(* Rows are named by their place in created_at order.  A process keeps the *)
(* attempts counter it read (expire_on_commit is off), the database does   *)
(* not wait for it.                                                        *)
(***************************************************************************)
EXTENDS Integers, FiniteSets, FiniteSetsExt

CONSTANTS Rows,       \* tutoring_outbox rows, 1 .. N in created_at order
          Procs,      \* request threads and relays
          Limit,      \* worker_max_attempts
          Batch,      \* rows one relay pass reads
          MaxCrashes, \* bound: processes that die
          None        \* no row claimed

ASSUME OutboxAssumption == /\ Rows \subseteq Nat
                           /\ Limit \in Nat \ {0}
                           /\ Batch \in Nat \ {0}
                           /\ MaxCrashes \in Nat
                           /\ None \notin Rows

VARIABLES row,        \* row[r]: status and attempts
          todo,       \* todo[p]: the rows p read and did not reach yet
          claim,      \* claim[p]: the attempt p owns
          crashes,
          dispatched, \* dispatched[r]: times r was handed to the dispatcher
          refused,    \* the rows a dispatcher refused for good
          sentOnce    \* the rows that were 'sent' at some time

outboxVars == <<row, todo, claim, crashes, dispatched, refused, sentOnce>>
history == <<refused, sentOnce>>

Status == {"none", "pending", "failed", "sent", "void"}
Outcomes == {"delivered", "retryable", "permanent"}
NoClaim == [row |-> None, seen |-> 0, outcome |-> "none"]
Claims == [row : Rows \union {None}, seen : Nat, outcome : Outcomes \union {"none"}]
Seen == [row : Rows, seen : Nat]

Idle(p) == todo[p] = {} /\ claim[p] = NoClaim

OutboxInit == /\ row = [r \in Rows |-> [status |-> "none", attempts |-> 0]]
              /\ todo = [p \in Procs |-> {}]
              /\ claim = [p \in Procs |-> NoClaim]
              /\ crashes = 0
              /\ dispatched = [r \in Rows |-> 0]
              /\ refused = {}
              /\ sentOnce = {}

\* Rows a relay may still have to deliver.
PendingOnly == {r \in Rows : row[r].status = "pending"}
Undelivered == {r \in Rows : row[r].status \in {"pending", "failed"}}

\* A mutation commits with its outbox row, and the request goes on to deliver it.
Enqueue(p, r) ==
  /\ Idle(p)
  /\ row[r].status = "none"
  /\ \A older \in Rows : older < r => row[older].status # "none"
  /\ row' = [row EXCEPT ![r].status = "pending"]
  /\ todo' = [todo EXCEPT ![p] = {[row |-> r, seen |-> 0]}]
  /\ UNCHANGED <<claim, crashes, dispatched, history>>

\* The oldest Batch rows that are not delivered.
PendingRows == {r \in Undelivered : Cardinality({q \in Undelivered : q < r}) < Batch}

StartPass(p) ==
  /\ Idle(p)
  /\ Undelivered # {}
  /\ todo' = [todo EXCEPT ![p] = {[row |-> r, seen |-> row[r].attempts] : r \in PendingRows}]
  /\ UNCHANGED <<row, claim, crashes, dispatched, history>>

\* The row p comes to next.
Next1(p) == CHOOSE j \in todo[p] : \A k \in todo[p] : j.row <= k.row
NextUp(p, j) == claim[p] = NoClaim /\ todo[p] # {} /\ j = Next1(p)
Done(p, j) == todo' = [todo EXCEPT ![p] = @ \ {j}]

\* A row read with its attempts used up goes to the dead letters, whatever
\* happened to it since it was read.
Exhaust(p, j) ==
  /\ NextUp(p, j)
  /\ j.seen >= Limit
  /\ row' = [row EXCEPT ![j.row].status = "void"]
  /\ Done(p, j)
  /\ UNCHANGED <<claim, crashes, dispatched, history>>

\* The compare-and-swap on (id, status, attempts).
StatusAsSeen(j) == row[j.row].status \in {"pending", "failed"}
AsSeen(j) == row[j.row].status \in {"pending", "failed"} /\ row[j.row].attempts = j.seen

Claim(p, j) ==
  /\ NextUp(p, j)
  /\ j.seen < Limit
  /\ AsSeen(j)
  /\ row' = [row EXCEPT ![j.row].attempts = j.seen + 1]
  /\ claim' = [claim EXCEPT ![p] = [row |-> j.row, seen |-> j.seen, outcome |-> "none"]]
  /\ Done(p, j)
  /\ UNCHANGED <<crashes, dispatched, history>>

\* Another process owns this attempt.
Skip(p, j) ==
  /\ NextUp(p, j)
  /\ j.seen < Limit
  /\ ~AsSeen(j)
  /\ Done(p, j)
  /\ UNCHANGED <<row, claim, crashes, dispatched, history>>

Dispatch(p, outcome) ==
  LET r == claim[p].row IN
  /\ r # None
  /\ claim[p].outcome = "none"
  /\ claim' = [claim EXCEPT ![p].outcome = outcome]
  /\ dispatched' = [dispatched EXCEPT ![r] = @ + 1]
  /\ refused' = IF outcome = "permanent" THEN refused \union {r} ELSE refused
  /\ UNCHANGED <<row, todo, crashes, sentOnce>>

VerdictNoRetry(c) == IF c.outcome = "delivered" THEN "sent" ELSE "void"
Verdict(c) == CASE c.outcome = "delivered" -> "sent"
                [] c.outcome = "retryable" /\ c.seen + 1 < Limit -> "failed"
                [] OTHER -> "void"

\* The outcome is written over whatever the row says now.
Finish(p) ==
  LET r == claim[p].row IN
  /\ claim[p].outcome # "none"
  /\ row' = [row EXCEPT ![r].status = Verdict(claim[p])]
  /\ sentOnce' = IF Verdict(claim[p]) = "sent" THEN sentOnce \union {r} ELSE sentOnce
  /\ claim' = [claim EXCEPT ![p] = NoClaim]
  /\ UNCHANGED <<todo, crashes, dispatched, refused>>

\* The process dies; another takes its place.
Crash(p) ==
  /\ ~Idle(p)
  /\ crashes < MaxCrashes
  /\ crashes' = crashes + 1
  /\ todo' = [todo EXCEPT ![p] = {}]
  /\ claim' = [claim EXCEPT ![p] = NoClaim]
  /\ UNCHANGED <<row, dispatched, history>>

Work(p) == \/ \E j \in todo[p] : Exhaust(p, j) \/ Claim(p, j) \/ Skip(p, j)
           \/ \E outcome \in Outcomes : Dispatch(p, outcome)
           \/ Finish(p)

OutboxNext == \E p \in Procs : \/ \E r \in Rows : Enqueue(p, r)
                               \/ StartPass(p)
                               \/ Work(p)
                               \/ Crash(p)

\* A process that runs goes on, and somebody keeps calling relay_pending.
Fairness == \A p \in Procs : WF_outboxVars(StartPass(p)) /\ WF_outboxVars(Work(p))

OutboxSpec == OutboxInit /\ [][OutboxNext]_outboxVars
FairOutboxSpec == OutboxSpec /\ Fairness

-----------------------------------------------------------------------------
OutboxTypeOK == /\ row \in [Rows -> [status : Status, attempts : Nat]]
                /\ todo \in [Procs -> SUBSET Seen]
                /\ claim \in [Procs -> Claims]
                /\ crashes \in 0 .. MaxCrashes
                /\ dispatched \in [Rows -> Nat]
                /\ refused \subseteq Rows
                /\ sentOnce \subseteq Rows

\* outbox_relay.py:19-22: however many requests and relays run, no two of them
\* own the same attempt of a row, ...
AttemptsAreExclusive ==
  \A p, q \in Procs : claim[p].row # None /\ claim[p].row = claim[q].row
                      /\ claim[p].seen = claim[q].seen => p = q

\* ... so that a row is dispatched at most once per attempt, and never more
\* often than worker_max_attempts, through every race and crash.
DispatchedOncePerAttempt ==
  \A r \in Rows : dispatched[r] <= row[r].attempts /\ row[r].attempts <= Limit

\* A notification is given up only after a dispatcher refused it for good or
\* every attempt it is entitled to was used.
VoidIsEarned ==
  \A r \in Rows : row[r].status = "void" => r \in refused \/ row[r].attempts = Limit

\* Every committed notification is delivered or dead-lettered in the end, also
\* when the process that owed it died between two steps.
EveryRowSettles ==
  \A r \in Rows : row[r].status # "none" ~> [](row[r].status \in {"sent", "void"})

\* outbox_relay.py:337-338: "A row that reached ``sent`` in an earlier pass is
\* never dispatched again, so "retry the relay" can never duplicate a side
\* effect": no attempt is claimed on a row that was sent.
SentIsNeverClaimedAgain ==
  [][\A r \in sentOnce : row'[r].attempts = row[r].attempts]_outboxVars
=============================================================================
