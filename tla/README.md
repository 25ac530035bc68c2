# NyayOne in TLA+

A verification project for the NyayOne backend (`src/backend/app`, FastAPI and SQLAlchemy
on PostgreSQL). It models the parts where requests, webhooks, workers and clocks meet:
selling a tutoring slot, the money, the session, its reminders and its reviews, the outbox
that carries notifications, the one-time codes that sign a student up and in, and the
ceremony by which a mentor gets to a student's data. TLC checks the models on small
instances. TLAPS proves every safety property that the passing runs check, and both
refinements, for every size. Where the code does not keep what its documents say, the model
says so too: two runs must fail, and [a table](#where-the-code-and-its-documents-part) lists
what else does.

Line numbers refer to the commit this directory stands beside. `PROJECT.json` maps each
definition to the lines it translates; this file explains the choices.

- [The system](#the-system)
- [Modules](#modules)
- [Runs](#runs)
- [Where the code and its documents part](#where-the-code-and-its-documents-part)
- [Proofs](#proofs)
- [Limits](#limits)
- [Plan](#plan)

## The system

Every request handler gets one database session. Most services flush and never commit; the
route commits, or rolls back on a typed error, so a refused request leaves nothing. Sessions are
made with `expire_on_commit=False` (`db/session.py`): an object read before a commit keeps
its old values after it. The engine sets no isolation level, so PostgreSQL runs READ
COMMITTED. Side effects (mail, SMS) are rows of an outbox written in the same transaction
and dispatched after the commit by the request itself or by a relay.

| component | state it keeps | operations | what makes it correct |
|---|---|---|---|
| slot holds, `tutoring/booking.py` | `booking_holds`, slot status | create, release, expiry sweep, self-heal | one active hold per slot; an abandoned hold blocks nobody |
| sessions, `tutoring/sessions.py` | `tutoring_sessions` with a version, cancellations | sell from a paid hold, reschedule, cancel | no double booking; one session per paid hold |
| payments, `tutoring/payments.py` | orders, events, refunds | create order, webhook, refund | sold exactly when paid; refund as the policy says |
| attendance, `tutoring/attendance.py` | one row per held session | record, confirm, dispute, resolve | agrees with the session's status |
| reminders, `tutoring/reminders.py` | one job per session start and offset | schedule, revoke, reinstate, run what is due | nobody is reminded of a start the session has left |
| reviews, `tutoring/reviews.py` | review, moderation row, the tutor's rating | create, edit, delete, moderate | only what was approved is public and counts |
| tutoring outbox, `tutoring/outbox_relay.py` | rows with status and attempts | enqueue, dispatch after commit, relay pass | one owner per attempt; every row settles |
| OTP authority, `otp_authority.py` | one row of budgets per subject and purpose | count a miss, lock, cool down, resend | a lockout is served; misses are not forgotten |
| OTP challenges, `otp_service.py` | code state and expiry | issue, resend, verify | one staged, one active; the code in the student's hand works |
| OTP flows, `otp_flow_service.py`, `login_service.py`, `recovery_service.py` | browser capability | start, verify, cancel, complete, purge | one current flow; codes die with it |
| OTP outbox, `otp_outbox.py`, `workers/otp_outbox_relay.py` | claim token, lease, retry time | claim, send, activate or retry | a stale completion changes nothing; every code settles |
| registration, `registration_service.py` | idempotency ledger of signup | reserve, replay, finalize, retire, restart | a key answers for one content and one browser; success means delivered |
| mentor ceremony, `mentor_ceremony.py`, `workers/mentor_identity_relay.py` | invitations, ceremonies, provider results, session generations, step-ups | invite, initiate, verify, exchange, rotate, revoke, logout, recover, delete, expire, erase | one session per purpose; what was ended, deleted or erased cannot come back |
| join grants, `tutoring/join_credentials.py` | grants of a video room | issue, supersede, revoke | one live grant |
| student authority, e-mail identity | state machines, proofs | command, deliver, verify, remove | an address has one verified owner |
| credentials, moderation, risk labels, calendar, catalogue, profile | documents, reports, labels, feeds | CRUD with reviews and outboxes | access and review order |
| retention, `core/retention.py` | everything with a deadline | purge, anonymise, erase | erasure wins over late work |

How they call each other: `payments.handle_event` calls `booking.release_hold` or
`sessions.create_from_paid_hold` in its own transaction; `sessions.cancel` calls
`payments.refund` (which calls the provider before the commit) and revokes the reminders;
`sessions.reschedule` revokes, reinstates or schedules them; attendance moves the session and
opens the door to a review; all of them enqueue outbox rows. In the OTP part a browser flow
points to a challenge, a challenge has one outbox row, and all three hang on the authority
row, which every handler locks first; a signup hangs on its ledger row besides. `run_delivery`
is the exception: it commits its claim, calls the provider with no lock, and comes back. The
mentor ceremony has no outbox: its relay claims a provider transaction, asks with no lock and
settles the answer in a transaction of its own. Every other operation there takes an
advisory lock for the mentor, then the rows it decides on.

Hard behaviours, and where they bite, are the `hazards` of `PROJECT.json`: sweeps that use
what they read before somebody else committed, payments after the TTL, events out of order
or duplicated, attempts that outlive their lease, crashes between a claim and its outcome,
a code replaced while the old one is being typed, a moved session with a reminder in hand,
two moderators on one review, a signup replayed while its code is on its way, a logout that
crosses a rotation, and rounding at the refund window. Three more are known and not modelled:
the three rate buckets of one request (`otp_authority.py:224`), two logins that rotate the
student's session at once (`login_service.py:588`), and an address proved by two actors
(`email_identity_service.py:327`).

## Modules

| module | models | state ↔ code |
|---|---|---|
| `SlotSale` | the promise: a slot has at most one owner, an order is sold once, a cancelled slot is retired | abstract |
| `BookingHolds` | the hold, slot and session tables **statement by statement** under READ COMMITTED | `slot`, `hold`, `sess` are committed rows; `tx[p]` is an open transaction with what it read and its uncommitted writes |
| `TutoringBooking` | the booking service from hold to refund, one request per step but **webhooks in two**: what they read of the order, and what they write | one variable per table; `inflight` are webhooks between their steps; `captured` is what the payment provider took |
| `SessionAttendance` | one session, its attendance row and the requests about them, **statement by statement** | `session`, `attendance` are rows; `request[q]` is what a request read of each and the version its client named |
| `RefundPolicy` | `assess_refund` and the rounding in `hours_before` as pure operators | used by `TutoringBooking`, proved about for every second |
| `SessionReminders` | the reminders of one session while it is moved, cancelled or completed, **statement by statement**, with row locks and deadlocks | `jobs` is `session_reminder_jobs`, `notices` its outbox rows, `tx[p]` an open transaction with the locks it holds |
| `TutorReviews` | reviews, moderation and the public rating of one tutor, **statement by statement** | `review`, `moderation`, `profile` are rows; `tx[p]` holds what a request has read; `approved` and `raced` remember |
| `TutoringOutbox` | `enqueue`, `run_delivery`, `relay_pending`, crashes | `row` is the table; `todo` and `claim` are what a process holds in memory |
| `OtpAuthority` | the budgets of one authority row, as functions of the row and the time | the columns of `otp_purpose_authorities` |
| `OtpDelivery` | login and recovery flows, codes, outbox rows, workers | `authority`, `flow`, `challenge`, `outbox` are tables; `tasks` are listed deliveries, `delivery[w]` is a worker between claim and finalize, `late[r]` a request between a commit and the count |
| `SignupLedger` | signups of one number: ledger, registration, flows, codes, the delivery workers, retention | one variable per table, `worker[w]` is a delivery between its transactions; `accepted` is what the provider took, `bound` the contents a key was accepted with |
| `MentorCeremony` | invitations, ceremonies, the provider relay, sessions and their generations, step-up, deletion, expiry, a student's erasure | one variable per table (a ceremony with its bootstrap and provider result, an invitation with its consents and engagement); `ended` remembers answered logouts |

The `MC*` modules give constants, symmetry sets and nothing else. The `*Proofs` modules hold
the theorems: one for each model, and `TutoringPartsProofs` for the small ones
(`SlotSale` and `RefundPolicy`, `SessionAttendance`, `TutoringOutbox`).

**Grain.** A handler that keeps a row lock from its first read to its commit is one action.
`BookingHolds` is split into statements because the hold handlers lock nothing and rely on
the `WHERE` clauses of their updates: an `UPDATE` hits the rows whose visible version
matches and waits for a row somebody else wrote. `Commit` publishes the writes of a
transaction, `Crash` drops them. That its statements add up to atomic sales is what
`ImplementsSlotSale` says there.

`TutoringBooking` covers what `BookingHolds` leaves out: orders, events, money. A webhook reads
its order with no lock (`payments.py:516-521`), judges that copy (623) and writes over whatever the
row holds by then (645, 691, 721), so `Receive` and what it leads to are two steps with anything
in between. The other handlers there are one step each: what their statements can do in between
is in `BookingHolds`, and the one thing it leaves in these tables, a slot freed by a late sweep or
release under an active hold, is an action of its own (`SlotFreedLate`).

`SessionAttendance` splits `attendance.py` where it reads: the session, then the attendance row,
neither locked (366-367), then one step for the conditional updates and the commit, since each
update keeps its row locked and all requests write attendance before session.

`SessionReminders` and `TutorReviews` are split for the same reason: a worker reads which
jobs are due before it locks one, a moderator decides on a review he read before. In
`SignupLedger` and `MentorCeremony` the handlers lock what they decide on, so they are single
steps, and only what calls a provider is split.

**Named versions.** `transition` and `_bump` compare the row with the version the client sends,
if it sends one (`sessions.py:213`, `attendance.py:122`; `api/v1/tutoring.py:874`, `916`). A client may
name one its request has not read, and then wins over the change that made it.
`BookingHolds`, `SessionReminders` and `SessionAttendance` let every client do so and remember it
(`unread`, `blind`): what holds until then is stated with that proviso, what holds
regardless (`HeldSlotHasHold`, one live session per slot, `SentMeansNotified`) without, and what
the code no longer keeps is in the table below. `TutoringBooking` has no such clients.

**Identity.** An order, its session, its attendance and its cancellation have the same id,
because `tutoring_sessions.order_id` is the order's. A replayed idempotency key returns the
row it made and is a stuttering step, except in `SignupLedger`, where a replay may expire a
flow or close a delivery. In `OtpDelivery` a claim token is the number of the attempt it was
drawn for: tokens are fresh random values, and all that is ever asked of one is whether it is
still the row's. A signup's flow cookie is derived from its key, so a flow is named by the
key. Mentor sessions are numbered as they are opened, and any cookie ever issued may be
presented at any time.

**Time** is a bounded counter. Leases, TTLs, lockouts and windows are deadlines on it. The
rounding of the notice is about seconds, so `RefundPolicy` counts them.

**Refusals** roll back, so they are stuttering steps. In `VerifyWrong` and `VerifyExpired` the refusal
commits, as the code does; so does the expiry that `_session_from_cookie` and
`_find_ceremony` write before they refuse.

**Faulty forms.** Some definitions have a neighbour such as `HoldIsActive` or
`ConflictsAlive`: the same operator with a plausible mistake, used to see that the property
would notice. No specification uses them.

**Type invariants.** Each module has one. They are theorems (`BookingSafe`, `HoldsTyped`,
`RemindersTyped`, `ReviewsTyped`, `SignupTyped`, `OtpTyped`, `CeremonyTyped`, and part of
`OutboxInv`, `SaleInv` and `AttendanceInv`), not properties of a run. So are
`OneActiveHoldPerSlot`, `BookedSlotHasOneSession`, `ConsumedHoldHasOneSession` and
`HoldClosesOnce` of `BookingHolds`.

## Runs

Runs that pass. The largest take about three minutes on two cores.

| run | instance | question |
|---|---|---|
| `holds` | 2 slots, 3 holds with 2 payment attempts each, 2 transactions, 2 moves, one tick of clock past the TTL | can any interleaving of statements, under any version a client names, strand a held slot? Until one names a version it has not read, does it implement `SlotSale`? |
| `bookings` | 2 slots at different times, 1 hold, 2 orders, 4 provider events, 2 amounts, 2 webhooks in flight, 1 move, TTL 1, window 1, clock 2 | webhooks that overlap, arrive late, twice or with the wrong amount, cancellations by each role on both sides of the window, moves and attendance: a session stands on the money its hold quoted, nothing is sold after the TTL, refunds follow the policy |
| `attendance` | 3 requests, versions up to 5 | record, confirm, dispute, resolve, reschedule and cancel on copies read apart: attendance and session agree, of two requests that decide on one state one loses |
| `reminders` | 2 transactions, 2 starts, 2 offsets, 2 moves, clock 4 | a session moved away and back, cancelled or completed while workers send, under the versions clients name: jobs follow the session, nothing is sent for an old start, each goes out once, what deadlocks ends |
| `reviews` | 2 transactions, 2 sessions, 1 text, 1 rating | two moderators, or a moderator and an edit: review and moderation agree, a decision stands, the rating counts the approved reviews unless a commit overlapped the count |
| `signup` | 2 keys, 2 contents, 2 codes, 2 workers, 2 sends, flow TTL 3, code TTL 2, lease 1, age 4, clock 5 | replays, restarts, cancels and late deliveries: one browser per signup, one content per key, success means delivered, an ended signup stays ended |
| `outbox` | 2 rows, 2 processes, 2 attempts, 2 crashes, passes of 2 rows | at most one dispatch per attempt; nothing dead-lettered early; every committed row ends sent or void |
| `otp` | 2 recovery flows, 2 codes, 2 workers, 1 late request, 2 sends, lease 1, lockout 2, clock 5 | stale completions, lost leases, resends, cancels and late counts against activation, lockout and proof |
| `otp_login` | 2 login flows, 2 codes, 1 worker, clock 4 | flows that end with their code; every staged code ends sent or void |
| `mentor` | 1 mentor, 2 purposes, 2 invitations, 3 ceremonies, 1 step-up, 3 sessions, generations up to 2, 1 result rejected after denials, all TTLs 1 (session 2), clock 2 | logins, recoveries, rotations, old cookies, a deletion and an erasure in any order: one session per purpose, a logout reaches the successor, a recovery leaves one session, nothing survives deletion or erasure |

Two of each contender is the least at which a race exists. `holds` has three holds because a
second active hold on one slot needs three: one that is swept late, one that replaced it and
whose slot the late sweep frees, and one that takes the freed slot. The TTL, lease and window are one or two ticks so that
the clock passes each of them and goes on: every deadline is met before, at and after its
instant. `reminders` has two starts that are one tick apart and two offsets, so one instant
belongs to reminders of both starts, and two moves bring a session back. `mentor` has three
ceremonies and three sessions: a login for each purpose and a recovery that must take over
both, or two logins and a step-up. Its clock has two instants and all its TTLs but the
session's are one, so every row is met before and after it has elapsed; with the invitation and the consent that
go with it a session is denied from then on, whatever it says itself. One mentor is enough because
no handler but the student's erasure writes rows of a second one, and that works invitation by
invitation. The bounds (`MaxNow`, `MaxTime`, `MaxMoves`, `MaxCrashes`, `MaxVersion`,
`MaxInFlight`, `MaxSessions`, `MaxRejected` and the finite supplies of ids) stop the state space and are in the guards or the constants. Where
the clock stops the system may stop, hence `CHECK_DEADLOCK FALSE`; the `BookingHolds` run
checks deadlock, because there a deadlock would be two transactions waiting for each other.
In `reminders` such a deadlock is possible, PostgreSQL breaks it, and the liveness property
says that it is enough.

**Fairness.** `outbox`, `otp_login` and `reminders` assume some. Nothing in the source
schedules the tutoring relay (`_dispatch` in `api/v1/tutoring.py` runs the request's own
rows; `relay_pending` and the `enqueue_due` of the reminders have no caller in the
application), and the OTP
relay is "run once from a scheduler/worker" (its docstring). The runs assume that somebody
keeps calling them: weak fairness of a process starting a pass and of its steps for the
tutoring outbox, with a bounded number of crashes; weak fairness of listing, of the
provider's answer and of finalizing for OTP, and strong fairness of running what was listed,
since a process may die any number of times but not always before its delivery runs. Sends,
retries and leases are not assumed to succeed: the provider may refuse for ever, and the row
then ends void. `reminders` assumes what PostgreSQL does: a waiter is served in the end
(strong fairness of a transaction's statements) and the victim of a deadlock is aborted (weak).

## Where the code and its documents part

Two runs must fail, and the findings in `PROJECT.json` quote what they contradict:

- `otp_channels` (`RightChannel`): the relay gives every row to the SMS sender, and a candidate
  staged for one channel is handed to the other when the student changes channel;
- `late_failure` (`TutorCancelRefundsAll`): a failed attempt's event reads the order `created`, a
  capture of the same order commits and sells the session, then the first event writes `failed`
  over `paid` (`payments.py:691`). The tutor cancels, `sessions.py:777` finds nothing captured, and
  the student gets nothing back, though "tutor cancellation -> full refund always"
  (`sessions.py:755`).

These are stated in a module and fail with the constants named, but have no run of their own:

| definition | where | what happens |
|---|---|---|
| `HoldAndSlotAgree` | `BookingHolds` as in `holds` | a sweep, or a release, frees a slot that was held again in between; it reads `available` under an active hold until the next sweep. The marker still prevents a second hold, and no double booking follows |
| `CancelledIsFinal` | `BookingHolds` as in `holds` | a reschedule that read version 1 and names version 2 commits after the cancellation that made it: the session is live again, on a new slot, and its refund is out. `LEGAL_TRANSITIONS` lets nothing follow `cancelled` (`sessions.py:94`) |
| `LiveSessionIsPaid` | `TutoringBooking` as in `bookings` | the race of `late_failure` before any cancellation: a confirmed session on a failed order, the "ledger contradicting a live booking" that `payments.py:612-622` guards against |
| `DuplicateMeansApplied` | `TutoringBooking` as in `bookings` | when bodies carry no event id, the events of a payment share the id of its entity (`payment_provider.py:555-557`), and the capture after an authorization is answered `DUPLICATE_EVENT`, though nothing of it was applied ("an already-applied event raises", `payments.py:20`) |
| `NobodyOverwrites` | `SessionAttendance` as in `attendance` | a client that names the next version overwrites the decision that made it, though "a caller working from a stale read loses" (`attendance.py`, docstring) |
| `ResolutionCompletes` | `SessionAttendance` as in `attendance` | a resolution reads the session completed, the dispute commits, the resolution finds the attendance disputed and resolves it, and leaves the session disputed (`attendance.py:366-380`): "returns it to completed" fails without any named version |
| `CancelledHasNoJobs` | `SessionReminders` as in `reminders` | a cancellation that names the version a concurrent move makes waits in its revocation behind that move and does not see the jobs it inserts: cancelled, with reminders scheduled |
| `SentIsNeverClaimedAgain` | `TutoringOutbox`, 1 row, `Limit = 3` | a slow failing attempt overwrites `sent`, and the row is dispatched again |
| `AttemptsCountUp` | `OtpDelivery` as in `otp` | `verify` commits an expired code and its caller counts on the row it read before, so misses counted in between are lost |
| `PublicTextWasApproved` | `TutorReviews`, two texts | a moderator approves what he read while the author's edit is committed in between (`reviews.py:583`): a text nobody saw is public, though the module says "no free text is ever public before a human decision" (`reviews.py:31-33`) |
| `CountsOnlyPublished` | `TutorReviews` as in `reviews` | a recomputation counts a review while another request withdraws it, and writes last: the rating keeps a review that is pending or deleted, though "the aggregate only ever counts published rows" (`reviews.py:30-31`) |
| `NumberIsFreed` | `SignupLedger` under `FairSignups` with `PendingAge = Forever`, the default (`config.py:482`) | after a replay retires the ledger ("divergent graph teardown is left to scheduled retention", `registration_service.py:690-693`), or a cancellation ends the flow, the registration stays `otp_pending`: `purge_otp_security_state` looks for live flows only (`retention.py:624-634`). With an age set the number is freed |

Smaller ones that the models show on the way:

- `hours_before` rounds to hundredths of an hour, so a student up to 18 seconds inside the window
  is still refunded in full (`RefundPolicySafe` bounds it, `payments.py:24-25` says "NO
  automatic refund").
- A capture after the TTL is answered `HOLD_EXPIRED` and rolls back with the slot still held,
  though `sessions.py:322-323` says it is released "in the same breath"; the next request for the
  slot heals it. Claiming the session of a rescheduled order is refused, not replayed as
  `api/v1/tutoring.py:775-776` says, because the slot of its hold is no longer the session's.
- `HOLD_CONFLICT` ("another student is holding this slot") is also answered when a reschedule has booked the slot
  between the check and the update (`booking.py:349`, `363-366`).
- `close_expired_signup_delivery` voids the one code the ledger or the flow names, where its
  docstring says "Fence every relayable child" (`registration_service.py:278`).
- A resend that slips between a delivery and its settling makes `finalize` raise on a
  registration it calls ambiguous.
- `MENTOR_SESSION_TRANSITIONS` (`models/mentor_auth.py:43-50`) and its test give `rotated_out`
  no way out, but `delete_authority` and a student's erasure set such rows to `deleted`.
- "Recovery verification revokes every prior mentor generation"
  (`CEREMONY_SEQUENCE_DIAGRAMS.md:408`): `verify` only notes them and `exchange` revokes;
  `RecoveryTakesOver` is what makes the difference harmless.
- Ending a session that was rotated leaves the step-up ceremony begun in its predecessor, since
  both are looked up by the session's own id (`mentor_ceremony.py:3394-3398`). The ceremony can
  be exchanged only with a live session of the same mentor.
- The student's consent and invitation end with the ceremony's lifetime, so a mentor's session
  is denied long before the end its cookie states; and `last_seen_at` moves with a rotation only.

## Proofs

All by `tlapm`, from the assumptions each module states on its constants: any finite or
infinite sets of slots, holds, orders, rows, keys and processes, any TTL, window and limit.
The assumptions are that deadlines, counters and limits are numbers, positive where the
configuration demands it, that NULL is not a row, that a flow outlives its code, and in the
models with a bounded clock that it has a first tick. TLC evaluates them in every run.

Every safety property of a passing run is a theorem: the run shows it on an instance, and
that the code could break it (each has a mutant that does); the proof shows it for all. Few
are inductive as they stand. The strengthenings below hold on the instances of the runs,
where TLC checked them.

| theorem | says | from |
|---|---|---|
| `SaleSafe` | `SlotSale`, which both booking models implement, excludes double booking | `SaleInv` |
| `HoldsTyped`, `HeldIsBacked` | a held slot has an active hold, whatever statements interleave | `HoldsInv` |
| `HoldIsExclusive`, `BookedIsOneSession`, `ConsumedIsOneSession` | one active hold per slot; at most one live session per slot, and until an unread version is named a slot is booked exactly if it has one; one session per consumed hold | `HoldsInv` |
| `ClosedStaysClosed` | a hold that was consumed, released or expired never changes again | `HoldsInv` |
| `HoldsImplementSale` | until an unread version is named, the statements of `BookingHolds` add up to steps of `SlotSale` | `HoldsInv` |
| `BookingSafe` | types and `SessionIsPaidFor`, with webhooks that overlap | `BookingInv` |
| `SaleWithinTtl` | a slot is sold only for a capture that came inside the hold's TTL | steps from `BookingInv` |
| `RefundsFollowPolicy` | money goes back once, for a cancelled session, never above the capture, and as the policy says of what the cancellation found | `RefundInv` |
| `BookingImplementsSale` | every step of `TutoringBooking` is a step of `SlotSale` or none | `BookingInv` |
| `RefundPolicySafe` | full notice is refunded in full, 19 seconds late is not, never above the capture | `WindowBoundary`, a fact about the rounding |
| `AttendanceIsSafe`, `StaleDecisionsLose` | until an unread version is named, attendance and session agree, and what lands is a legal move from the rows as they are | `AttendanceInv` |
| `OutboxSafe`, `DispatchesAreBounded` | one owner per attempt, no early dead letter, no more dispatches than counted attempts | `OutboxInv`, `DispatchInv` |
| `RemindersTyped`, `JobsAreCurrent`, `NoticesMatchJobs` | until an unread version is named, jobs are those of the session as it stands (a completed one keeps its own); a reminder is in the outbox once, if its job is sent | `RemindersInv` |
| `RemindersAreCurrent` | no step sends a reminder early, nor, with the same proviso, of a cancelled session or for a start the session has left | steps from `RemindersInv` |
| `ReviewsTyped`, `PublicationFollowsModeration`, `RatingIsOfApproved` | published exactly if approved; the rating counts exactly what is approved, unless a commit overlapped the last count | `ReviewsInv` |
| `DecisionsStand` | a moderator's decision stays until the author edits | steps from `ReviewsInv` |
| `SignupTyped`, `OneBrowserAtATime`, `KeysKeepContent`, `SuccessIsEarned` | one browser drives the unfinished registration; one content per key; success means delivered | `SignupInv` |
| `TombstonesStand`, `CodesServeSignups` | a late delivery revives no ended signup and makes no code active for it | steps from `SignupInv` |
| `OtpTyped`, `GraphIsValid`, `CodesWereTaken`, `FlowHasItsCode` | a staged row has its staged code; a usable code was taken by the provider and belongs to the flow that shows it | `OtpInv` |
| `ActivationHasFlow`, `ActiveCodeStays`, `LockoutIsServed`, `ProofIsKept` | codes become active for a live flow only, the old one works until then, nothing but a late count cuts a lockout short, no late delivery undoes a proof | steps from `OtpInv` |
| `CeremonyTyped`, `MentorHasOneSession` | one live session per mentor and purpose | `MentorInv` |
| `EndingIsFinal`, `DeletionIsComplete`, `ErasureIsComplete` | ending a generation reaches its successors; nothing outlives a deletion or an erasure | `MentorInv` |
| `RecoveryIsExclusive` | an exchanged recovery leaves its own session alone | steps from `MentorInv` |

**`HoldsInv`** is the proof that the `WHERE` clauses are enough. It describes every open
transaction: the stage it is in, which holds, slots and sessions it is about to write and what
those rows were before (`TxHolds`, `TxSlots`, `TxSession`), that it leaves no slot held whose
hold it closes (`TxFrees`), and that two transactions have no row in common (`Apart`). What a
transaction has read is not assumed fresh; what it has written is protected by the row lock.
That a slot is booked exactly if a session stands on it needs more, the version: it is a
conjunct of its own (`BookedIsLive`), under `unread = {}`, while the others hold whatever
clients name; the row lock on `tutoring_sessions` and its unique index keep two live sessions
apart in any case. Each `Commit` preserves all of it, the only action that changes a committed
row. The refinement is by commits too: consuming a hold is `Sell`, a move `Move`, a cancellation
`Retire`, the rest stutters, and a commit under a version that was not read is the exception the
property names.

**`BookingInv`** has to hold while webhooks are between their steps. `Standing` says that a
session is alone on its slot and the slot says so, `RowsInv` that rows point at rows and an order
carries the price its hold quoted, `DeliveryInv` that a webhook in flight is about an order and
that a verified capture took its price. None of them trusts `order.status`: a late failure may
overwrite it, and `SessionIsPaidFor` only says that `paid` was never written without a sale. The
steps are classed by what they leave alone (`HoldsKept`, `OrdersKept`, `SessionsKept`), so that only
`SellSession`, `Reschedule` and `Cancel` are proved at length. `RefundInv` adds the policy; what a
cancellation found is on its row, because the order may change before it and after it.

**`AttendanceInv`** adds to the property what a request remembers (`CopiesInv`): a copy is of the
row as it is if the versions are equal, and a request that saw the session disputed saw a dispute
that no one has undone since. The second part is why a resolution that saw the dispute in
both rows ends it in both.

**`OutboxInv`** adds `MemoryInv`: what a process remembers of a row is no newer than the row, and
a claim in flight is older than the row's attempts. That is what the compare-and-swap on
`(status, attempts)` buys, and without it exclusivity is not preserved. `DispatchInv` counts:
dispatches made and attempts owned but not yet dispatched are at most the attempts counted.

**`RemindersInv`** says of an open transaction what it read (a row as it is or was: an equal
version means an equal row), what it wrote (only what it has locked, and no job that was sent),
and what its operation has done so far. Its revocation is two steps, for the update finds its rows
when it starts: `Listed` and `Covers` say that it has found and written every scheduled job, and
hold as long as the session still has the version that was read; with a version that was only
named they say nothing, and that is the gap. Locks are disjoint. The properties of the tables are
preserved by `Commit`; nothing else touches them.

**`ReviewsInv`** says that a request that writes a decision publishes exactly if it approves, that
a decision is taken on a pending row, and that of two requests on one review only one has
written it. The compare-and-swap on the moderation row gives the last part; the rest is the
shape of the update. For the rating it keeps what was public when a request counted (`before`):
the count is that set with the request's own row put right (`TxCounted`), so if nothing public
changed until the commit, which is what `raced` records, it is exact.

**`SignupInv`** has two parts beside types. `Browsers` is the property itself with the decoys:
a live flow is the linked key's, or leads nowhere and its ledger is neutralized. `Markers` is
what a restart needs: the cancelled flow that may be restarted is the only one, and no key is
linked while it is there. Most steps retire or go on (`GraphStep`); only six begin or end
a signup, and those are proved one by one. `SuccessIsEarned` rests on what a worker remembers:
after the provider's yes the code is among those it took.

**`OtpInv`** ties the four tables together: a row may be relayed exactly while its code is staged,
one code is staged and one active, one flow is current, and a flow that shows a code shows the
active one. A claim token is no newer than the attempts counted, so a token drawn now is
nobody's. An authority that is not locked has an attempt left, and so had every row a late
request still holds (`Budgets`), so a late count leaves a valid budget too, if not the right
one (`AttemptsCountUp`).

**`MentorInv`** orders the generations: a rotated session names a later one of the same login
(`Successors`), so the chain ends, and by its least counterexample a logout reaches its tip. Of
a login's generations all but the active one have rotated out (`OneTip`). A ceremony that
may still open a session rests on an invitation that exists and on the actor it is for.

Model-checked only:

- liveness: `EveryRowSettles`, `EveryCodeSettles` and `EveryRequestEnds`. They assume fairness, and
  neither fairness nor `ENABLED` is in reach of the prover;
- the violated properties of `otp_channels` and `late_failure`, and the definitions listed as failing above, which
  are false.

## Limits

- The row-lock deadlocks of READ COMMITTED are checked for the hold transactions and the
  reminders. The OTP, signup and mentor handlers lock in one order each, which the models take
  as given and make each handler atomic.
- A handler reads the clock when it starts; except for a late count, the models let it act at
  that instant.
- The payment provider's refund call and the commit after it are one step. A crash in between
  loses the record of a refund; nothing in the code recovers it. A refund recorded `pending`
  is never completed by the code, and a capture refused with `HOLD_EXPIRED` leaves no trace:
  there is no action to model.
- `TutoringBooking` has no client that names a version it has not read, and its refund window runs on
  ticks; that its steps are those of `SlotSale` is proved and has no run. An event that names another
  currency or user is refused like one with another amount. A cookie-backed `attendance.record` locks
  the session when it reads it, which `SessionAttendance` does not rely on.
- `TutorReviews` starts from confirmed attendance and has no edit window, whose refusal changes
  nothing.
- `SignupLedger` has no budgets, cooldowns, retry times, wrong codes or locks, which
  `OtpDelivery` has for the same tables; keys migrated from an older ledger, the purge of
  histories, the erasure of verified students and `compensate_delete`, which nothing calls, are
  left out. A registration without an `Idempotency-Key` (`auth_student.py:794-798`, `888-893`;
  `registration_service.py:1415`, `1509`) opens a real flow with no ledger row: none of the
  properties of the ledger speaks of it, and it is not modelled. A decoy flow (a known number) keeps its ledger row and has no code.
- `MentorCeremony` leaves out replays under an idempotency key, rate budgets, the conflict with
  the mentor's own student session, the role policies and the sharing switches of the student,
  all of which refuse or repeat; a proof that expires by itself; the count of denials, of which only
  the last, which rejects a consumed result, is a step (`DenyProviderResult`, at any time and at most
  `MaxRejected` of them); the severing of rows after the
  retention period; a sweep cut off by its batch size; a request for erasure that spans several
  invitations in one transaction, which is several steps here.
- Rate limits by identity, peer and globally, projections, audit rows, encryption, masking
  and validation of input are left out.
- The other components of `PROJECT.json` are `not_modelled`, each with its reason.

## Plan

1. Abstract specifications of a code's life (staged, taken, usable, gone) and of a signup key
   (bound, answered, retired), and the proofs that `OtpDelivery` and `SignupLedger` implement
   them; the budgets of `OtpAuthority` over several requests.
2. Student sessions: `rotate_authenticated_session`, logout, their exclusion with mentor
   sessions, and an abstract "one live session per actor" both implement.
3. Delivery-proof state machines: `email_identity_service.py`, `student_authority.py`; the
   three rate buckets; `join_credentials.py`.
4. Provider money: a refund ledger outside the database, with a crash before the commit.
