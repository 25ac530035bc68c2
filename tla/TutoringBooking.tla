-------------------------- MODULE TutoringBooking ---------------------------
(***************************************************************************)
(* Booking a tutoring session, from hold to refund: booking.py,            *)
(* payments.py and sessions.py behind api/v1/tutoring.py.                  *)
(*                                                                         *)
(* A payment webhook takes two steps.  It reads the order without a lock,  *)
(* and what it does later rests on that copy (Receive, then one of the     *)
(* outcomes).  Every other request is one step: it only reads and inserts, *)
(* or its updates name the status they expect, or they name the version it *)
(* read.  What its statements can do in between is the subject of          *)
(* BookingHolds; what they may leave behind here is SlotFreedLate.  No     *)
(* request names a version it has not read; BookingHolds has those too.    *)
(*                                                                         *)
(* An order, its session and its cancellation share one id:                *)
(* tutoring_sessions.order_id names the order a session was sold to.  A    *)
(* hold is named by its idempotency key, and so is an order; replaying a   *)
(* key returns the row and changes nothing.  All slots are one tutor's.    *)
(* A refused request rolls back and changes nothing.                       *)
(***************************************************************************)
EXTENDS RefundPolicy, FiniteSets, FiniteSetsExt

CONSTANTS Slots,        \* tutor_availability_slots.id
          Holds,        \* booking_holds.id, a bounded supply
          Orders,       \* payment_orders.id, a bounded supply
          Prices,       \* session prices a tutor publishes, in paise
          Amounts,      \* amounts a webhook may name
          Start,        \* Start[s]: start_utc of slot s, in ticks
          Ttl,          \* booking_hold_minutes
          Window,       \* refund_free_cancel_hours
          ExceptionAmounts, \* exception_amount_paise an admin names; -1: none
          RawEvents,    \* the provider's webhook event names it may send
          EventName,    \* EventName[raw]: the id the body of this event carries
          MaxNow,       \* bound: the clock stops here
          MaxInFlight,  \* bound: webhooks between their two steps
          MaxMoves,     \* bound: reschedules of one session
          None          \* SQL NULL

ASSUME BookingAssumption ==
  /\ Prices \subseteq Amounts
  /\ Amounts \subseteq Nat \ {0}
  /\ Start \in [Slots -> Nat]
  /\ Ttl \in Nat \ {0}
  /\ Window \in Nat
  /\ ExceptionAmounts \subseteq Nat \union {-1}
  /\ DOMAIN EventName = RawEvents
  /\ MaxNow \in Nat
  /\ MaxInFlight \in Nat
  /\ MaxMoves \in Nat
  /\ None \notin Slots \union Holds \union Orders \union {"student", "tutor", "admin"}

VARIABLES now,          \* wall clock
          slot,         \* slot[s]: status
          hold,         \* hold[h]: row of booking_holds
          order,        \* order[o]: row of payment_orders
          ledger,       \* payment_events
          inflight,     \* webhooks that were checked and not yet applied
          sess,         \* sess[o]: row of tutoring_sessions
          cancellation, \* cancellation[o]: row of session_cancellations
          refunds,      \* payment_refunds
          captured      \* captured[o]: what the provider says it took

vars == <<now, slot, hold, order, ledger, inflight, sess, cancellation, refunds, captured>>
saleTables == <<slot, hold, sess>>
moneyTables == <<order, ledger, inflight, refunds>>

-----------------------------------------------------------------------------
SlotStatus == {"available", "held", "booked", "cancelled"}
HoldStatus == {"none", "active", "consumed", "expired", "released"}
OrderStatus == {"none", "created", "pending", "paid", "failed", "expired"}
SessionStatus == {"none", "confirmed", "rescheduled", "cancelled", "completed"}
EventTypes == {"paid", "failed", "expired", "pending"}
Roles == {"student", "tutor", "admin"}

\* _RAZORPAY_EVENT_MAP
EventType(raw) == CASE raw \in {"payment.captured", "order.paid"} -> "paid"
                    [] raw = "payment.failed" -> "failed"
                    [] raw = "order.expired" -> "expired"
                    [] OTHER -> "pending"

\* provider_event_id: the body's event_id or id, else the id of the payment
\* entity, which the events of one payment attempt share.
EventId(o, raw) == <<o, EventName[raw]>>
EventIds == Orders \X {EventName[raw] : raw \in RawEvents}

HoldRow == [status : HoldStatus, slot : Slots \union {None}, expires : Nat,
            price : Prices \union {0}]
OrderRow == [status : OrderStatus, hold : Holds \union {None}, amount : Prices \union {0}]
SessRow == [status : SessionStatus, slot : Slots \union {None}, version : Nat]
EventRow == [id : EventIds, order : Orders, type : EventTypes]
\* A webhook that has read the order: the status it saw and its own clock.
Delivery == [order : Orders, raw : RawEvents, seen : OrderStatus, at : Nat]
\* found: what the cancellation took for captured when it read the order.
CancelRow == [role : Roles \union {None}, decision : Decisions \union {"none"}, hours : Nat,
              found : Prices \union {0}]
RefundRow == [order : Orders, amount : Nat, reason : {"cancel_ge_24h", "tutor_cancelled",
              "admin_exception"}, status : {"pending", "succeeded"}]

NoHold == [status |-> "none", slot |-> None, expires |-> 0, price |-> 0]
NoOrder == [status |-> "none", hold |-> None, amount |-> 0]
NoSess == [status |-> "none", slot |-> None, version |-> 0]
NoCancel == [role |-> None, decision |-> "none", hours |-> 0, found |-> 0]

Init == /\ now = 0
        /\ slot = [s \in Slots |-> "available"]
        /\ hold = [h \in Holds |-> NoHold]
        /\ order = [o \in Orders |-> NoOrder]
        /\ ledger = {}
        /\ inflight = {}
        /\ sess = [o \in Orders |-> NoSess]
        /\ cancellation = [o \in Orders |-> NoCancel]
        /\ refunds = {}
        /\ captured = [o \in Orders |-> 0]

-----------------------------------------------------------------------------
Tick == /\ now < MaxNow
        /\ now' = now + 1
        /\ UNCHANGED <<saleTables, moneyTables, cancellation, captured>>

-----------------------------------------------------------------------------
(* Holds.                                                                  *)

IsExpired(h) == hold[h].expires <= now
Stale(S) == {h \in Holds : hold[h].status = "active" /\ IsExpired(h) /\ hold[h].slot \in S}

\* _expire_active_holds on the slots S: the holds and slots it leaves.
HoldAfterHeal(S) ==
  [h \in Holds |-> IF h \in Stale(S) THEN [hold[h] EXCEPT !.status = "expired"] ELSE hold[h]]
SlotAfterHeal(S) ==
  [s \in Slots |-> IF slot[s] = "held" /\ \E h \in Stale(S) : hold[h].slot = s
                   THEN "available" ELSE slot[s]]

\* The slot, once healed, is for sale: 'available' and no active hold on it.
OpenIfUnheld(s) == \A h \in Holds : HoldAfterHeal({s})[h].slot = s
                                      => HoldAfterHeal({s})[h].status # "active"
Open(s) == /\ SlotAfterHeal({s})[s] = "available"
           /\ \A h \in Holds : HoldAfterHeal({s})[h].slot = s
                                => HoldAfterHeal({s})[h].status # "active"

\* expire_holds
Sweep == /\ Stale(Slots) # {}
         /\ hold' = HoldAfterHeal(Slots)
         /\ slot' = SlotAfterHeal(Slots)
         /\ UNCHANGED <<now, sess, moneyTables, cancellation, captured>>

\* create_hold with a key that names no hold yet, at the price the tutor asks at
\* that moment: set_tutor_session_price may change it before and after.
CreateHold(h, s, price) ==
  /\ hold[h].status = "none"
  /\ Start[s] > now
  /\ Open(s)
  /\ hold' = [HoldAfterHeal({s}) EXCEPT ![h] = [status |-> "active", slot |-> s,
                                                expires |-> now + Ttl, price |-> price]]
  /\ slot' = [SlotAfterHeal({s}) EXCEPT ![s] = "held"]
  /\ UNCHANGED <<now, sess, moneyTables, cancellation, captured>>

\* A late sweep, heal or release of an earlier hold of the slot, which need not
\* be among Holds, frees the slot by its own copy of that hold.
SlotFreedLate(s) ==
  /\ slot[s] = "held"
  /\ slot' = [slot EXCEPT ![s] = "available"]
  /\ UNCHANGED <<now, hold, sess, moneyTables, cancellation, captured>>

\* release_hold: the holds and slots it leaves.
HoldAfterRelease(h) ==
  IF hold[h].status = "active" THEN [hold EXCEPT ![h].status = "released"] ELSE hold
SlotAfterRelease(h) ==
  [s \in Slots |-> IF hold[h].status = "active" /\ hold[h].slot = s /\ slot[s] = "held"
                   THEN "available" ELSE slot[s]]

-----------------------------------------------------------------------------
(* Payments.                                                               *)

\* create_order: a live hold, charged at its snapshot.  A hold may have
\* several orders.
CreateOrder(o, h) ==
  /\ order[o].status = "none"
  /\ hold[h].status = "active"
  /\ ~IsExpired(h)
  /\ order' = [order EXCEPT ![o] = [status |-> "created", hold |-> h,
                                    amount |-> hold[h].price]]
  /\ UNCHANGED <<now, saleTables, ledger, inflight, refunds, cancellation, captured>>

\* The provider sends an event about an order and an amount: a paid one for
\* what it took from the student, once, any other at any time, early, late or
\* superseded.
Sent(o, raw, amount) == /\ order[o].status # "none"
                        /\ EventType(raw) = "paid" => captured[o] \in {0, amount}

AlreadyRecorded(id) == \E e \in ledger : e.id = id

\* Money, both directions: the event matches the order, the order its hold.
OrderAgreesWithHold(o, amount) == order[o].amount = hold[order[o].hold].price
MoneyAgrees(o, amount) == /\ amount = order[o].amount
                          /\ order[o].amount = hold[order[o].hold].price

\* handle_event up to the ledger row: nothing is written, nothing is locked,
\* and the order read here is the one every later decision looks at.
Receive(o, raw, amount) ==
  /\ Cardinality(inflight) < MaxInFlight
  /\ Sent(o, raw, amount)
  /\ ~AlreadyRecorded(EventId(o, raw))
  /\ EventType(raw) \in {"paid", "pending"} => MoneyAgrees(o, amount)
  /\ inflight' = inflight \union
                  {[order |-> o, raw |-> raw, seen |-> order[o].status, at |-> now]}
  /\ captured' = IF EventType(raw) = "paid" THEN [captured EXCEPT ![o] = amount] ELSE captured
  /\ UNCHANGED <<now, saleTables, order, ledger, refunds, cancellation>>

\* The unique index on provider_event_id admits one row; the rest of the
\* request is one transaction with it.
RecordEvent(d) ==
  /\ d \in inflight
  /\ ~AlreadyRecorded(EventId(d.order, d.raw))
  /\ ledger' = ledger \union {[id |-> EventId(d.order, d.raw), order |-> d.order,
                               type |-> EventType(d.raw)]}
  /\ inflight' = inflight \ {d}

\* The flush writes the order if its status differs from the one that was
\* read, whatever the row holds by now.
OrderWritten(d, status) ==
  IF d.seen = status THEN order ELSE [order EXCEPT ![d.order].status = status]

\* A refusal, a lost insert or a crash: everything, the ledger row included,
\* rolls back.
RollBack(d) ==
  /\ d \in inflight
  /\ inflight' = inflight \ {d}
  /\ UNCHANGED <<now, saleTables, order, ledger, refunds, cancellation, captured>>

\* create_from_paid_hold finds a session on the slot this hold was placed on.
Occupant(o) == {x \in Orders : sess[x].status # "none"
                               /\ sess[x].slot = hold[order[o].hold].slot}

\* The hold is active, and was inside its TTL when the request began.
HoldIsActive(h, at) == hold[h].status = "active"
HoldIsLive(h, at) == hold[h].status = "active" /\ hold[h].expires > at

\* A verified capture of a live hold: order paid, hold consumed, slot booked,
\* session confirmed, in one transaction.
SellSession(d) ==
  LET o == d.order
      h == order[o].hold
      s == hold[h].slot
  IN /\ EventType(d.raw) = "paid"
     /\ RecordEvent(d)
     /\ Occupant(o) = {}
     /\ HoldIsLive(h, d.at)
     /\ slot[s] = "held"
     /\ order' = OrderWritten(d, "paid")
     /\ hold' = [hold EXCEPT ![h].status = "consumed"]
     /\ slot' = [slot EXCEPT ![s] = "booked"]
     /\ sess' = [sess EXCEPT ![o] = [status |-> "confirmed", slot |-> s, version |-> 1]]
     /\ UNCHANGED <<now, refunds, cancellation, captured>>

\* A second verified capture event of an order whose session still stands on
\* the slot of the hold: recorded, nothing sold.
ReplaySession(d) ==
  /\ EventType(d.raw) = "paid"
  /\ RecordEvent(d)
  /\ d.order \in Occupant(d.order)
  /\ order' = OrderWritten(d, "paid")
  /\ UNCHANGED <<now, saleTables, refunds, cancellation, captured>>

\* A verified event overtaken by a capture it saw: recorded and not applied.
Superseded(d) == d.seen = "paid"

OutOfOrder(d) ==
  /\ EventType(d.raw) # "paid"
  /\ RecordEvent(d)
  /\ Superseded(d)
  /\ UNCHANGED <<now, saleTables, order, refunds, cancellation, captured>>

\* Failure or expiry of the payment releases the hold and its slot.
PaymentFailed(d) ==
  /\ EventType(d.raw) \in {"failed", "expired"}
  /\ RecordEvent(d)
  /\ ~Superseded(d)
  /\ order' = OrderWritten(d, EventType(d.raw))
  /\ hold' = HoldAfterRelease(order[d.order].hold)
  /\ slot' = SlotAfterRelease(order[d.order].hold)
  /\ UNCHANGED <<now, sess, refunds, cancellation, captured>>

PaymentPending(d) ==
  /\ EventType(d.raw) = "pending"
  /\ RecordEvent(d)
  /\ ~Superseded(d)
  /\ order' = OrderWritten(d, "pending")
  /\ UNCHANGED <<now, saleTables, refunds, cancellation, captured>>

-----------------------------------------------------------------------------
(* Sessions.                                                               *)

LiveStatus == {"confirmed", "rescheduled"}
Live(o) == sess[o].status \in LiveStatus

HoursBefore(o) == NotNegative(Start[sess[o].slot] - now)

\* Inside the notice window only an admin's exception moves a session.
RescheduleAllowed(o, exception) == HoursBefore(o) >= Window \/ exception

Reschedule(o, s, exception) ==
  /\ Live(o)
  /\ sess[o].version <= MaxMoves
  /\ RescheduleAllowed(o, exception)
  /\ s # sess[o].slot
  /\ Start[s] > now
  /\ SlotAfterHeal({s})[s] = "available"
  /\ hold' = HoldAfterHeal({s})
  /\ slot' = [t \in Slots |->
                CASE t = s -> "booked"
                  [] t = sess[o].slot /\ slot[t] = "booked" -> "available"
                  [] OTHER -> SlotAfterHeal({s})[t]]
  /\ sess' = [sess EXCEPT ![o] = [status |-> "rescheduled", slot |-> s, version |-> @.version + 1]]
  /\ UNCHANGED <<now, moneyTables, cancellation, captured>>

\* payments.refund's guards on what was refunded before.
RefundsOf(o) == {r \in refunds : r.order = o}
Refunded(o) == MapThenSumSet(LAMBDA r : r.amount, RefundsOf(o))
RefundAllowed(o, amount) ==
  /\ order[o].status = "paid"
  /\ amount > 0
  /\ \A r \in RefundsOf(o) : r.status # "succeeded"
  /\ Refunded(o) + amount <= order[o].amount

CapturedBy(o) == IF order[o].status = "paid" THEN order[o].amount ELSE 0

Assessment(o, role, exception, amount) ==
  Assess(CapturedBy(o), HoursBefore(o), role, exception, role = "admin", amount, Window)

\* The provider answers the refund with succeeded or pending; a retryable
\* failure is stored as pending, any other rolls the cancellation back.
RefundRows(o, a, status) ==
  IF RefundDue(a) THEN {[order |-> o, amount |-> a.amount, reason |-> a.reason, status |-> status]}
  ELSE {}

Cancel(o, role, exception, amount, status) ==
  LET a == Assessment(o, role, exception, amount) IN
  /\ Live(o)
  /\ exception => role = "admin"
  /\ a.decision \in Decisions
  /\ RefundDue(a) => RefundAllowed(o, a.amount)
  /\ cancellation' = [cancellation EXCEPT ![o] =
                        [role |-> role, decision |-> a.decision, hours |-> HoursBefore(o),
                         found |-> CapturedBy(o)]]
  /\ sess' = [sess EXCEPT ![o].status = "cancelled", ![o].version = @ + 1]
  /\ slot' = [slot EXCEPT ![sess[o].slot] = "cancelled"]
  /\ refunds' = refunds \union RefundRows(o, a, status)
  /\ UNCHANGED <<now, hold, order, ledger, inflight, captured>>

HasEnded(o) == now > Start[sess[o].slot]   \* a session lasts one tick

\* attendance.record completes the session; SessionAttendance has the rest.
RecordAttendance(o) ==
  /\ Live(o)
  /\ HasEnded(o)
  /\ sess' = [sess EXCEPT ![o].status = "completed", ![o].version = @ + 1]
  /\ UNCHANGED <<now, slot, hold, moneyTables, cancellation, captured>>

-----------------------------------------------------------------------------
Apply(d) == \/ SellSession(d) \/ ReplaySession(d) \/ OutOfOrder(d)
            \/ PaymentFailed(d) \/ PaymentPending(d) \/ RollBack(d)

Next == \/ Tick
        \/ Sweep
        \/ \E s \in Slots : SlotFreedLate(s)
        \/ \E h \in Holds, s \in Slots, a \in Prices : CreateHold(h, s, a)
        \/ \E o \in Orders, h \in Holds : CreateOrder(o, h)
        \/ \E o \in Orders, raw \in RawEvents, a \in Amounts : Receive(o, raw, a)
        \/ \E d \in inflight : Apply(d)
        \/ \E o \in Orders, s \in Slots, exception \in BOOLEAN : Reschedule(o, s, exception)
        \/ \E o \in Orders, role \in Roles, exception \in BOOLEAN, amount \in ExceptionAmounts,
              status \in {"succeeded", "pending"} : Cancel(o, role, exception, amount, status)
        \/ \E o \in Orders : RecordAttendance(o)

Spec == Init /\ [][Next]_vars
-----------------------------------------------------------------------------
(* Properties                                                              *)

TypeOK == /\ now \in Nat
          /\ slot \in [Slots -> SlotStatus]
          /\ hold \in [Holds -> HoldRow]
          /\ order \in [Orders -> OrderRow]
          /\ ledger \subseteq EventRow
          /\ inflight \subseteq Delivery
          /\ sess \in [Orders -> SessRow]
          /\ cancellation \in [Orders -> CancelRow]
          /\ refunds \subseteq RefundRow
          /\ captured \in [Orders -> Amounts \union {0}]

Sold(o) == sess[o].status # "none"
OnSlot(s) == {o \in Orders : Sold(o) /\ sess[o].slot = s}

\* A session stands on money: the provider took the price the hold quoted, the
\* order consumed its hold, which no other order did, and an order that says
\* 'paid' was sold its session.  The tutor's later prices, wrong captures, and
\* early, late, racing and duplicated events change nothing about that.
SessionIsPaidFor ==
  \A o \in Orders :
    /\ order[o].status = "paid" => Sold(o)
    /\ Sold(o) => /\ hold[order[o].hold].status = "consumed"
                  /\ captured[o] = hold[order[o].hold].price
                  /\ \A x \in Orders : Sold(x) /\ order[x].hold = order[o].hold => x = o

\* A session is sold only for a capture that reached the service inside the
\* TTL of the hold it consumes, however long the request then took.
SoldWithinTtl ==
  [][\A o \in Orders : ~Sold(o) /\ Sold(o)' =>
        \E d \in inflight : /\ d.order = o
                            /\ EventType(d.raw) = "paid"
                            /\ hold[order[o].hold].expires > d.at]_vars

\* Money goes back only for a cancelled session, at most once per order and
\* never more than was captured, and it is what the decision says of the money
\* the cancellation found: all of it for a tutor's cancellation or full notice,
\* none of it for a late student.
RefundFollowsPolicy ==
  /\ \A o \in Orders : sess[o].status = "cancelled" <=> cancellation[o].decision # "none"
  /\ \A r \in refunds : /\ cancellation[r.order].decision \in {"full_refund", "admin_exception"}
                        /\ r.amount <= captured[r.order]
                        /\ RefundsOf(r.order) = {r}
  /\ \A o \in Orders :
        LET c == cancellation[o]
            inTime == c.hours >= Window
        IN  /\ (c.role = "tutor" \/ (c.role = "student" /\ inTime)) /\ c.found > 0
                 => \E r \in RefundsOf(o) : r.amount = c.found
            /\ c.role = "student" /\ ~inTime => RefundsOf(o) = {}

-----------------------------------------------------------------------------
(* What the documents say and the code does not keep.                      *)

\* A tutor's cancellation refunds the student in full (sessions.py, cancel:
\* "tutor cancellation -> full refund always").
TutorCancelRefundsAll ==
  \A o \in Orders : cancellation[o].role = "tutor"
                      => \E r \in RefundsOf(o) : r.amount = captured[o]

\* A session that is going to take place is on a paid order (payments.py: the
\* ledger does not end up "contradicting a live booking").
LiveSessionIsPaid == \A o \in Orders : Live(o) => order[o].status = "paid"

\* An event is refused as a duplicate only if it was applied before: no capture
\* finds its id taken by an event of another kind (payments.py: "an
\* already-applied event raises DUPLICATE_EVENT").
DuplicateMeansApplied ==
  \A o \in Orders, raw \in RawEvents, e \in ledger :
    EventType(raw) = "paid" /\ captured[o] # 0 /\ e.id = EventId(o, raw) => e.type = "paid"

-----------------------------------------------------------------------------
\* The slot sale these handlers implement: a slot is owned by the order whose
\* session stands on it, until that session is cancelled.
Sale == INSTANCE SlotSale WITH
          owners <- [s \in Slots |-> {o \in OnSlot(s) : sess[o].status # "cancelled"}],
          retired <- {s \in Slots : slot[s] = "cancelled"},
          sold <- {o \in Orders : Sold(o)}

\* Every request is a sale, a move, a retirement or nothing at all of SlotSale.
ImplementsSlotSale == Sale!SaleSpec
=============================================================================
