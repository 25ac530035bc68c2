----------------------- MODULE TutoringBookingProofs ------------------------
(* The booking core for any number of slots, holds, orders and prices, any *)
(* notice window and TTL, and any events the provider sends, with their    *)
(* reads of the order and their writes apart.                              *)
EXTENDS TutoringBooking, TLAPS

\* Rows point at rows: a hold at the slot it was placed on and the price it
\* was quoted, an order at its hold and that price, a session at its order.
RowsInv ==
  /\ \A h \in Holds : hold[h].status # "none" => hold[h].slot \in Slots /\ hold[h].price \in Prices
  /\ \A o \in Orders : order[o].status # "none" =>
        /\ order[o].hold \in Holds
        /\ hold[order[o].hold].status # "none"
        /\ order[o].amount = hold[order[o].hold].price
  /\ \A o \in Orders : Sold(o) => order[o].status # "none"

\* A session stands alone on its slot, which says so.
Standing ==
  \A o \in Orders : Sold(o) =>
    /\ sess[o].slot \in Slots
    /\ slot[sess[o].slot] = IF sess[o].status = "cancelled" THEN "cancelled" ELSE "booked"
    /\ \A x \in Orders : Sold(x) /\ sess[x].slot = sess[o].slot => x = o

\* A webhook in flight is about an order, and a verified capture took its price.
DeliveryInv ==
  \A d \in inflight :
    /\ order[d.order].status # "none"
    /\ EventType(d.raw) = "paid" => captured[d.order] = order[d.order].amount

BookingInv == TypeOK /\ RowsInv /\ SessionIsPaidFor /\ Standing /\ DeliveryInv

\* The empty calendar satisfies the invariant.
LEMMA BookingInitInv == Init => BookingInv
<1> SUFFICES ASSUME Init PROVE BookingInv
  OBVIOUS
<1> USE BookingAssumption DEF Init, NoHold, NoOrder, NoSess, NoCancel
<1>1. TypeOK
  BY DEF TypeOK, SlotStatus, HoldRow, HoldStatus, OrderRow, OrderStatus, SessRow, SessionStatus,
         CancelRow, Decisions, EventRow, RefundRow
<1>2. RowsInv /\ SessionIsPaidFor /\ Standing /\ DeliveryInv
  BY DEF RowsInv, SessionIsPaidFor, Standing, DeliveryInv, Sold
<1> QED
  BY <1>1, <1>2 DEF BookingInv

-----------------------------------------------------------------------------
(* What a step may do to the tables, seen from outside.                    *)

\* A hold stays at its slot and price and is consumed for good.
HoldsKept ==
  \A h \in Holds :
    /\ hold[h].status # "none" => /\ hold'[h].status # "none"
                                  /\ hold'[h].slot = hold[h].slot
                                  /\ hold'[h].price = hold[h].price
    /\ hold[h].status = "consumed" => hold'[h].status = "consumed"
    /\ hold'[h].status # "none" => hold'[h].slot \in Slots /\ hold'[h].price \in Prices

\* An order stays at its hold and amount, and only a sale makes it 'paid'.
OrdersKept ==
  \A o \in Orders :
    /\ order[o].status # "none" => /\ order'[o].status # "none"
                                   /\ order'[o].hold = order[o].hold
                                   /\ order'[o].amount = order[o].amount
    /\ order'[o].status # "none" => /\ order'[o].hold \in Holds
                                    /\ hold[order'[o].hold].status # "none"
                                    /\ order'[o].amount = hold[order'[o].hold].price
    /\ order'[o].status = "paid" => Sold(o)'

\* The provider takes the money of an order once.
CapturedKept == \A o \in Orders : captured[o] # 0 => captured'[o] = captured[o]

\* No session is sold, moved or cancelled, and no slot is taken from one.
SessionsKept ==
  /\ \A o \in Orders : /\ Sold(o)' <=> Sold(o)
                       /\ sess'[o].slot = sess[o].slot
                       /\ sess'[o].status = "cancelled" <=> sess[o].status = "cancelled"
  /\ \A s \in Slots : /\ slot[s] \in {"booked", "cancelled"} => slot'[s] = slot[s]
                      /\ slot'[s] = "cancelled" => slot[s] = "cancelled"

\* An order's amount is money.
LEMMA AmountIsMoney ==
  ASSUME BookingInv, NEW o \in Orders, order[o].status # "none"
  PROVE  order[o].amount \in Prices /\ order[o].amount # 0 /\ order[o].amount \in Nat
  BY BookingAssumption DEF BookingInv, RowsInv

\* Rows and money survive a step that sells nothing.
LEMMA MoneyStep ==
  ASSUME BookingInv, HoldsKept, OrdersKept, CapturedKept,
         \A o \in Orders : Sold(o)' <=> Sold(o)
  PROVE  RowsInv' /\ SessionIsPaidFor'
<1> USE DEF BookingInv
<1>1. RowsInv'
  BY DEF RowsInv, HoldsKept, OrdersKept
<1>2. \A o \in Orders : Sold(o) => /\ order[o].status # "none"
                                   /\ order[o].hold \in Holds
                                   /\ order'[o].hold = order[o].hold
                                   /\ order[o].amount = hold[order[o].hold].price
                                   /\ hold[order[o].hold].status # "none"
  BY DEF RowsInv, OrdersKept
<1>3. \A o \in Orders : Sold(o) => captured[o] # 0 /\ captured'[o] = captured[o]
  BY <1>2, AmountIsMoney DEF SessionIsPaidFor, CapturedKept
<1>4. \A o \in Orders : Sold(o) => /\ hold'[order[o].hold].status = "consumed"
                                   /\ hold'[order[o].hold].price = hold[order[o].hold].price
  BY <1>2 DEF SessionIsPaidFor, HoldsKept
<1>5. SessionIsPaidFor'
  BY <1>2, <1>3, <1>4 DEF SessionIsPaidFor, OrdersKept
<1> QED
  BY <1>1, <1>5

\* So do the webhooks in flight, if the step begins none.
LEMMA DeliveryStep ==
  ASSUME BookingInv, OrdersKept, CapturedKept, inflight' \subseteq inflight
  PROVE  DeliveryInv'
<1> SUFFICES ASSUME NEW d \in inflight
             PROVE  /\ order'[d.order].status # "none"
                    /\ EventType(d.raw) = "paid" => captured'[d.order] = order'[d.order].amount
  BY DEF DeliveryInv
<1>1. d.order \in Orders /\ order[d.order].status # "none"
  BY DEF BookingInv, DeliveryInv, TypeOK, Delivery
<1> QED
  BY <1>1, AmountIsMoney DEF BookingInv, DeliveryInv, OrdersKept, CapturedKept

\* A step that leaves the sessions where they are leaves them standing.
LEMMA StandingStep ==
  ASSUME BookingInv, SessionsKept
  PROVE  Standing'
  BY DEF BookingInv, Standing, SessionsKept

\* What is left of a step that touches neither sessions nor money.
QuietStep == /\ TypeOK'
             /\ HoldsKept /\ OrdersKept /\ CapturedKept /\ SessionsKept
             /\ UNCHANGED <<refunds, cancellation>>
             /\ DeliveryInv'

\* Tables a step leaves alone are kept.
LEMMA OrdersUntouched ==
  ASSUME BookingInv, UNCHANGED order, \A o \in Orders : Sold(o) => Sold(o)'
  PROVE  OrdersKept
  BY DEF BookingInv, RowsInv, SessionIsPaidFor, OrdersKept

LEMMA HoldsUntouched ==
  ASSUME BookingInv, UNCHANGED hold
  PROVE  HoldsKept
  BY DEF BookingInv, RowsInv, HoldsKept

LEMMA SessionsUntouched ==
  ASSUME UNCHANGED sess,
         \A s \in Slots : slot'[s] # slot[s] => slot[s] \in {"available", "held"}
                                                /\ slot'[s] \in {"available", "held"}
  PROVE  SessionsKept
  BY DEF SessionsKept, Sold

\* What _expire_active_holds leaves of holds and slots.
LEMMA HealFacts ==
  ASSUME BookingInv, NEW S \in SUBSET Slots
  PROVE  /\ HoldAfterHeal(S) \in [Holds -> HoldRow]
         /\ SlotAfterHeal(S) \in [Slots -> SlotStatus]
         /\ \A h \in Holds : /\ HoldAfterHeal(S)[h].slot = hold[h].slot
                             /\ HoldAfterHeal(S)[h].price = hold[h].price
                             /\ \/ HoldAfterHeal(S)[h].status = hold[h].status
                                \/ /\ hold[h].status = "active"
                                   /\ HoldAfterHeal(S)[h].status = "expired"
         /\ \A s \in Slots : SlotAfterHeal(S)[s] # slot[s] =>
               slot[s] = "held" /\ SlotAfterHeal(S)[s] = "available"
<1>1. hold \in [Holds -> HoldRow] /\ slot \in [Slots -> SlotStatus]
  BY DEF BookingInv, TypeOK
<1>2. /\ HoldAfterHeal(S) \in [Holds -> HoldRow]
      /\ \A h \in Holds : /\ HoldAfterHeal(S)[h].slot = hold[h].slot
                          /\ HoldAfterHeal(S)[h].price = hold[h].price
                          /\ \/ HoldAfterHeal(S)[h].status = hold[h].status
                             \/ /\ hold[h].status = "active"
                                /\ HoldAfterHeal(S)[h].status = "expired"
  BY <1>1 DEF HoldAfterHeal, HoldRow, HoldStatus, Stale
<1>3. /\ SlotAfterHeal(S) \in [Slots -> SlotStatus]
      /\ \A s \in Slots : SlotAfterHeal(S)[s] # slot[s] =>
            slot[s] = "held" /\ SlotAfterHeal(S)[s] = "available"
  BY <1>1 DEF SlotAfterHeal, SlotStatus
<1> QED
  BY <1>2, <1>3

-----------------------------------------------------------------------------
(* The steps that touch no session.                                        *)

\* The clock.
LEMMA ClockStep == ASSUME BookingInv, Tick \/ UNCHANGED vars PROVE QuietStep
<1> USE DEF BookingInv, Tick, vars, saleTables, moneyTables
<1>1. TypeOK'
  BY DEF TypeOK
<1>2. HoldsKept /\ OrdersKept /\ SessionsKept
  BY HoldsUntouched, OrdersUntouched, SessionsUntouched DEF Sold
<1> QED
  BY <1>1, <1>2 DEF QuietStep, CapturedKept, DeliveryInv

\* Sweeps and late sweeps and releases close holds and free slots.
LEMMA SweepStep ==
  ASSUME BookingInv, Sweep \/ \E s \in Slots : SlotFreedLate(s)
  PROVE  QuietStep
<1> USE DEF BookingInv, moneyTables
<1>1. CASE Sweep
  <2>1. TypeOK'
    BY <1>1, HealFacts DEF Sweep, TypeOK
  <2>2. HoldsKept
    BY <1>1, HealFacts DEF Sweep, HoldsKept, RowsInv
  <2>3. SessionsKept
    BY <1>1, HealFacts, SessionsUntouched DEF Sweep
  <2>4. OrdersKept
    BY <1>1, OrdersUntouched DEF Sweep, Sold
  <2> QED
    BY <1>1, <2>1, <2>2, <2>3, <2>4 DEF Sweep, QuietStep, CapturedKept, DeliveryInv
<1>2. ASSUME NEW s \in Slots, SlotFreedLate(s) PROVE QuietStep
  <2> USE <1>2 DEF SlotFreedLate
  <2>1. TypeOK'
    BY DEF TypeOK, SlotStatus
  <2>2. HoldsKept /\ OrdersKept /\ SessionsKept
    BY HoldsUntouched, OrdersUntouched, SessionsUntouched DEF Sold, TypeOK
  <2> QED
    BY <2>1, <2>2 DEF QuietStep, CapturedKept, DeliveryInv
<1> QED
  BY <1>1, <1>2

\* A hold is placed on a slot that is for sale.
LEMMA CreateHoldStep ==
  ASSUME BookingInv, NEW h \in Holds, NEW s \in Slots, NEW price \in Prices,
         CreateHold(h, s, price)
  PROVE  QuietStep
<1> USE DEF BookingInv, moneyTables
<1> DEFINE healed == HoldAfterHeal({s})
           calendar == SlotAfterHeal({s})
           row == [status |-> "active", slot |-> s, expires |-> now + Ttl, price |-> price]
<1>1. /\ healed \in [Holds -> HoldRow]
      /\ calendar \in [Slots -> SlotStatus]
      /\ \A g \in Holds : /\ healed[g].slot = hold[g].slot
                          /\ healed[g].price = hold[g].price
                          /\ \/ healed[g].status = hold[g].status
                             \/ hold[g].status = "active" /\ healed[g].status = "expired"
      /\ \A t \in Slots : calendar[t] # slot[t] => slot[t] = "held" /\ calendar[t] = "available"
  BY HealFacts
<1>2. /\ hold[h].status = "none" /\ calendar[s] = "available"
      /\ hold' = [healed EXCEPT ![h] = row] /\ slot' = [calendar EXCEPT ![s] = "held"]
      /\ UNCHANGED <<now, sess, order, ledger, inflight, refunds, cancellation, captured>>
  BY DEF CreateHold, Open
<1> HIDE DEF healed, calendar
<1>3. row \in HoldRow
  BY BookingAssumption DEF TypeOK, HoldRow, HoldStatus
<1>4. TypeOK'
  BY <1>1, <1>2, <1>3 DEF TypeOK, SlotStatus
<1>5. HoldsKept
  <2>1. hold'[h].slot = s /\ hold'[h].price = price /\ \A g \in Holds \ {h} : hold'[g] = healed[g]
    BY <1>1, <1>2
  <2> QED
    BY <1>1, <1>2, <2>1 DEF HoldsKept, RowsInv
<1>6. SessionsKept
  <2>1. \A t \in Slots : slot'[t] # slot[t] => slot[t] \in {"available", "held"}
                                               /\ slot'[t] \in {"available", "held"}
    BY <1>1, <1>2
  <2> QED
    BY <1>2, <2>1, SessionsUntouched
<1>7. OrdersKept
  BY <1>2, OrdersUntouched DEF Sold
<1> QED
  BY <1>2, <1>4, <1>5, <1>6, <1>7 DEF QuietStep, CapturedKept, DeliveryInv

\* An order opened on a live hold is charged what the hold quotes.
LEMMA CreateOrderStep ==
  ASSUME BookingInv, NEW o \in Orders, NEW h \in Holds, CreateOrder(o, h)
  PROVE  QuietStep
<1> USE DEF BookingInv, CreateOrder, saleTables
<1>1. TypeOK'
  BY DEF TypeOK, OrderRow, OrderStatus, HoldRow
<1>2. order \in [Orders -> OrderRow] /\ order[o].status = "none"
  BY DEF TypeOK
<1>3. OrdersKept
  BY <1>2 DEF OrdersKept, RowsInv, SessionIsPaidFor, Sold
<1>4. HoldsKept /\ SessionsKept
  BY HoldsUntouched, SessionsUntouched
<1>5. DeliveryInv'
  BY <1>2 DEF DeliveryInv
<1> QED
  BY <1>1, <1>3, <1>4, <1>5 DEF QuietStep, CapturedKept

\* A webhook reads the order; the provider may have taken the money.
LEMMA ReceiveStep ==
  ASSUME BookingInv, NEW o \in Orders, NEW raw \in RawEvents, NEW amount \in Amounts,
         Receive(o, raw, amount)
  PROVE  QuietStep
<1> USE DEF BookingInv, Receive, saleTables
<1> DEFINE d == [order |-> o, raw |-> raw, seen |-> order[o].status, at |-> now]
<1>1. order \in [Orders -> OrderRow] /\ captured \in [Orders -> Amounts \union {0}] /\ now \in Nat
  BY DEF TypeOK
<1>2. d \in Delivery
  BY <1>1 DEF Delivery, OrderRow
<1>3. TypeOK'
  BY <1>2 DEF TypeOK
<1>4. HoldsKept /\ OrdersKept /\ SessionsKept
  BY HoldsUntouched, OrdersUntouched, SessionsUntouched DEF Sold
<1>5. /\ \A x \in Orders \ {o} : captured'[x] = captured[x]
      /\ captured'[o] = IF EventType(raw) = "paid" THEN amount ELSE captured[o]
      /\ EventType(raw) = "paid" => amount = order[o].amount /\ captured[o] \in {0, amount}
      /\ order[o].status # "none"
  BY <1>1 DEF MoneyAgrees, Sent
<1>6. CapturedKept
  BY <1>5 DEF CapturedKept
<1>7. DeliveryInv'
  <2>1. inflight' = inflight \union {d} /\ d.order = o /\ d.raw = raw
    OBVIOUS
  <2> HIDE DEF d
  <2>2. \A e \in inflight : e.order \in Orders
    BY DEF TypeOK, Delivery
  <2> QED
    BY <1>5, <2>1, <2>2 DEF DeliveryInv
<1> QED
  BY <1>3, <1>4, <1>6, <1>7 DEF QuietStep

\* Recording an event writes a well-typed row and ends its request.
LEMMA RecordTyped ==
  ASSUME BookingInv, NEW d \in inflight, RecordEvent(d)
  PROVE  ledger' \subseteq EventRow /\ inflight' \subseteq inflight
<1>1. d.order \in Orders /\ d.raw \in RawEvents
  BY DEF BookingInv, TypeOK, Delivery
<1>2. EventId(d.order, d.raw) \in EventIds /\ EventType(d.raw) \in EventTypes
  BY <1>1 DEF EventId, EventIds, EventType, EventTypes
<1> QED
  BY <1>1, <1>2 DEF BookingInv, TypeOK, RecordEvent, EventRow

\* The status a webhook writes leaves the rest of the order as it was.
LEMMA OrderWrittenFacts ==
  ASSUME BookingInv, NEW d \in inflight, NEW status \in OrderStatus \ {"none"}
  PROVE  /\ OrderWritten(d, status) \in [Orders -> OrderRow]
         /\ d.order \in Orders
         /\ \A o \in Orders : /\ OrderWritten(d, status)[o].hold = order[o].hold
                              /\ OrderWritten(d, status)[o].amount = order[o].amount
                              /\ \/ OrderWritten(d, status)[o].status = order[o].status
                                 \/ /\ o = d.order
                                    /\ OrderWritten(d, status)[o].status = status
<1>1. order \in [Orders -> OrderRow] /\ d.order \in Orders
  BY DEF BookingInv, TypeOK, Delivery
<1> QED
  BY <1>1 DEF OrderWritten, OrderRow

\* An event that writes no capture: it is recorded, the status of the order may
\* be written, and its active hold may be released.
LEMMA StatusStep ==
  ASSUME BookingInv, NEW d \in inflight, RecordEvent(d), NEW status \in OrderStatus \ {"none"},
         order' = OrderWritten(d, status),
         status = "paid" => Sold(d.order),
         hold' = hold \/ hold' = HoldAfterRelease(order[d.order].hold),
         slot' = slot \/ slot' = SlotAfterRelease(order[d.order].hold),
         UNCHANGED <<now, sess, refunds, cancellation, captured>>
  PROVE  QuietStep
<1> DEFINE h == order[d.order].hold
<1>1. /\ order' \in [Orders -> OrderRow]
      /\ d.order \in Orders
      /\ \A o \in Orders : /\ order'[o].hold = order[o].hold
                           /\ order'[o].amount = order[o].amount
                           /\ \/ order'[o].status = order[o].status
                              \/ o = d.order /\ order'[o].status = status
  BY OrderWrittenFacts
<1> USE DEF BookingInv
<1>2. order[d.order].status # "none" /\ h \in Holds
  BY <1>1 DEF DeliveryInv, RowsInv
<1>3. hold \in [Holds -> HoldRow] /\ slot \in [Slots -> SlotStatus]
  BY DEF TypeOK
<1> HIDE DEF h
<1>4. /\ hold' \in [Holds -> HoldRow]
      /\ \A g \in Holds : /\ hold'[g].slot = hold[g].slot
                          /\ hold'[g].price = hold[g].price
                          /\ \/ hold'[g].status = hold[g].status
                             \/ hold[g].status = "active" /\ hold'[g].status = "released"
  <2>1. HoldAfterRelease(h) =
          IF hold[h].status = "active" THEN [hold EXCEPT ![h].status = "released"] ELSE hold
    BY DEF HoldAfterRelease
  <2>2. hold' = hold \/ hold' = HoldAfterRelease(h)
    BY DEF h
  <2> QED
    BY <1>2, <1>3, <2>1, <2>2 DEF HoldRow, HoldStatus
<1>5. /\ slot' \in [Slots -> SlotStatus]
      /\ \A t \in Slots : slot'[t] # slot[t] => slot[t] \in {"available", "held"}
                                                /\ slot'[t] \in {"available", "held"}
  BY <1>3 DEF SlotAfterRelease, SlotStatus
<1>6. TypeOK'
  BY <1>1, <1>4, <1>5, RecordTyped DEF TypeOK
<1>7. HoldsKept
  BY <1>4 DEF HoldsKept, RowsInv
<1>8. SessionsKept
  BY <1>5, SessionsUntouched
<1>10. OrdersKept
  BY <1>1, <1>2 DEF OrdersKept, RowsInv, SessionIsPaidFor, Sold
<1>11. CapturedKept
  BY DEF CapturedKept
<1>12. DeliveryInv'
  BY <1>10, <1>11, RecordTyped, DeliveryStep
<1> QED
  BY <1>6, <1>7, <1>8, <1>10, <1>11, <1>12 DEF QuietStep

\* Every answer to a webhook but the sale of a session.
LEMMA WebhookStep ==
  ASSUME BookingInv, NEW d \in inflight, Apply(d)
  PROVE  SellSession(d) \/ QuietStep
<1> USE DEF saleTables
<1>1. CASE RollBack(d)
  <2>1. TypeOK'
    BY <1>1 DEF RollBack, BookingInv, TypeOK
  <2>2. HoldsKept /\ OrdersKept /\ SessionsKept
    BY <1>1, HoldsUntouched, OrdersUntouched, SessionsUntouched DEF RollBack, Sold
  <2> QED
    BY <1>1, <2>1, <2>2 DEF RollBack, QuietStep, CapturedKept, BookingInv, DeliveryInv
<1>2. CASE OutOfOrder(d)
  <2>1. TypeOK'
    BY <1>2, RecordTyped DEF OutOfOrder, BookingInv, TypeOK
  <2>2. HoldsKept /\ OrdersKept /\ SessionsKept
    BY <1>2, HoldsUntouched, OrdersUntouched, SessionsUntouched DEF OutOfOrder, Sold
  <2> QED
    BY <1>2, <2>1, <2>2, RecordTyped
    DEF OutOfOrder, QuietStep, CapturedKept, BookingInv, DeliveryInv
<1>3. CASE ReplaySession(d)
  <2>1. Sold(d.order) /\ "paid" \in OrderStatus \ {"none"}
    BY <1>3 DEF ReplaySession, Occupant, Sold, OrderStatus
  <2> QED
    BY <1>3, <2>1, StatusStep DEF ReplaySession
<1>4. CASE PaymentPending(d)
  <2>1. "pending" \in OrderStatus \ {"none"} /\ "pending" # "paid"
    BY DEF OrderStatus
  <2> QED
    BY <1>4, <2>1, StatusStep DEF PaymentPending
<1>5. CASE PaymentFailed(d)
  <2>1. EventType(d.raw) \in OrderStatus \ {"none"} /\ EventType(d.raw) # "paid"
    BY <1>5 DEF PaymentFailed, OrderStatus
  <2> QED
    BY <1>5, <2>1, StatusStep DEF PaymentFailed
<1> QED
  BY <1>1, <1>2, <1>3, <1>4, <1>5 DEF Apply

\* A session that is held is completed and stays where it is.
LEMMA AttendanceStep ==
  ASSUME BookingInv, NEW o \in Orders, RecordAttendance(o)
  PROVE  QuietStep
<1> USE DEF BookingInv, RecordAttendance, moneyTables
<1>1. sess \in [Orders -> SessRow] /\ sess[o].status \in {"confirmed", "rescheduled"}
  BY DEF TypeOK, Live, LiveStatus
<1>2. /\ sess' \in [Orders -> SessRow]
      /\ sess'[o].status = "completed" /\ sess'[o].slot = sess[o].slot
      /\ \A x \in Orders \ {o} : sess'[x] = sess[x]
  BY <1>1 DEF SessRow, SessionStatus
<1>3. TypeOK'
  BY <1>2 DEF TypeOK
<1>4. SessionsKept
  BY <1>1, <1>2 DEF SessionsKept, Sold
<1>5. HoldsKept /\ OrdersKept
  BY <1>4, HoldsUntouched, OrdersUntouched DEF SessionsKept
<1> QED
  BY <1>3, <1>4, <1>5 DEF QuietStep, CapturedKept, DeliveryInv

\* Every step sells, moves or cancels a session, or is quiet about them.
LEMMA StepsClassified ==
  ASSUME BookingInv, [Next]_vars
  PROVE  \/ \E d \in inflight : SellSession(d)
         \/ \E o \in Orders, s \in Slots, exception \in BOOLEAN : Reschedule(o, s, exception)
         \/ \E o \in Orders, role \in Roles, exception \in BOOLEAN, amount \in ExceptionAmounts,
               status \in {"succeeded", "pending"} : Cancel(o, role, exception, amount, status)
         \/ QuietStep
  BY ClockStep, SweepStep, CreateHoldStep, CreateOrderStep, ReceiveStep, WebhookStep,
     AttendanceStep DEF Next

-----------------------------------------------------------------------------
(* The steps that sell, move and cancel sessions.                          *)

\* A capture sells a session: the hold is consumed, the slot is its own.
LEMMA SellSessionStep ==
  ASSUME BookingInv, NEW d \in inflight, SellSession(d)
  PROVE  BookingInv'
<1> USE DEF BookingInv
<1> DEFINE o == d.order
           h == order[o].hold
           s == hold[h].slot
           row == [status |-> "confirmed", slot |-> s, version |-> 1]
<1>1. /\ EventType(d.raw) = "paid" /\ RecordEvent(d)
      /\ Occupant(o) = {} /\ hold[h].status = "active" /\ slot[s] = "held"
      /\ order' = OrderWritten(d, "paid")
      /\ hold' = [hold EXCEPT ![h].status = "consumed"]
      /\ slot' = [slot EXCEPT ![s] = "booked"]
      /\ sess' = [sess EXCEPT ![o] = row]
      /\ UNCHANGED <<now, refunds, cancellation, captured>>
  BY DEF SellSession, HoldIsLive
<1>2. /\ o \in Orders /\ order[o].status # "none" /\ captured[o] = order[o].amount
      /\ hold \in [Holds -> HoldRow] /\ slot \in [Slots -> SlotStatus]
      /\ sess \in [Orders -> SessRow] /\ order \in [Orders -> OrderRow]
  BY <1>1 DEF DeliveryInv, TypeOK, Delivery
<1>3. h \in Holds /\ s \in Slots /\ captured[o] = hold[h].price /\ hold[h].price \in Prices
  BY <1>1, <1>2 DEF RowsInv
<1>4. ~Sold(o) /\ \A x \in Orders : Sold(x) => order[x].hold # h
  BY <1>1, <1>2 DEF SessionIsPaidFor
<1>5. "paid" \in OrderStatus \ {"none"}
  BY DEF OrderStatus
<1>6. /\ order' \in [Orders -> OrderRow]
      /\ \A x \in Orders : /\ order'[x].hold = order[x].hold
                           /\ order'[x].amount = order[x].amount
                           /\ \/ order'[x].status = order[x].status
                              \/ x = o /\ order'[x].status = "paid"
  BY <1>1, <1>5, OrderWrittenFacts
<1> HIDE DEF s, h, o
<1>7. /\ sess' \in [Orders -> SessRow]
      /\ sess'[o].status = "confirmed" /\ sess'[o].slot = s
      /\ \A x \in Orders \ {o} : sess'[x] = sess[x]
  BY <1>1, <1>2, <1>3 DEF SessRow, SessionStatus
<1>8. /\ hold' \in [Holds -> HoldRow]
      /\ hold'[h].status = "consumed" /\ hold'[h].slot = hold[h].slot
      /\ hold'[h].price = hold[h].price
      /\ \A g \in Holds \ {h} : hold'[g] = hold[g]
  BY <1>1, <1>2, <1>3 DEF HoldRow, HoldStatus
<1>9. /\ slot' \in [Slots -> SlotStatus] /\ slot'[s] = "booked"
      /\ \A t \in Slots \ {s} : slot'[t] = slot[t]
  BY <1>1, <1>2, <1>3 DEF SlotStatus
<1>10. \A x \in Orders : Sold(x)' <=> Sold(x) \/ x = o
  BY <1>2, <1>7 DEF Sold
<1>11. TypeOK'
  BY <1>1, <1>6, <1>7, <1>8, <1>9, RecordTyped DEF TypeOK
<1>12. \A g \in Holds : /\ hold'[g].slot = hold[g].slot
                        /\ hold'[g].price = hold[g].price
                        /\ hold'[g].status # "none" <=> hold[g].status # "none"
                        /\ hold[g].status = "consumed" => hold'[g].status = "consumed"
  BY <1>1, <1>8 DEF h
<1>13. RowsInv'
  BY <1>2, <1>6, <1>10, <1>12 DEF RowsInv
<1>14. DeliveryInv'
  BY <1>1, <1>6, RecordTyped DEF DeliveryInv, TypeOK, Delivery
<1>15. SessionIsPaidFor'
  <2>1. \A x \in Orders : order'[x].status = "paid" => Sold(x)'
    BY <1>6, <1>10 DEF SessionIsPaidFor
  <2>2. \A x \in Orders : Sold(x) => order'[x].hold \in Holds /\ order'[x].hold # h
    BY <1>4, <1>6 DEF RowsInv
  <2>3. order'[o].hold = h
    BY <1>2, <1>6 DEF h
  <2>4. \A x \in Orders : Sold(x)' => /\ hold'[order'[x].hold].status = "consumed"
                                      /\ captured'[x] = hold'[order'[x].hold].price
    BY <1>1, <1>3, <1>6, <1>8, <1>10, <1>12, <2>2, <2>3 DEF SessionIsPaidFor
  <2>5. \A x, y \in Orders : Sold(x)' /\ Sold(y)' /\ order'[y].hold = order'[x].hold => y = x
    BY <1>6, <1>10, <2>2, <2>3 DEF SessionIsPaidFor
  <2> QED
    BY <2>1, <2>4, <2>5 DEF SessionIsPaidFor
<1>16. Standing'
  <2>1. \A x \in Orders : Sold(x) => sess[x].slot \in Slots \ {s} /\ x # o
    BY <1>1, <1>4 DEF Occupant, Sold, Standing, s, h, o
  <2>2. \A x \in Orders : Sold(x) => sess'[x] = sess[x] /\ slot'[sess[x].slot] = slot[sess[x].slot]
    BY <1>7, <1>9, <2>1
  <2>3. \A x \in Orders : Sold(x)' => x = o \/ Sold(x)
    BY <1>10
  <2> QED
    BY <1>3, <1>7, <1>9, <2>1, <2>2, <2>3 DEF Standing
<1> QED
  BY <1>11, <1>13, <1>14, <1>15, <1>16

\* A session moves to a free slot and frees the one it leaves.
LEMMA RescheduleStep ==
  ASSUME BookingInv, NEW o \in Orders, NEW s \in Slots, NEW exception \in BOOLEAN,
         Reschedule(o, s, exception)
  PROVE  BookingInv'
<1> USE DEF BookingInv
<1> DEFINE healed == HoldAfterHeal({s})
           calendar == SlotAfterHeal({s})
           left == sess[o].slot
           row == [status |-> "rescheduled", slot |-> s, version |-> sess[o].version + 1]
<1>1. /\ healed \in [Holds -> HoldRow]
      /\ calendar \in [Slots -> SlotStatus]
      /\ \A g \in Holds : /\ healed[g].slot = hold[g].slot
                          /\ healed[g].price = hold[g].price
                          /\ \/ healed[g].status = hold[g].status
                             \/ hold[g].status = "active" /\ healed[g].status = "expired"
      /\ \A t \in Slots : calendar[t] # slot[t] => slot[t] = "held" /\ calendar[t] = "available"
  BY HealFacts
<1>2. /\ sess[o].status \in {"confirmed", "rescheduled"}
      /\ s # left /\ calendar[s] = "available"
      /\ hold' = healed
      /\ slot' = [t \in Slots |-> CASE t = s -> "booked"
                                    [] t = left /\ slot[t] = "booked" -> "available"
                                    [] OTHER -> calendar[t]]
      /\ sess' = [sess EXCEPT ![o] = row]
      /\ UNCHANGED <<now, order, ledger, inflight, refunds, cancellation, captured>>
  BY DEF Reschedule, Live, LiveStatus, moneyTables
<1>3. sess \in [Orders -> SessRow] /\ slot \in [Slots -> SlotStatus]
  BY DEF TypeOK
<1>4. Sold(o) /\ left \in Slots
  BY <1>2 DEF Standing, Sold
<1> HIDE DEF healed, calendar, left
<1>5. row \in SessRow
  BY <1>3 DEF SessRow, SessionStatus
<1>6. /\ sess' \in [Orders -> SessRow]
      /\ sess'[o].status = "rescheduled" /\ sess'[o].slot = s
      /\ \A x \in Orders \ {o} : sess'[x] = sess[x]
  BY <1>2, <1>3, <1>5
<1>7. /\ slot' \in [Slots -> SlotStatus]
      /\ slot'[s] = "booked"
      /\ \A t \in Slots \ {s, left} : slot'[t] = calendar[t]
  BY <1>1, <1>2 DEF SlotStatus
<1>8. TypeOK'
  BY <1>1, <1>2, <1>6, <1>7 DEF TypeOK
<1>9. \A x \in Orders : Sold(x)' <=> Sold(x)
  BY <1>4, <1>6 DEF Sold
<1>10. HoldsKept
  BY <1>1, <1>2 DEF HoldsKept, RowsInv
<1>11. OrdersKept /\ CapturedKept
  BY <1>2, <1>9, OrdersUntouched DEF CapturedKept
<1>12. RowsInv' /\ SessionIsPaidFor' /\ DeliveryInv'
  BY <1>2, <1>9, <1>10, <1>11, MoneyStep, DeliveryStep
<1>13. Standing'
  <2>1. slot[s] \in {"available", "held"}
    BY <1>1, <1>2
  <2>2. \A x \in Orders \ {o} : Sold(x) => /\ sess[x].slot \in Slots \ {s, left}
                                           /\ slot[sess[x].slot] \in {"booked", "cancelled"}
    BY <1>4, <2>1 DEF Standing, left
  <2>3. \A x \in Orders \ {o} : Sold(x) => slot'[sess[x].slot] = slot[sess[x].slot]
    BY <1>1, <1>7, <2>2
  <2> QED
    BY <1>6, <1>7, <1>9, <2>2, <2>3 DEF Standing
<1> QED
  BY <1>8, <1>12, <1>13

\* What assess_refund decides of what it found captured, once it decides: a
\* refund is for a full refund or an exception, and takes no more than that; a
\* tutor, and a student in time, get all of it, and a late student nothing.
LEMMA AssessPays ==
  ASSUME NEW paid \in Nat, NEW hours \in Nat, NEW role \in Roles, NEW exception \in BOOLEAN,
         NEW amount \in Nat \union {-1}, exception => role = "admin",
         NEW a, a = Assess(paid, hours, role, exception, role = "admin", amount, Window),
         a.decision \in Decisions
  PROVE  /\ RefundDue(a) =>
              /\ a.decision \in {"full_refund", "admin_exception"}
              /\ a.amount \in Nat /\ 0 < a.amount /\ a.amount <= paid
              /\ a.reason \in {"cancel_ge_24h", "tutor_cancelled", "admin_exception"}
         /\ role = "tutor" \/ (role = "student" /\ hours >= Window)
              => a.amount = paid /\ (paid > 0 => RefundDue(a))
         /\ role = "student" /\ ~(hours >= Window) => ~RefundDue(a)
         /\ a.decision # "none"
<1> DEFINE exceptional == AdminException(paid, role = "admin", amount)
<1>1. \/ a = Outcome("full_refund", paid, "tutor_cancelled") /\ role = "tutor"
      \/ a = exceptional /\ role = "admin"
      \/ a = Outcome("full_refund", paid, "cancel_ge_24h") /\ hours >= Window
      \/ a = Outcome("no_auto_refund", 0, "none") /\ role # "tutor" /\ ~(hours >= Window)
  BY DEF Assess
<1>2. \/ exceptional = Outcome("ADMIN_EXCEPTION_UNAUTHORISED", 0, "none")
      \/ exceptional = Outcome("AMOUNT_MISMATCH", 0, "none")
      \/ \E due \in Nat \union {-1} : due <= paid
           /\ exceptional = Outcome("admin_exception", due, "admin_exception")
  BY DEF AdminException
<1> HIDE DEF exceptional
<1>3. ASSUME NEW reason \in {"cancel_ge_24h", "tutor_cancelled"},
             a = Outcome("full_refund", paid, reason)
      PROVE  /\ a.amount = paid /\ a.decision = "full_refund" /\ a.reason = reason
             /\ RefundDue(a) <=> paid > 0
  BY <1>3 DEF Outcome, RefundDue, Decisions
<1>4. ASSUME a = Outcome("no_auto_refund", 0, "none")
      PROVE  ~RefundDue(a) /\ a.decision = "no_auto_refund"
  BY <1>4 DEF Outcome, RefundDue
<1>5. ASSUME NEW due \in Nat \union {-1}, due <= paid,
             a = Outcome("admin_exception", due, "admin_exception")
      PROVE  /\ a.decision = "admin_exception" /\ a.amount = due /\ a.reason = "admin_exception"
             /\ RefundDue(a) => due > 0
  BY <1>5 DEF Outcome, RefundDue
<1>6. ASSUME NEW what \in {"ADMIN_EXCEPTION_UNAUTHORISED", "AMOUNT_MISMATCH"},
             a = Outcome(what, 0, "none")
      PROVE  FALSE
  BY <1>6 DEF Outcome, Decisions
<1>7. CASE a = exceptional /\ role = "admin"
  <2>1. PICK due \in Nat \union {-1} : due <= paid
           /\ a = Outcome("admin_exception", due, "admin_exception")
    BY <1>2, <1>6, <1>7
  <2> QED
    BY <1>5, <1>7, <2>1
<1>8. CASE \E reason \in {"cancel_ge_24h", "tutor_cancelled"} :
             a = Outcome("full_refund", paid, reason) /\ (role = "tutor" \/ hours >= Window)
  BY <1>3, <1>8
<1>9. CASE a = Outcome("no_auto_refund", 0, "none") /\ role # "tutor" /\ ~(hours >= Window)
  BY <1>4, <1>9
<1> QED
  BY <1>1, <1>7, <1>8, <1>9

\* What a cancellation of session o reads and writes.
LEMMA CancelFacts ==
  ASSUME BookingInv, NEW o \in Orders, NEW role \in Roles, NEW exception \in BOOLEAN,
         NEW amount \in ExceptionAmounts, NEW status \in {"succeeded", "pending"},
         Cancel(o, role, exception, amount, status),
         NEW a, a = Assessment(o, role, exception, amount)
  PROVE  /\ CapturedBy(o) \in Prices \union {0} /\ CapturedBy(o) \in Nat
         /\ CapturedBy(o) <= captured[o]
         /\ HoursBefore(o) \in Nat
         /\ RefundDue(a) =>
              /\ a.decision \in {"full_refund", "admin_exception"}
              /\ a.amount \in Nat /\ 0 < a.amount /\ a.amount <= CapturedBy(o)
              /\ a.reason \in {"cancel_ge_24h", "tutor_cancelled", "admin_exception"}
         /\ role = "tutor" \/ (role = "student" /\ HoursBefore(o) >= Window)
              => a.amount = CapturedBy(o) /\ (CapturedBy(o) > 0 => RefundDue(a))
         /\ role = "student" /\ ~(HoursBefore(o) >= Window) => ~RefundDue(a)
         /\ a.decision # "none"
<1> USE DEF BookingInv
<1>1. Sold(o) /\ (exception => role = "admin") /\ a.decision \in Decisions
  BY DEF Cancel, Live, LiveStatus, Sold
<1>2. HoursBefore(o) \in Nat
  <2>1. sess[o].slot \in Slots /\ now \in Nat
    BY <1>1 DEF Standing, TypeOK
  <2> QED
    BY <2>1, BookingAssumption DEF HoursBefore, NotNegative
<1>3. order[o].amount \in Prices /\ order[o].amount \in Nat
  BY <1>1, AmountIsMoney DEF RowsInv
<1>4. captured[o] = order[o].amount
  BY <1>1 DEF SessionIsPaidFor, RowsInv
<1>5. /\ CapturedBy(o) \in Prices \union {0} /\ CapturedBy(o) \in Nat
      /\ CapturedBy(o) <= captured[o]
  BY <1>3, <1>4 DEF CapturedBy
<1>6. amount \in Nat \union {-1}
  BY BookingAssumption
<1>7. a = Assess(CapturedBy(o), HoursBefore(o), role, exception, role = "admin", amount, Window)
  BY DEF Assessment
<1> QED
  BY <1>1, <1>2, <1>5, <1>6, <1>7, AssessPays

\* A cancelled session retires its slot.
LEMMA CancelStep ==
  ASSUME BookingInv, NEW o \in Orders, NEW role \in Roles, NEW exception \in BOOLEAN,
         NEW amount \in ExceptionAmounts, NEW status \in {"succeeded", "pending"},
         Cancel(o, role, exception, amount, status)
  PROVE  BookingInv'
<1> USE DEF BookingInv
<1> DEFINE left == sess[o].slot
           a == Assessment(o, role, exception, amount)
           record == [role |-> role, decision |-> a.decision, hours |-> HoursBefore(o),
                      found |-> CapturedBy(o)]
<1>1. /\ sess[o].status \in {"confirmed", "rescheduled"}
      /\ a.decision \in Decisions
      /\ cancellation' = [cancellation EXCEPT ![o] = record]
      /\ sess' = [sess EXCEPT ![o].status = "cancelled", ![o].version = @ + 1]
      /\ slot' = [slot EXCEPT ![left] = "cancelled"]
      /\ refunds' = refunds \union RefundRows(o, a, status)
      /\ UNCHANGED <<now, hold, order, ledger, inflight, captured>>
  BY DEF Cancel, Live, LiveStatus
<1>2. sess \in [Orders -> SessRow] /\ slot \in [Slots -> SlotStatus]
  BY DEF TypeOK
<1>3. Sold(o) /\ left \in Slots
  BY <1>1 DEF Standing, Sold
<1>4. record \in CancelRow
  BY <1>1, CancelFacts DEF CancelRow
<1>5. RefundRows(o, a, status) \subseteq RefundRow
  <2>1. RefundDue(a) => /\ a.amount \in Nat
                        /\ a.reason \in {"cancel_ge_24h", "tutor_cancelled", "admin_exception"}
    BY CancelFacts
  <2> QED
    BY <2>1 DEF RefundRows, RefundRow
<1> HIDE DEF left, a, record
<1>6. /\ sess' \in [Orders -> SessRow]
      /\ \A x \in Orders \ {o} : sess'[x] = sess[x]
      /\ sess'[o].status = "cancelled" /\ sess'[o].slot = left
      /\ slot' \in [Slots -> SlotStatus]
      /\ slot'[left] = "cancelled"
      /\ \A t \in Slots \ {left} : slot'[t] = slot[t]
  BY <1>1, <1>2, <1>3 DEF SessRow, SessionStatus, SlotStatus, left
<1>7. TypeOK'
  BY <1>1, <1>4, <1>5, <1>6 DEF TypeOK
<1>8. \A x \in Orders : /\ Sold(x)' <=> Sold(x)
                        /\ sess'[x].slot = sess[x].slot
  BY <1>3, <1>6 DEF Sold, left
<1>9. HoldsKept /\ OrdersKept /\ CapturedKept
  BY <1>1, <1>8, HoldsUntouched, OrdersUntouched DEF CapturedKept
<1>10. RowsInv' /\ SessionIsPaidFor' /\ DeliveryInv'
  BY <1>1, <1>8, <1>9, MoneyStep, DeliveryStep
<1>11. Standing'
  <2>1. \A x \in Orders \ {o} : Sold(x) => sess[x].slot \in Slots \ {left}
    BY <1>3 DEF Standing, left
  <2>2. \A x \in Orders \ {o} : Sold(x) => slot'[sess[x].slot] = slot[sess[x].slot]
                                           /\ sess'[x] = sess[x]
    BY <1>6, <2>1
  <2> QED
    BY <1>3, <1>6, <1>8, <2>2 DEF Standing, left
<1> QED
  BY <1>7, <1>10, <1>11

\* Every step keeps the invariant.
LEMMA BookingNextInv == BookingInv /\ [Next]_vars => BookingInv'
<1> SUFFICES ASSUME BookingInv, [Next]_vars PROVE BookingInv'
  OBVIOUS
<1>1. CASE QuietStep
  <2>1. RowsInv' /\ SessionIsPaidFor'
    BY <1>1, MoneyStep DEF QuietStep, SessionsKept
  <2>2. Standing'
    BY <1>1, StandingStep DEF QuietStep
  <2> QED
    BY <1>1, <2>1, <2>2 DEF QuietStep, BookingInv
<1> QED
  BY <1>1, StepsClassified, SellSessionStep, RescheduleStep, CancelStep

\* For any number of slots, holds and orders and any prices, and whatever
\* webhooks interleave: tables are well formed, every session stands on the
\* money its hold asked for and on a hold of its own.
THEOREM BookingSafe == Spec => [](TypeOK /\ SessionIsPaidFor)
<1>1. BookingInv => TypeOK /\ SessionIsPaidFor
  BY DEF BookingInv
<1> QED
  BY <1>1, BookingInitInv, BookingNextInv, PTL DEF Spec

\* For any TTL, and however long a webhook takes between its read and its
\* sale: it reached the service before the hold it consumes had lapsed.
THEOREM SaleWithinTtl == Spec => SoldWithinTtl
<1> DEFINE Captures(o) == \E d \in inflight : /\ d.order = o
                                              /\ EventType(d.raw) = "paid"
                                              /\ hold[order[o].hold].expires > d.at
<1>1. BookingInv /\ [Next]_vars => \A o \in Orders : ~Sold(o) /\ Sold(o)' => Captures(o)
  <2> SUFFICES ASSUME BookingInv, [Next]_vars, NEW o \in Orders, ~Sold(o), Sold(o)'
               PROVE  Captures(o)
    OBVIOUS
  <2>1. sess \in [Orders -> SessRow]
    BY DEF BookingInv, TypeOK
  <2>2. ASSUME NEW d \in inflight, SellSession(d) PROVE Captures(o)
    <3>1. PICK row : sess' = [sess EXCEPT ![d.order] = row]
      BY <2>2 DEF SellSession
    <3>2. d.order = o
      BY <2>1, <3>1 DEF Sold
    <3> QED
      BY <2>2, <3>2 DEF SellSession, HoldIsLive
  <2>3. ASSUME NEW x \in Orders, Live(x), \A y \in Orders \ {x} : sess'[y] = sess[y] PROVE FALSE
    BY <2>3 DEF Live, LiveStatus, Sold
  <2>4. ASSUME NEW x \in Orders, NEW s \in Slots, NEW exception \in BOOLEAN,
               Reschedule(x, s, exception)
        PROVE  FALSE
    BY <2>1, <2>3, <2>4 DEF Reschedule
  <2>5. ASSUME NEW x \in Orders, NEW role \in Roles, NEW exception \in BOOLEAN,
               NEW amount \in ExceptionAmounts, NEW status \in {"succeeded", "pending"},
               Cancel(x, role, exception, amount, status)
        PROVE  FALSE
    BY <2>1, <2>3, <2>5 DEF Cancel
  <2>6. CASE QuietStep
    BY <2>6 DEF QuietStep, SessionsKept
  <2> QED
    BY <2>2, <2>4, <2>5, <2>6, StepsClassified
<1> QED
  BY <1>1, BookingInitInv, BookingNextInv, PTL DEF Spec, SoldWithinTtl

-----------------------------------------------------------------------------
(* The refund policy.                                                      *)

RefundInv == BookingInv /\ RefundFollowsPolicy

\* A step that cancels nothing and takes no money from a sold order keeps the
\* policy.
LEMMA NoRefundStep ==
  ASSUME RefundInv, UNCHANGED <<refunds, cancellation>>,
         \A o \in Orders : sess'[o].status = "cancelled" <=> sess[o].status = "cancelled",
         \A o \in Orders : Sold(o) => captured'[o] = captured[o]
  PROVE  RefundFollowsPolicy'
<1>1. \A r \in refunds : r.order \in Orders
  BY DEF RefundInv, BookingInv, TypeOK, RefundRow
<1>2. \A r \in refunds : captured'[r.order] = captured[r.order]
  BY <1>1 DEF RefundInv, RefundFollowsPolicy, Sold
<1> QED
  BY <1>1, <1>2 DEF RefundInv, RefundFollowsPolicy, RefundsOf

\* A cancellation writes its decision and, if money is due, its one refund.
LEMMA CancelRefunds ==
  ASSUME RefundInv, NEW o \in Orders, NEW role \in Roles, NEW exception \in BOOLEAN,
         NEW amount \in ExceptionAmounts, NEW status \in {"succeeded", "pending"},
         Cancel(o, role, exception, amount, status)
  PROVE  RefundFollowsPolicy'
<1> DEFINE a == Assessment(o, role, exception, amount)
           paid == CapturedBy(o)
           hours == HoursBefore(o)
           row == [order |-> o, amount |-> a.amount, reason |-> a.reason, status |-> status]
<1>1. /\ sess[o].status \in LiveStatus
      /\ cancellation' = [cancellation EXCEPT ![o] =
                            [role |-> role, decision |-> a.decision, hours |-> hours,
                             found |-> paid]]
      /\ sess' = [sess EXCEPT ![o].status = "cancelled", ![o].version = @ + 1]
      /\ refunds' = refunds \union RefundRows(o, a, status)
      /\ UNCHANGED captured
  BY DEF Cancel, Live
<1>2. /\ sess \in [Orders -> SessRow] /\ cancellation \in [Orders -> CancelRow]
      /\ refunds \subseteq RefundRow /\ captured \in [Orders -> Amounts \union {0}]
  BY DEF RefundInv, BookingInv, TypeOK
<1>3. Sold(o) /\ sess[o].status # "cancelled"
  BY <1>1 DEF Sold, LiveStatus
<1>4. /\ paid \in Nat /\ paid <= captured[o] /\ captured[o] \in Nat
      /\ RefundDue(a) => /\ a.decision \in {"full_refund", "admin_exception"}
                         /\ a.amount \in Nat /\ a.amount <= paid
      /\ (role = "tutor" \/ (role = "student" /\ hours >= Window)) /\ paid > 0
           => RefundDue(a) /\ a.amount = paid
      /\ role = "student" /\ ~(hours >= Window) => ~RefundDue(a)
      /\ a.decision # "none"
  <2>1. captured[o] \in Nat
    <3>1. captured[o] \in Amounts \union {0}
      BY <1>2
    <3>2. \A x \in Amounts : x \in Nat
      BY BookingAssumption
    <3> QED
      BY <3>1, <3>2
  <2> QED
    BY <2>1, CancelFacts DEF RefundInv
<1> HIDE DEF a, paid, hours
<1>5. \A r \in refunds : r.order # o
  BY <1>2, <1>3 DEF RefundInv, RefundFollowsPolicy, RefundRow
<1>6. /\ cancellation'[o].role = role /\ cancellation'[o].decision = a.decision
      /\ cancellation'[o].hours = hours /\ cancellation'[o].found = paid
      /\ \A x \in Orders \ {o} : cancellation'[x] = cancellation[x]
      /\ sess'[o].status = "cancelled"
      /\ \A x \in Orders \ {o} : sess'[x] = sess[x]
  BY <1>1, <1>2 DEF SessRow
<1>7. refunds' = refunds \union (IF RefundDue(a) THEN {row} ELSE {})
  BY <1>1 DEF RefundRows
<1>8. row.order = o /\ row.amount = a.amount
  OBVIOUS
<1> HIDE DEF row
<1>9. /\ \A x \in Orders \ {o} : RefundsOf(x)' = RefundsOf(x)
      /\ RefundsOf(o)' = IF RefundDue(a) THEN {row} ELSE {}
  BY <1>5, <1>7, <1>8 DEF RefundsOf
<1>10. \A x \in Orders : sess'[x].status = "cancelled" <=> cancellation'[x].decision # "none"
  BY <1>4, <1>6 DEF RefundInv, RefundFollowsPolicy
<1>11. \A r \in refunds' :
         /\ cancellation'[r.order].decision \in {"full_refund", "admin_exception"}
         /\ r.amount <= captured'[r.order]
         /\ RefundsOf(r.order)' = {r}
  <2>1. ASSUME NEW r \in refunds
        PROVE  /\ cancellation'[r.order].decision \in {"full_refund", "admin_exception"}
               /\ r.amount <= captured'[r.order]
               /\ RefundsOf(r.order)' = {r}
    <3>1. r.order \in Orders \ {o}
      BY <1>2, <1>5 DEF RefundRow
    <3> QED
      BY <1>1, <1>6, <1>9, <3>1 DEF RefundInv, RefundFollowsPolicy
  <2>2. ASSUME RefundDue(a), NEW r, r = row
        PROVE  /\ cancellation'[r.order].decision \in {"full_refund", "admin_exception"}
               /\ r.amount <= captured'[r.order]
               /\ RefundsOf(r.order)' = {r}
    <3>1. r.order = o /\ r.amount = a.amount
      BY <1>8, <2>2
    <3>2. RefundsOf(r.order)' = {r}
      BY <1>9, <2>2, <3>1
    <3>3. r.amount <= captured'[r.order]
      BY <1>1, <1>4, <2>2, <3>1
    <3> QED
      BY <1>4, <1>6, <2>2, <3>1, <3>2, <3>3
  <2> QED
    BY <1>7, <2>1, <2>2
<1>12. ASSUME NEW x \in Orders
       PROVE  /\ (\/ cancellation'[x].role = "tutor"
                  \/ cancellation'[x].role = "student" /\ cancellation'[x].hours >= Window)
                 /\ cancellation'[x].found > 0
                   => \E r \in RefundsOf(x)' : r.amount = cancellation'[x].found
              /\ cancellation'[x].role = "student" /\ ~(cancellation'[x].hours >= Window)
                   => RefundsOf(x)' = {}
  <2>1. CASE x = o
    <3>1. ASSUME RefundDue(a) PROVE row \in RefundsOf(x)'
      BY <1>9, <2>1, <3>1
    <3>2. ASSUME ~RefundDue(a) PROVE RefundsOf(x)' = {}
      BY <1>9, <2>1, <3>2
    <3> QED
      BY <1>4, <1>6, <1>8, <2>1, <3>1, <3>2
  <2>2. CASE x # o
    <3>1. RefundsOf(x)' = RefundsOf(x) /\ cancellation'[x] = cancellation[x]
      BY <1>6, <1>9, <2>2
    <3> QED
      BY <3>1 DEF RefundInv, RefundFollowsPolicy
  <2> QED
    BY <2>1, <2>2
<1> QED
  BY <1>10, <1>11, <1>12 DEF RefundFollowsPolicy

\* For any prices, notice window and exceptions, and any webhooks racing the
\* cancellation: money goes back only for a cancelled session, at most once,
\* never more than was captured, and it is what the policy says of the money
\* the cancellation found.
THEOREM RefundsFollowPolicy == Spec => []RefundFollowsPolicy
<1>1. Init => RefundFollowsPolicy
  BY BookingAssumption DEF Init, NoSess, NoCancel, RefundFollowsPolicy, RefundsOf
<1>2. RefundInv /\ [Next]_vars => RefundFollowsPolicy'
  <2> SUFFICES ASSUME RefundInv, [Next]_vars PROVE RefundFollowsPolicy'
    OBVIOUS
  <2> USE DEF RefundInv
  <2>1. sess \in [Orders -> SessRow]
    BY DEF BookingInv, TypeOK
  <2>2. ASSUME NEW d \in inflight, SellSession(d) PROVE RefundFollowsPolicy'
    <3>1. PICK row : row.status = "confirmed" /\ sess' = [sess EXCEPT ![d.order] = row]
      BY <2>2 DEF SellSession
    <3>2. d.order \in Orders /\ ~Sold(d.order) /\ UNCHANGED <<refunds, cancellation, captured>>
      BY <2>2 DEF SellSession, HoldIsLive, BookingInv, SessionIsPaidFor, TypeOK, Delivery
    <3>3. \A x \in Orders : sess'[x].status = "cancelled" <=> sess[x].status = "cancelled"
      BY <2>1, <3>1, <3>2 DEF Sold
    <3> QED
      BY <3>2, <3>3, NoRefundStep
  <2>3. ASSUME NEW o \in Orders, NEW s \in Slots, NEW exception \in BOOLEAN,
               Reschedule(o, s, exception)
        PROVE  RefundFollowsPolicy'
    <3>1. /\ sess' = [sess EXCEPT ![o] = [status |-> "rescheduled", slot |-> s,
                                          version |-> @.version + 1]]
          /\ sess[o].status # "cancelled"
          /\ UNCHANGED <<refunds, cancellation, captured>>
      BY <2>3 DEF Reschedule, Live, LiveStatus, moneyTables
    <3>2. \A x \in Orders : sess'[x].status = "cancelled" <=> sess[x].status = "cancelled"
      BY <2>1, <3>1
    <3> QED
      BY <3>1, <3>2, NoRefundStep
  <2>4. CASE QuietStep
    <3>1. \A o \in Orders : Sold(o) => captured[o] # 0
      BY AmountIsMoney DEF BookingInv, RowsInv, SessionIsPaidFor
    <3> QED
      BY <2>4, <3>1, NoRefundStep DEF QuietStep, SessionsKept, CapturedKept
  <2> QED
    BY <2>2, <2>3, <2>4, StepsClassified, CancelRefunds
<1>3. BookingInv /\ RefundFollowsPolicy <=> RefundInv
  BY DEF RefundInv
<1> QED
  BY <1>1, <1>2, <1>3, BookingInitInv, BookingNextInv, PTL DEF Spec

-----------------------------------------------------------------------------
(* The refinement of SlotSale, one action at a time.                       *)

\* The orders that own a slot in the slot sale: sold, standing on it, and not
\* cancelled.
OwnersOf(s) == {o \in OnSlot(s) : sess[o].status # "cancelled"}

\* Sessions that stay where they are, and slots that stay retired or not, are
\* nothing to the slot sale.
LEMMA KeptIsStutter == SessionsKept => UNCHANGED Sale!saleVars
<1> SUFFICES ASSUME SessionsKept PROVE UNCHANGED Sale!saleVars
  OBVIOUS
<1>1. \A s \in Slots : OwnersOf(s)' = OwnersOf(s)
  BY DEF SessionsKept, OwnersOf, OnSlot
<1>2. {s \in Slots : slot[s] = "cancelled"}' = {s \in Slots : slot[s] = "cancelled"}
  BY DEF SessionsKept
<1>3. {o \in Orders : Sold(o)}' = {o \in Orders : Sold(o)}
  BY DEF SessionsKept
<1> QED
  BY <1>1, <1>2, <1>3 DEF Sale!saleVars, OwnersOf

\* Who owns what in the slot sale, read off the calendar.
LEMMA OwnersFacts ==
  ASSUME BookingInv
  PROVE  /\ \A o \in Orders : Sold(o) /\ sess[o].status # "cancelled" =>
              /\ sess[o].slot \in Slots /\ slot[sess[o].slot] = "booked"
              /\ OwnersOf(sess[o].slot) = {o}
         /\ \A s \in Slots : slot[s] \in {"available", "held"} => OnSlot(s) = {} /\ OwnersOf(s) = {}
<1>1. ASSUME NEW o \in Orders, Sold(o), sess[o].status # "cancelled"
      PROVE  /\ sess[o].slot \in Slots /\ slot[sess[o].slot] = "booked"
             /\ OwnersOf(sess[o].slot) = {o}
  <2>1. /\ sess[o].slot \in Slots /\ slot[sess[o].slot] = "booked"
        /\ \A x \in Orders : Sold(x) /\ sess[x].slot = sess[o].slot => x = o
    BY <1>1 DEF BookingInv, Standing
  <2> QED
    BY <1>1, <2>1 DEF OwnersOf, OnSlot
<1>2. ASSUME NEW s \in Slots, slot[s] \in {"available", "held"}
      PROVE  OnSlot(s) = {} /\ OwnersOf(s) = {}
  <2>1. \A o \in Orders : Sold(o) => slot[sess[o].slot] \in {"booked", "cancelled"}
    BY DEF BookingInv, Standing
  <2> QED
    BY <1>2, <2>1 DEF OnSlot, OwnersOf
<1> QED
  BY <1>1, <1>2

\* A capture that sells a session is a sale.
LEMMA SellIsSell ==
  ASSUME BookingInv, NEW d \in inflight, SellSession(d)
  PROVE  Sale!SaleNext
<1> DEFINE o == d.order
           s == hold[order[o].hold].slot
<1>1. /\ hold[order[o].hold].status = "active" /\ slot[s] = "held"
      /\ slot' = [slot EXCEPT ![s] = "booked"]
      /\ sess' = [sess EXCEPT ![o] = [status |-> "confirmed", slot |-> s, version |-> 1]]
  BY DEF SellSession, HoldIsLive
<1>2. o \in Orders /\ order[o].status # "none"
  BY DEF BookingInv, DeliveryInv, TypeOK, Delivery
<1>3. /\ s \in Slots /\ slot \in [Slots -> SlotStatus] /\ sess \in [Orders -> SessRow]
      /\ ~Sold(o)
  BY <1>1, <1>2 DEF BookingInv, RowsInv, TypeOK, SessionIsPaidFor
<1> HIDE DEF s, o
<1>4. OnSlot(s) = {} /\ OwnersOf(s) = {}
  BY <1>1, <1>3, OwnersFacts
<1>5. /\ sess'[o].status = "confirmed" /\ sess'[o].slot = s
      /\ \A x \in Orders \ {o} : sess'[x] = sess[x]
      /\ \A t \in Slots : slot'[t] = "cancelled" <=> slot[t] = "cancelled"
  BY <1>1, <1>2, <1>3
<1>6. \A t \in Slots, x \in Orders :
        x \in OwnersOf(t)' <=> IF t = s THEN x = o ELSE x \in OwnersOf(t)
  BY <1>2, <1>3, <1>4, <1>5 DEF OwnersOf, OnSlot, Sold
<1>7. [t \in Slots |-> OwnersOf(t)]' = [[t \in Slots |-> OwnersOf(t)] EXCEPT ![s] = {o}]
  <2>1. \A t \in Slots : OwnersOf(t)' = IF t = s THEN {o} ELSE OwnersOf(t)
    BY <1>2, <1>6 DEF OwnersOf, OnSlot
  <2> QED
    BY <1>3, <2>1
<1>8. {x \in Orders : Sold(x)}' = {x \in Orders : Sold(x)} \union {o}
  BY <1>2, <1>5 DEF Sold
<1>9. {t \in Slots : slot[t] = "cancelled"}' = {t \in Slots : slot[t] = "cancelled"}
  BY <1>5
<1>10. Sale!Sell(s, o)
  BY <1>1, <1>3, <1>4, <1>7, <1>8, <1>9 DEF Sale!Sell, Sale!Free, OwnersOf
<1> QED
  BY <1>2, <1>3, <1>10 DEF Sale!SaleNext

\* A reschedule moves the owner to a free slot.
LEMMA RescheduleIsMove ==
  ASSUME BookingInv, NEW o \in Orders, NEW s \in Slots, NEW exception \in BOOLEAN,
         Reschedule(o, s, exception)
  PROVE  Sale!SaleNext
<1> DEFINE left == sess[o].slot
<1>1. /\ sess[o].status \in {"confirmed", "rescheduled"}
      /\ s # left /\ SlotAfterHeal({s})[s] = "available"
      /\ slot' = [t \in Slots |-> CASE t = s -> "booked"
                                    [] t = left /\ slot[t] = "booked" -> "available"
                                    [] OTHER -> SlotAfterHeal({s})[t]]
      /\ sess' = [sess EXCEPT ![o] = [status |-> "rescheduled", slot |-> s,
                                      version |-> sess[o].version + 1]]
  BY DEF Reschedule, Live, LiveStatus
<1>2. /\ slot \in [Slots -> SlotStatus] /\ sess \in [Orders -> SessRow]
      /\ Sold(o) /\ sess[o].status # "cancelled"
  BY <1>1 DEF BookingInv, TypeOK, Sold
<1>3. left \in Slots /\ OwnersOf(left) = {o} /\ slot[left] = "booked"
  BY <1>2, OwnersFacts
<1>4. slot[s] \in {"available", "held"}
  BY <1>1 DEF SlotAfterHeal
<1>5. OnSlot(s) = {} /\ OwnersOf(s) = {}
  BY <1>4, OwnersFacts
<1>6. \A t \in Slots : slot'[t] = "cancelled" <=> slot[t] = "cancelled"
  <2>1. \A t \in Slots : SlotAfterHeal({s})[t] = "cancelled" <=> slot[t] = "cancelled"
    BY DEF SlotAfterHeal
  <2> QED
    BY <1>1, <1>3, <2>1
<1> HIDE DEF left
<1>7. /\ sess'[o].status = "rescheduled" /\ sess'[o].slot = s
      /\ \A x \in Orders \ {o} : sess'[x] = sess[x]
      /\ sess[o].slot = left
  BY <1>1, <1>2 DEF left
<1>8. \A t \in Slots : OwnersOf(t)' = IF t = s THEN {o} ELSE IF t = left THEN {} ELSE OwnersOf(t)
  <2>1. \A t \in Slots, x \in Orders :
          x \in OwnersOf(t)' <=> IF t = s THEN x = o ELSE x # o /\ x \in OwnersOf(t)
    BY <1>2, <1>5, <1>7 DEF OwnersOf, OnSlot, Sold
  <2>2. \A t \in Slots : t # left => o \notin OwnersOf(t)
    BY <1>7 DEF OwnersOf, OnSlot
  <2>3. \A t \in Slots : OwnersOf(t)' \subseteq Orders /\ OwnersOf(t) \subseteq Orders
    BY DEF OwnersOf, OnSlot
  <2> QED
    BY <1>1, <1>3, <2>1, <2>2, <2>3
<1>9. [t \in Slots |-> OwnersOf(t)]' =
        [[t \in Slots |-> OwnersOf(t)] EXCEPT ![left] = {}, ![s] = {o}]
  BY <1>3, <1>8
<1>10. {x \in Orders : Sold(x)}' = {x \in Orders : Sold(x)}
  BY <1>2, <1>7 DEF Sold
<1>11. {t \in Slots : slot[t] = "cancelled"}' = {t \in Slots : slot[t] = "cancelled"}
  BY <1>6
<1>12. Sale!Move(left, s, o)
  BY <1>3, <1>4, <1>5, <1>9, <1>10, <1>11 DEF Sale!Move, Sale!Free, OwnersOf
<1> QED
  BY <1>3, <1>12 DEF Sale!SaleNext

\* A cancellation retires the slot of the session.
LEMMA CancelIsRetire ==
  ASSUME BookingInv, NEW o \in Orders, NEW role \in Roles, NEW exception \in BOOLEAN,
         NEW amount \in ExceptionAmounts, NEW status \in {"succeeded", "pending"},
         Cancel(o, role, exception, amount, status)
  PROVE  Sale!SaleNext
<1> DEFINE left == sess[o].slot
<1>1. /\ sess[o].status \in {"confirmed", "rescheduled"}
      /\ sess' = [sess EXCEPT ![o].status = "cancelled", ![o].version = @ + 1]
      /\ slot' = [slot EXCEPT ![left] = "cancelled"]
  BY DEF Cancel, Live, LiveStatus
<1>2. /\ slot \in [Slots -> SlotStatus] /\ sess \in [Orders -> SessRow]
      /\ Sold(o) /\ sess[o].status # "cancelled"
  BY <1>1 DEF BookingInv, TypeOK, Sold
<1>3. left \in Slots /\ OwnersOf(left) = {o}
  BY <1>2, OwnersFacts
<1> HIDE DEF left
<1>4. /\ sess'[o].status = "cancelled" /\ sess'[o].slot = left
      /\ \A x \in Orders \ {o} : sess'[x] = sess[x]
      /\ \A t \in Slots : slot'[t] = "cancelled" <=> slot[t] = "cancelled" \/ t = left
      /\ sess[o].slot = left
  BY <1>1, <1>2, <1>3 DEF SessRow, left
<1>5. \A t \in Slots : OwnersOf(t)' = IF t = left THEN {} ELSE OwnersOf(t)
  <2>1. \A t \in Slots, x \in Orders : x \in OwnersOf(t)' <=> x # o /\ x \in OwnersOf(t)
    BY <1>4 DEF OwnersOf, OnSlot, Sold
  <2>2. \A t \in Slots : t # left => o \notin OwnersOf(t)
    BY <1>4 DEF OwnersOf, OnSlot
  <2>3. \A t \in Slots : OwnersOf(t)' \subseteq Orders /\ OwnersOf(t) \subseteq Orders
    BY DEF OwnersOf, OnSlot
  <2> QED
    BY <1>3, <2>1, <2>2, <2>3
<1>6. [t \in Slots |-> OwnersOf(t)]' = [[t \in Slots |-> OwnersOf(t)] EXCEPT ![left] = {}]
  BY <1>3, <1>5
<1>7. {x \in Orders : Sold(x)}' = {x \in Orders : Sold(x)}
  BY <1>2, <1>4 DEF Sold
<1>8. {t \in Slots : slot[t] = "cancelled"}' = {t \in Slots : slot[t] = "cancelled"} \union {left}
  BY <1>3, <1>4
<1>9. Sale!Retire(left, o)
  BY <1>3, <1>6, <1>7, <1>8 DEF Sale!Retire, OwnersOf
<1> QED
  BY <1>3, <1>9 DEF Sale!SaleNext

\* The booking handlers implement the slot sale, whatever webhooks race them:
\* no slot is double-booked and a retired one is never sold.  It assumes that
\* no request names a session version it has not read.
THEOREM BookingImplementsSale == Spec => ImplementsSlotSale
<1>1. Init => Sale!SaleInit
  BY DEF Init, NoSess, Sale!SaleInit, OnSlot, Sold
<1>2. BookingInv /\ [Next]_vars => [Sale!SaleNext]_(Sale!saleVars)
  BY StepsClassified, KeptIsStutter, SellIsSell, RescheduleIsMove, CancelIsRetire DEF QuietStep
<1> QED
  BY <1>1, <1>2, BookingInitInv, BookingNextInv, PTL DEF Spec, ImplementsSlotSale, Sale!SaleSpec
=============================================================================
