------------------------------ MODULE SlotSale ------------------------------
(***************************************************************************)
(* What the tutoring booking service promises about calendar slots, with   *)
(* no holds, transactions or clocks in it: a slot belongs to at most one   *)
(* paid order at a time, an order is sold a slot once, an order may move   *)
(* to a free slot, and a slot whose session was cancelled is retired for   *)
(* ever.                                                                   *)
(*                                                                         *)
(* BookingHolds (statement by statement under READ COMMITTED) implements   *)
(* it until a request names a version it has not read; TutoringBooking,    *)
(* where requests are handlers and webhooks take two steps, implements it. *)
(***************************************************************************)
CONSTANTS Slots,   \* calendar slots, tutor_availability_slots.id
          Orders   \* payment orders that may back a session

VARIABLES owners,  \* owners[s]: the orders that own slot s, none or one
          retired, \* the slots whose session was cancelled
          sold     \* the orders that were ever sold a slot

saleVars == <<owners, retired, sold>>

SaleInit == /\ owners = [s \in Slots |-> {}]
            /\ retired = {}
            /\ sold = {}

Free(s) == owners[s] = {} /\ s \notin retired

\* An order that never bought anything takes a free slot.
Sell(s, o) == /\ Free(s)
              /\ o \notin sold
              /\ owners' = [owners EXCEPT ![s] = {o}]
              /\ sold' = sold \union {o}
              /\ UNCHANGED retired

\* The owner of slot s gives it back for the free slot t.
Move(s, t, o) == /\ owners[s] = {o}
                 /\ Free(t)
                 /\ owners' = [owners EXCEPT ![s] = {}, ![t] = {o}]
                 /\ UNCHANGED <<retired, sold>>

\* The owner of slot s cancels: the slot is not sold again.
Retire(s, o) == /\ owners[s] = {o}
                /\ owners' = [owners EXCEPT ![s] = {}]
                /\ retired' = retired \union {s}
                /\ UNCHANGED sold

SaleNext == \E s \in Slots, o \in Orders :
               \/ Sell(s, o)
               \/ Retire(s, o)
               \/ \E t \in Slots : Move(s, t, o)

SaleSpec == SaleInit /\ [][SaleNext]_saleVars

\* A slot has one owner, an order owns one slot and only after it was sold
\* one, and a retired slot has no owner: no double booking.
NoDoubleBooking ==
  /\ \A s \in Slots, o1, o2 \in Orders : {o1, o2} \subseteq owners[s] => o1 = o2
  /\ \A s1, s2 \in Slots, o \in Orders : o \in owners[s1] \intersect owners[s2] => s1 = s2
  /\ \A s \in Slots : owners[s] \subseteq sold
  /\ \A s \in retired : owners[s] = {}
=============================================================================
