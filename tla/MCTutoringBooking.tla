-------------------------- MODULE MCTutoringBooking -------------------------
(* TutoringBooking on a small instance. *)
EXTENDS TutoringBooking, TLC

CONSTANTS s1, s2

\* The second slot starts a tick after the first.
Starts == [s \in Slots |-> IF s = s1 THEN 1 ELSE 2]

\* Where a body carries no id of its own the event takes that of its payment: an
\* authorization and its capture share it.
Names == [raw \in RawEvents |->
            IF raw \in {"payment.authorized", "payment.captured"} THEN "payment" ELSE raw]

Symmetry == Permutations(Orders)
=============================================================================
