--------------------------- MODULE MCBookingHolds ---------------------------
(* BookingHolds on a small instance. *)
EXTENDS BookingHolds, TLC

\* Slots, hold ids, attempts and processes are interchangeable.
Symmetry == Permutations(Slots) \union Permutations(Holds) \union Permutations(Procs) \union Permutations(Attempts)
=============================================================================
