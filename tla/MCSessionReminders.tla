------------------------- MODULE MCSessionReminders -------------------------
(* SessionReminders on a small instance. *)
EXTENDS SessionReminders, TLC
=============================================================================
