-------------------------- MODULE MCTutoringOutbox --------------------------
(* TutoringOutbox on small instances. *)
EXTENDS TutoringOutbox, TLC
=============================================================================
