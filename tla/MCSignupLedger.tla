--------------------------- MODULE MCSignupLedger ---------------------------
(* SignupLedger on small instances. *)
EXTENDS SignupLedger, TLC

SignupSymmetry ==
  Permutations(Keys) \union Permutations(Contents) \union Permutations(Codes) \union Permutations(Workers)
=============================================================================
