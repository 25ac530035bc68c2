--------------------------- MODULE MCOtpDelivery ---------------------------
(* OtpDelivery on small instances. *)
EXTENDS OtpDelivery, TLC

OtpSymmetry == Permutations(Flows) \union Permutations(Challenges)
                 \union Permutations(Workers) \union Permutations(Requests)
=============================================================================
