--------------------------- MODULE MCTutorReviews ---------------------------
(* TutorReviews on small instances. *)
EXTENDS TutorReviews, TLC

ReviewsSymmetry == Permutations(Procs) \union Permutations(Sessions) \union Permutations(Texts)
=============================================================================
