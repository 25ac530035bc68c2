-------------------------- MODULE MCMentorCeremony --------------------------
(* MentorCeremony on small instances. *)
EXTENDS MentorCeremony, TLC

CeremonySymmetry == Permutations(Actors) \union Permutations(Purposes) \union Permutations(Invitations)
                      \union Permutations(Ceremonies)
=============================================================================
