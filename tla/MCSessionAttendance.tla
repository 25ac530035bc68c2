------------------------ MODULE MCSessionAttendance -------------------------
(* Three requests at a time about one session, whose rows see four versions. *)
EXTENDS SessionAttendance, TLC

CONSTANTS q1, q2, q3
AnyRequest == Permutations({q1, q2, q3})
=============================================================================
