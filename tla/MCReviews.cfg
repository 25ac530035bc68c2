SPECIFICATION Spec
CONSTANTS
  Procs = {p1, p2}
  Sessions = {s1, s2}
  Texts = {a}
  Ratings = {1}
  NoText = NoText
INVARIANTS
  PublishedIffApproved
  RatingCountsApproved
PROPERTIES
  DecisionStands
SYMMETRY ReviewsSymmetry
CHECK_DEADLOCK FALSE
