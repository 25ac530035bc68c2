SPECIFICATION FairSpec
CONSTANTS
  Procs = {p1, p2}
  Starts = {3, 4}
  Offsets = {1, 2}
  MaxNow = 4
  MaxMoves = 2
INVARIANTS
  JobsFollowSession
  SentMeansNotified
PROPERTIES
  NeverOnOldSchedule
  EveryRequestEnds
CHECK_DEADLOCK FALSE
