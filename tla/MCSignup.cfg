SPECIFICATION SignupSpec
CONSTANTS
  Keys = {k1, k2}
  Contents = {x, y}
  Codes = {c1, c2}
  Workers = {w1, w2}
  NoKey = NoKey
  NoContent = NoContent
  NoCode = NoCode
  FlowTTL = 3
  ChallengeTTL = 2
  Lease = 1
  MaxSends = 2
  PendingAge = 4
  LastStart = 2
  MaxTime = 5
INVARIANTS
  OneBrowserPerSignup
  KeyKeepsContent
  SuccessWasDelivered
PROPERTIES
  RetiredStaysRetired
  NoCodeAfterTheEnd
SYMMETRY SignupSymmetry
CHECK_DEADLOCK FALSE
