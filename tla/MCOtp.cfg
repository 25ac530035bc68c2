SPECIFICATION OtpSpec
CONSTANTS
  NoCode = NoCode
  Flows = {f1, f2}
  Challenges = {c1, c2}
  Workers = {w1, w2}
  Requests = {r1}
  Channels = {"mobile"}
  Purpose = "recovery"
  ChallengeTTL = 2
  FlowTTL = 3
  ProofTTL = 2
  Lease = 1
  RetryBase = 1
  RetryMax = 1
  MaxSends = 2
  LastStart = 2
  MaxTime = 5
  MaxAttempts = 2
  AttemptWindow = 2
  Lockout = 2
  Cooldown = 1
  MaxResends = 2
  ResendWindow = 4
INVARIANTS
  StagedGraphIsValid
  UsableCodeWasAccepted
  ActiveCodeIsBound
PROPERTIES
  ActivationIsAuthorized
  OldCodeKeepsWorking
  LockoutHolds
  ProofSurvivesDelivery
SYMMETRY OtpSymmetry
CHECK_DEADLOCK FALSE
