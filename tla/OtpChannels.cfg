SPECIFICATION OtpSpec
CONSTANTS
  NoCode = NoCode
  Flows = {f1, f2}
  Challenges = {c1, c2}
  Workers = {w1}
  Requests = {}
  Channels = {"mobile", "email"}
  Purpose = "login"
  ChallengeTTL = 2
  FlowTTL = 3
  ProofTTL = 2
  Lease = 1
  RetryBase = 1
  RetryMax = 1
  MaxSends = 2
  LastStart = 2
  MaxTime = 5
  MaxAttempts = 1
  AttemptWindow = 2
  Lockout = 1
  Cooldown = 1
  MaxResends = 2
  ResendWindow = 4
INVARIANTS
  RightChannel
SYMMETRY OtpSymmetry
CHECK_DEADLOCK FALSE
