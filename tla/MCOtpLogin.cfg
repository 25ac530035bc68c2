SPECIFICATION FairOtpSpec
CONSTANTS
  NoCode = NoCode
  Flows = {f1, f2}
  Challenges = {c1, c2}
  Workers = {w1}
  Requests = {}
  Channels = {"mobile"}
  Purpose = "login"
  ChallengeTTL = 1
  FlowTTL = 2
  ProofTTL = 1
  Lease = 1
  RetryBase = 1
  RetryMax = 1
  MaxSends = 2
  LastStart = 1
  MaxTime = 4
  MaxAttempts = 1
  AttemptWindow = 2
  Lockout = 1
  Cooldown = 1
  MaxResends = 2
  ResendWindow = 4
PROPERTIES
  EveryCodeSettles
CHECK_DEADLOCK FALSE
