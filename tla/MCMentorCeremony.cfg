SPECIFICATION CeremonySpec
CONSTANTS
  Actors = {a1}
  Purposes = {p, q}
  Invitations = {i1, i2}
  Ceremonies = {c1, c2, c3}
  StepUps = {t1}
  NoActor = NoActor
  NoPurpose = NoPurpose
  NoInvitation = NoInvitation
  NoCeremony = NoCeremony
  CeremonyTTL = 1
  ProviderTTL = 1
  SessionTTL = 2
  IdleTTL = 1
  StepUpTTL = 1
  MaxGeneration = 2
  MaxSessions = 3
  MaxRejected = 1
  MaxTime = 2
INVARIANTS
  OneLiveSession
  EndReachesSuccessor
  NothingOutlivesDeletion
  RetiredSubjectIsClosed
PROPERTIES
  RecoveryTakesOver
SYMMETRY CeremonySymmetry
CHECK_DEADLOCK FALSE
