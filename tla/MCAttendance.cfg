CONSTANTS
  q1 = q1
  q2 = q2
  q3 = q3
  Requests = {q1, q2, q3}
  MaxVersion = 5
SPECIFICATION AttendanceSpec
SYMMETRY AnyRequest
INVARIANT AttendanceMatchesSession
PROPERTY StaleDecisionLoses
CHECK_DEADLOCK FALSE
