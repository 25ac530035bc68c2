SPECIFICATION Spec
CONSTANTS
  s1 = s1
  s2 = s2
  Slots = {s1, s2}
  Holds = {h1}
  Orders = {o1, o2}
  Prices = {2}
  Amounts = {1, 2}
  Start <- Starts
  Ttl = 1
  Window = 1
  ExceptionAmounts = {1, 2, 3}
  RawEvents = {"payment.captured", "order.paid", "payment.failed", "payment.authorized"}
  EventName <- Names
  MaxNow = 2
  MaxInFlight = 2
  MaxMoves = 1
  None = None
SYMMETRY Symmetry
INVARIANTS
  SessionIsPaidFor
  RefundFollowsPolicy
PROPERTIES
  SoldWithinTtl
CHECK_DEADLOCK FALSE
