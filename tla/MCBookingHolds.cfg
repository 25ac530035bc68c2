SPECIFICATION Spec
CONSTANTS
  Slots = {s1, s2}
  Holds = {h1, h2, h3}
  Attempts = {a1, a2}
  Procs = {p1, p2}
  Ttl = 1
  MaxNow = 1
  MaxMoves = 2
  None = None
SYMMETRY Symmetry
INVARIANTS
  HeldSlotHasHold
PROPERTIES
  ImplementsSlotSale
