SPECIFICATION Spec
CONSTANTS
  r1 = r1
  r2 = r2
  e1 = e1
  None = None
  Relays = {r1, r2}
  Edges = {e1}
  ProjectQuotas <- MCQuotas
  Scopings <- MCScopings
  Quantities = {0, 2}
  Grace = 2
  Drift = 1
  MaxDelay = 1
  Start = 4
  MaxTime = 6
  MaxRefunds = 1
SYMMETRY Symmetric
INVARIANTS
  WindowBound
  CountedExactly
  LimitJustified
CHECK_DEADLOCK FALSE
