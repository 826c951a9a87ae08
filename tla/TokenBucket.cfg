SPECIFICATION Spec
CONSTANTS
  Callers = {c1, c2}
  Capacity = 3
  Refill = 2
  Costs = {1, 2}
  MaxClock = 7
SYMMETRY Symmetry
INVARIANTS TypeOK RateBound
CHECK_DEADLOCK FALSE
