CONSTANTS
  Sessions = {s1, s2}
  MaxLines = 3
  Limit = 2
  Retention = 1
  MaxDays = 2
SPECIFICATION Spec
INVARIANTS TypeOK SessionOrder MissesOnlyTies
SYMMETRY Symmetry
CHECK_DEADLOCK FALSE
