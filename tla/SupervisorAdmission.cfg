SPECIFICATION Spec
CONSTANTS
  Ids = {a, b}
  Clients = {c1, c2}
  Reaper = reaper
  Main = main
  Pids = {p1, p2}
  None = None
  CIDMin = 3
  CIDMax = 4
  Kinds = {"launch"}
  Mems = {1, 2, 3}
  MaxConcurrent = 1
  MemoryBudget = 2
  ShutdownTerminatesAll = FALSE
  OnePerId = FALSE
  PidReuse = FALSE
  MaxStarts = 1
  MayFail = {}
SYMMETRY Symmetry
INVARIANT OvershootBounded
CHECK_DEADLOCK FALSE
