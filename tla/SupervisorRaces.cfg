SPECIFICATION Spec
CONSTANTS
  Ids = {a}
  Clients = {c1, c2}
  Reaper = reaper
  Main = main
  Pids = {p1, p2}
  None = None
  CIDMin = 3
  CIDMax = 4
  Kinds = {"restore"}
  Mems = {1}
  MaxConcurrent = 1
  MemoryBudget = 0
  ShutdownTerminatesAll = FALSE
  OnePerId = FALSE
  PidReuse = TRUE
  MaxStarts = 2
  MayFail = {"place", "rekey", "redis"}
SYMMETRY Symmetry
INVARIANTS TypeOK CidsExclusive CidsAccounted NoStrayVmm TrackedIsCapped
CHECK_DEADLOCK FALSE
