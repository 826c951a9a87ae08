SPECIFICATION FairSpec
CONSTANTS
  Ids = {a}
  Clients = {c1}
  Reaper = reaper
  Main = main
  Pids = {p1, p2}
  None = None
  CIDMin = 3
  CIDMax = 4
  Kinds = {"launch", "restore"}
  Mems = {1}
  MaxConcurrent = 1
  MemoryBudget = 0
  ShutdownTerminatesAll = TRUE
  OnePerId = TRUE
  PidReuse = TRUE
  MaxStarts = 2
  MayFail = {"build", "cgroup", "boot", "place", "rekey", "snapshot"}
INVARIANTS TrackedIsWhole TrackedIsDurable
PROPERTIES DeadAreReaped OrphansDie
CHECK_DEADLOCK FALSE
