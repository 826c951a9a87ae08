SPECIFICATION Spec
CONSTANTS
  Ids = {a}
  Clients = {c1}
  Reaper = reaper
  Main = main
  Pids = {p1, p2}
  None = None
  CIDMin = 3
  CIDMax = 4
  Kinds = {"restore"}
  Mems = {1}
  MaxConcurrent = 1
  MemoryBudget = 0
  ShutdownTerminatesAll = FALSE
  OnePerId = TRUE
  PidReuse = FALSE
  MaxStarts = 1
  MayFail = {}
INVARIANT RunningIsRecorded
CHECK_DEADLOCK FALSE
