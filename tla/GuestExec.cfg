SPECIFICATION FairSpec
CONSTANTS
  Requests = {"exec", "empty", "ping", "unknown", "too large"}
  RetryMax = 1
  MaxOutput = 3
  Chunk = 2
  PipeCap = 2
  WireCap = 1
  MaxProduced = 4
INVARIANTS TypeOK RunsOnce OutputCapped ZeroMeansComplete NoStragglers
PROPERTY ExecReturns
CHECK_DEADLOCK FALSE
