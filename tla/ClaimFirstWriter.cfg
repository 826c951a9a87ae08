CONSTANTS
  Approvals = {a1}
  Deciders = {d1, d2}
  NoApproval = NoApproval
  Sessions = {s1}
  MaxFrames = 1
SPECIFICATION FairSpec
PROPERTY FirstWriterWins
CHECK_DEADLOCK FALSE
