CONSTANTS
  Approvals = {a1, a2}
  Deciders = {d1}
  NoApproval = NoApproval
  Sessions = {s1}
  MaxFrames = 2
SPECIFICATION FairSpec
INVARIANTS TypeOK ApprovedBeforeRun NoReaderLeak
PROPERTIES HealSparesPending WaitEnds KeepsContract
CHECK_DEADLOCK FALSE
