SPECIFICATION FairSpec
CONSTANTS
  Depth = 1
  Callers = {c1, c2}
  Insts = {i1, i2, i3, i4}
  MaxFailures = 1
  MaxCloses = 2
  NoInst = NoInst
INVARIANTS TypeOK OverfillBounded OneOwner NothingLost
PROPERTY Refills
CHECK_DEADLOCK FALSE
