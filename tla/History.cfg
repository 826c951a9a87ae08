CONSTANTS
  Requests = {r1, r2}
  Users = {u1, u2}
  Service = svc
  NoOwner = NoOwner
  Names = {n1}
  Unnamed = Unnamed
  MaxSnaps = 2
SYMMETRY Symmetry
SPECIFICATION Spec
INVARIANTS TypeOK ActsForOwner FilesMatchRows StatusTruthful ResumesNewest
