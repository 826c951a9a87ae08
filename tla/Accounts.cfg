CONSTANTS
  Processes = {c1, c2}
  Users = {admin, u1}
  AdminUser = admin
  Roles = {"admin", "operator", "viewer"}
  Sids = {s1}
  Requests = {r1, r2}
  NoSid = NoSid
  Nobody = Nobody
  Service = svc
SPECIFICATION FairSpec
INVARIANTS TypeOK ServedWasValid
PROPERTY EveryStartServes
