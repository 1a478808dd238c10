CONSTANTS
  u1 = u1  u2 = u2  w1 = w1  w2 = w2  o1 = o1  o2 = o2  o3 = o3
  s1 = s1  s2 = s2  s3 = s3  r1 = r1  r2 = r2  r3 = r3  k1 = k1  k2 = k2
  Procs = {p1, p2}
  Users = {u1, u2}
  Passwords = {w1, w2}
  Orgs = {o1, o2, o3}
  Sessions = {s1, s2, s3}
  Refreshes = {r1, r2, r3}
  Codes = {k1, k2}
  Null = Null
  Unset = Unset
  Absent = Absent
  Ops = {"login", "oauth", "register", "issue", "verify_email", "recover", "refresh", "logout", "reset_password", "visit", "set_organization", "create_organization", "delete_workspace", "verify_two_fa"}
  MaxRequests = 3
  MaxFaults = 1
  MaxLapses = 1
  MaxEvents = 3
SPECIFICATION MCSpec
CONSTRAINT MCBound
SYMMETRY MCSymmetry
INVARIANTS TypeOK LogoutEnds RedeemedOnce
PROPERTY ReadYourWrites
CHECK_DEADLOCK FALSE
