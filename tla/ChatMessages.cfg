CONSTANTS
  p1 = p1  p2 = p2  o1 = o1  o2 = o2  s1 = s1  s2 = s2
  g1 = g1  g2 = g2  k1 = k1  k2 = k2
  Procs = {p1, p2}
  Orgs = {o1, o2}
  Staff = {s1, s2}
  Guests = {g1, g2}
  OrgOf <- MCOrgOf
  Convs = {k1, k2}
  Ids = {1, 2}
  None = None
  Absent = Absent
  Ops = {"say", "edit", "see", "resolve", "join", "open"}
  MaxRequests = 3
  MaxFaults = 1
SPECIFICATION MCSpec
SYMMETRY MCSymmetry
CONSTRAINT MCBound
INVARIANTS TypeOK ReopenedByCustomer LastMessageCurrent HeardByItsAudience MembersBounded
CHECK_DEADLOCK FALSE
