CONSTANTS
  o1 = o1  o2 = o2  o3 = o3  m1 = m1  m2 = m2  m3 = m3
  i1 = i1  i2 = i2  i3 = i3  u1 = u1  u2 = u2  n1 = n1  n2 = n2  n3 = n3  d1 = d1  d2 = d2
  Procs = {p1, p2}
  Orgs = {o1, o2, o3}
  Members = {m1, m2, m3}
  Invitations = {i1, i2, i3}
  Users = {u1, u2}
  Names = {n1, n2}
  Domains = {d1, d2}
  Null = Null
  Absent = Absent
  Ops = {"create_organization", "update_organization", "update_workspace", "delete_workspace", "invite", "accept", "accept_by_token", "reject", "delete_invitation", "delete_member"}
  MaxRequests = 3
  MaxFaults = 1
SPECIFICATION MCSpec
CONSTRAINT MCBound
SYMMETRY MCSymmetry
INVARIANTS TypeOK NoTwins MembersInvited AcceptedJoined OwnerBelongs
PROPERTY ProcessedStays
CHECK_DEADLOCK FALSE
