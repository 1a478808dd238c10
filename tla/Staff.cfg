CONSTANTS
  o1 = o1  o2 = o2  m1 = m1  m2 = m2  t1 = t1  t2 = t2  r1 = r1  r2 = r2  r3 = r3  r4 = r4  d1 = d1  x1 = x1  x2 = x2  n1 = n1  n2 = n2
  Procs = {p1, p2}
  Orgs = {o1, o2}
  Members = {m1, m2}
  Teams = {t1, t2}
  Roles = {r1, r2, r3, r4}
  Perms = {x1, x2}
  Days = {d1}
  Names = {n1, n2}
  Null = Null
  Absent = Absent
  Ops = {"update_member", "assign_role", "remove_role", "set_levels", "remove_level", "delete_member", "create_team", "delete_team", "create_role", "update_role", "delete_role"}
  MaxRequests = 2
  MaxFaults = 1
  MaxParts = 10
  MaxLevels = 4
  MaxGrants = 6
SPECIFICATION MCSpec
CONSTRAINT MCBound
SYMMETRY MCSymmetry
INVARIANTS TypeOK NoTwins SameTenant
PROPERTY UpdateExact
CHECK_DEADLOCK FALSE
