CONSTANTS
  o1 = o1  o2 = o2  t1 = t1  t2 = t2  s1 = s1  s2 = s2  s3 = s3
  n1 = n1  n2 = n2  n3 = n3  n4 = n4  l1 = l1  l2 = l2  l3 = l3  x1 = x1  x2 = x2
  Procs = {p1, p2}
  Orgs = {o1}
  Tickets = {t1}
  Statuses = {s1, s2}
  Priorities = {n1, n2}
  Slas = {l1}
  Names = {x1, x2}
  Null = Null
  Absent = Absent
  Ops = {"confirm_ticket", "edit_ticket"}
  MaxRequests = 2
  MaxFaults = 0
SPECIFICATION MCSpec
SYMMETRY MCSymmetry
PROPERTY StaysActivated
CHECK_DEADLOCK FALSE
