CONSTANTS
  o1 = o1  o2 = o2  t1 = t1  t2 = t2  s1 = s1  s2 = s2  s3 = s3
  n1 = n1  n2 = n2  n3 = n3  n4 = n4  l1 = l1  l2 = l2  l3 = l3  x1 = x1  x2 = x2
  Procs = {p1, p2}
  Orgs = {o1, o2}
  Tickets = {t1, t2}
  Statuses = {s1, s2, s3}
  Priorities = {n1, n2, n3, n4}
  Slas = {l1, l2}
  Names = {x1, x2}
  Null = Null
  Absent = Absent
  Ops = {"create_ticket", "confirm_ticket", "edit_ticket", "delete_ticket", "add_note", "create_row", "edit_row", "delete_row"}
  MaxRequests = 2
  MaxFaults = 1
SPECIFICATION MCSpec
SYMMETRY MCSymmetry
CONSTRAINT MCBound
INVARIANTS TypeOK SameTenant AuditBacked AnswerHonest
PROPERTY DeletedUnused
CHECK_DEADLOCK FALSE
