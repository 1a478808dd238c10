CONSTANTS
  t1 = t1  t2 = t2
  s1 = s1  s2 = s2  s3 = s3  s4 = s4
  org1 = org1  org2 = org2
  l1 = l1  l2 = l2
  Tickets = {t1}
  Statuses = {s1, s2, s3}
  Slas = {l1}
  Receivers = {r1, r2}
  OrgOf <- OneOrgOf
  Times = {2, 4}
  Null = Null
  MaxNow = 5
  MaxEdits = 2
  MaxFaults = 1
SPECIFICATION Spec
SYMMETRY MCSymmetry
INVARIANTS TypeOK LevelIsExact
PROPERTIES LedgerSpec AlertJustified
CHECK_DEADLOCK FALSE
