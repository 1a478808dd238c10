CONSTANTS
  t1 = t1  t2 = t2
  s1 = s1  s2 = s2  s3 = s3  s4 = s4
  org1 = org1  org2 = org2
  l1 = l1  l2 = l2
  Tickets = {t1, t2}
  Statuses = {s1, s2, s3}
  Slas = {l1, l2}
  Receivers = {r1}
  OrgOf <- OneOrgOf
  Times = {1}
  Null = Null
  MaxNow = 2
  MaxEdits = 3
  MaxFaults = 0
SPECIFICATION MCFairSpec
PROPERTY EveryTicketChecked
CHECK_DEADLOCK FALSE
