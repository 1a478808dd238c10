CONSTANTS
  r1 = r1  t1 = t1
  Requests = {r1, r2, r3}
  Tickets = {t1}
  Null = Null
  MailTail = 1
  Workers = 1
  MaxFaults = 1
SPECIFICATION MCSpec
INVARIANTS TypeOK HistoryKept PagesComplete ShownAsStored LogTruth
PROPERTY DeliverySpec
CHECK_DEADLOCK FALSE
