CONSTANTS
  ag = ag  cu = cu  a1 = a1  a2 = a2  c1 = c1  c2 = c2
  Agents = {ag}
  Customers = {cu}
  Sids = {a1, c1, c2}
  Owner <- MCOwner
  Talks = {c1, c2}
  NoSid = NoSid
  NoVisit = NoVisit
  MaxVisits = 2
  MaxCuts = 1
  MaxFaults = 1
SPECIFICATION Spec
CONSTRAINT MCBound
SYMMETRY MCSymmetry
INVARIANTS TypeOK FlagExplained ViewAgrees LatestTabJoined EndsNewest
CHECK_DEADLOCK FALSE
