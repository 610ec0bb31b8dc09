CONSTANTS
  a1 = a1
  a2 = a2
  a3 = a3
  a4 = a4
  Assets = {a1, a2, a3, a4}
  Users = {u1, u2}
  Slots = {s1, s2}
  IncidentSlots = {i1, i2}
  Sessions = {n1, n2}
  Managers = {m1, m2}
  MaxRecordings = 1
  DemoEmployee = u1
  DemoAdmin = m1
  LoanedAsset = a1
  ReturnedAsset = a2
  CountedAsset = a4
  DemoIncident <- Incident
  MaxCalls = 4
SPECIFICATION DemoSpec
SYMMETRY Symmetry
INVARIANTS
  StatusExplained
  InventoryAuditComplete
PROPERTIES
  ClosedSessionsFinal
  SeedRestoresDemo
  SeedTwiceIsOnce
\* The model stops when the number of calls is used up.
CHECK_DEADLOCK FALSE
