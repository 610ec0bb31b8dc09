CONSTANTS
  Assets = {a1, a2}
  Managers = {m1, m2}
  Sessions = {s1, s2}
  MaxRecordings = 2
  Workers = {w1, w2}
SPECIFICATION InventoryServerSpec
INVARIANTS
  InventoryServerTypeOK
  InventoryAccounted
PROPERTY SettledSessionsFinal
\* Once every session is closed nothing is left to do.
CHECK_DEADLOCK FALSE
