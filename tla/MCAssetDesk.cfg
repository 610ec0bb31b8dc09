CONSTANTS
  Assets = {a1}
  Users = {u1, u2}
  Slots = {s1, s2}
  IncidentSlots = {i1, i2}
SPECIFICATION DeskSpec
SYMMETRY Symmetry
INVARIANTS
  DeskTypeOK
  LoansBoundedByRepairs
  RecordsMatchRequests
  OneActiveRequest
  LoanAuditComplete
  IncidentAuditComplete
PROPERTIES
  LifecycleFollowed
  IncidentStatusKept
\* Once every slot is used nothing is left to do.
CHECK_DEADLOCK FALSE
