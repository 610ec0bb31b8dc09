CONSTANTS
  Assets = {a1}
  Users = {u1, u2}
  Slots = {s1}
  IncidentSlots = {i1}
  Workers = {w1, w2}
SPECIFICATION ServerSpec
SYMMETRY Symmetry
INVARIANTS
  ServerTypeOK
  StatusExplained
  ApprovedHasRecord
  EveryChangeLogged
  ReturnNeverOverlooked
\* A retired asset with no loan out leaves nothing to do.
CHECK_DEADLOCK FALSE
