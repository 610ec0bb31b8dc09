CONSTANTS
  Assets = {a1, a2}
  Users = {u1, u2}
  Slots = {s1, s2}
  IncidentSlots = {}
  Workers = {w1}
SPECIFICATION ServerSpec
SYMMETRY Symmetry
INVARIANTS
  StatusTracksLoans
  AtMostOneActiveLoan
PROPERTIES
  ServesSerially
  CustodyKept
\* Once every slot is used and every loan is returned nothing is left to do.
CHECK_DEADLOCK FALSE
