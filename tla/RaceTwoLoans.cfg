CONSTANTS
  Assets = {a1}
  Users = {u1, u2}
  Slots = {s1}
  IncidentSlots = {}
  Workers = {w1, w2}
SPECIFICATION ServerSpec
INVARIANT AtMostOneActiveLoan
\* A retired asset with no loan out leaves nothing to do.
CHECK_DEADLOCK FALSE
