CONSTANTS
  Assets = {a1}
  Users = {u1}
  Slots = {s1}
  IncidentSlots = {i1}
SPECIFICATION DeskSpec
INVARIANT LostStaysOutOfStock
\* Once every slot is used nothing is left to do.
CHECK_DEADLOCK FALSE
