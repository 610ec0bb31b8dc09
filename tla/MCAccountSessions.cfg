CONSTANTS
  Browsers = {b1, b2}
  Subjects = {u1, u2}
  DemoSubjects = {u1, u2}
  Keys = {k1, k2, k3}
  Workers = {w1, w2}
  MaxCrashes = 1
  MaxLapsed = 1
SPECIFICATION AccountSessionsSpec
SYMMETRY Symmetry
INVARIANTS
  AccountSessionsTypeOK
  SignInsTracked
  OpenRowsHeld
PROPERTY KeyKeepsAccount
\* Once every key is used no further session can be started.
CHECK_DEADLOCK FALSE
