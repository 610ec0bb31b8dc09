CONSTANTS
  u1 = u1
  u2 = u2
  r1 = r1
  r2 = r2
  p1 = p1
  Workers = {w1, w2}
  Processes = {p1}
  ProcessOf <- OneProcess
  Subjects = {u1, u2}
  RoleCodes = {r1, r2}
  Identities <- Asserted
  DemoEmployee = u1
  DemoAdmin = u2
  AdminRole = r1
  Seeder = seeder
SPECIFICATION HandoverSpec
INVARIANTS
  HandoverTypeOK
  OneClient
  RolesAsAsserted
  DeadlocksNeedNewRoles
PROPERTIES
  AccountKeepsUser
  EveryHandoverEnds
