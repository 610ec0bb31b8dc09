CONSTANTS
  ownHost = ownHost
  otherHost = otherHost
  Hosts = {ownHost, otherHost}
  AllowedHosts = {ownHost}
  MaxCode = 4
  MaxText = 5
  Subjects = {"demo_employee", "demo_admin"}
  DemoEmployee = "demo_employee"
  DemoAdmin = "demo_admin"
  DemoSubjects = {"demo_admin"}
  Claims <- Asserted
  EditedRoles <- Edited
  MaxLapses = 2
SPECIFICATION SignInSpec
INVARIANTS
  SignInTypeOK
  AnswerFitsRequest
  ManagersAsAsserted
  RoleCodesMeetReference
PROPERTIES
  EveryRequestAnswered
