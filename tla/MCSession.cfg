\* Two tabs of one browser, a user who is changed, and an unsteady server.
SPECIFICATION FairSpec
CONSTANTS
  Tab = {t1, t2}
  Call = {c1}
  User = {"admin"}
  Role = {"admin", "viewer"}
  FirstUser = "admin"
  TTL = 1
  MaxLogin = 1
  MaxTime = 2
  MaxChanges = 1
INVARIANTS
  TypeOK
  LoadingIsLogin
PROPERTIES
  RoleWasHeld
  LostToOthers
  SessionComes
