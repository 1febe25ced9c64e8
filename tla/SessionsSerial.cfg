CONSTANTS
  Users = {admin, other}
  Seed = admin
  Roles = {"admin", "supervisor"}
  Followed = {other}
  Requests = {r1, r2}
  RefreshTokens = {t1, t2, t3}
  AccessTokens = {a1, a2, a3}
  MaxPasswords = 1
  MaxUpdates = 2
  SameUser = FALSE
  Nil = Nil
SPECIFICATION Spec
SYMMETRY Symmetry
INVARIANTS
  TypeOK
  SingleSession
  ClosedOnAllDevices
PROPERTIES
  AdminsAnswerToAdmins
CHECK_DEADLOCK FALSE
