\* Two accounts, one session: every operation overlaps with every other, every
\* failure may happen.
SPECIFICATION Spec
CONSTANTS
  u1 = u1 u2 = u2
  s1 = s1 s2 = s2
  t1 = t1 t2 = t2
  r1 = r1 r2 = r2
  NONE = NONE
  User <- Users2
  Session = {s1}
  ResetToken = {t1}
  Request <- Two
  MaxPw = 1
  Ops = {"login", "refresh", "logout", "revoke", "forgot", "reset", "change",
         "adminReset", "createUser", "updateUser", "activate", "deactivate",
         "bulkDeactivate", "deleteUser", "bulkDelete"}
  Faults = {"database", "crash"}
SYMMETRY SymmetryUsers
INVARIANTS
  TypeOK
  SurvivorsExplained
  SessionsHaveAccounts
PROPERTIES
  EndedSessionsStayEnded
