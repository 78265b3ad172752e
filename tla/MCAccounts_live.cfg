\* Two handlers, each of which may fail at any statement, and crashes.
SPECIFICATION FairSpec
CONSTANTS
  u1 = u1 u2 = u2
  s1 = s1 s2 = s2
  t1 = t1 t2 = t2
  r1 = r1 r2 = r2
  NONE = NONE
  User <- Users2
  Session = {s1}
  ResetToken = {t1}
  Request <- Two
  MaxPw = 1
  Ops = {"login", "forgot", "reset", "change", "createUser",
         "bulkDeactivate", "deleteUser"}
  Faults = {"database", "crash"}
PROPERTIES
  ChangeEndsSessions
