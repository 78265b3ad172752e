\* One user, one request at a time, no failure: a login and a change of password.
SPECIFICATION Spec
CONSTANTS
  u1 = u1 u2 = u2
  s1 = s1 s2 = s2
  t1 = t1 t2 = t2
  r1 = r1 r2 = r2
  NONE = NONE
  User = {u1}
  Session <- Sessions2
  ResetToken = {t1}
  Request <- One
  MaxPw = 1
  Ops = {"login", "logout", "change", "createUser"}
  Faults = {}
PROPERTIES
  CurrentSessionKept
