\* Two departments, one request at a time.
SPECIFICATION DepSpec
CONSTANTS
  NONE = NONE
  Request = {r1}
  Dept = {d1, d2}
  Employee = {}
INVARIANTS
  NoCircularDepartments
CHECK_DEADLOCK FALSE
