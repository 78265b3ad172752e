\* Two logins overlap, the limit is one failure; two breadcrumbs climb while
\* five changes are made to three items; every route is asked for.
SPECIFICATION ReadsSpec
CONSTANTS
  NONE = NONE
  Request = {r1, r2}
  Email = {e1, e2}
  IP = {i1, i2}
  Attempt = {a1, a2, a3}
  MaxAttempts = 1
  Menu = {m1, m2}
  Item = {n1, n2, n3}
  MaxMoves = 5
INVARIANTS
  ReadsTypeOK
  FailuresBounded
  NothingPassesWhileShut
  OnlyKnownRoutesHidden
PROPERTIES
  LimitLifts
  BreadcrumbsEnd
\* The changes to the menus are bounded, and then nobody may have anything to do.
CHECK_DEADLOCK FALSE
