\* Two requests overlap on one header, with three rows; and one request at a
\* time, no failures, in a media library of as many names as rows.
SPECIFICATION ImagesSpec
CONSTANTS
  Header = {h1}
  LogoId = {l1, l2, l3}
  LogoRequest = {q1, q2}
  NULL = NULL
  MediaId = {m1, m2, m3}
  Key = {k1, k2, k3}
  Slider = {}
  Employee = {e1}
  Office = {o1}
  Request = {r1}
  Ops = {"upload", "replace", "update", "delete", "bulkDelete", "setImage",
         "removeImage", "newEmployee", "createEntity", "updateEntity",
         "deleteEntity"}
  Faults = {}
  NONE = NONE
  GONE = GONE
SYMMETRY Symmetry
INVARIANTS DanglingExplained OrphansExplained
           QuiescentRowsHaveBlobs QuiescentNoLeak
\* Every identifier of a logo may be used up, and nobody then has anything to do.
CHECK_DEADLOCK FALSE
