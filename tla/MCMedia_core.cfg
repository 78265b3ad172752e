\* Every operation overlaps with every other, every failure may happen.
SPECIFICATION Spec
CONSTANTS
  m1 = m1 m2 = m2 m3 = m3
  k1 = k1 k2 = k2 k3 = k3 k4 = k4
  r1 = r1 r2 = r2
  s1 = s1 e1 = e1 o1 = o1
  NONE = NONE GONE = GONE
  MediaId <- Ids2
  Key <- Keys3
  Slider = {s1}
  Employee = {e1}
  Office = {}
  Request <- Two
  Ops = {"upload", "replace", "process", "update", "delete", "bulkDelete",
         "cleanup", "setImage", "removeImage", "newSlider", "newEmployee",
         "createEntity", "updateEntity", "deleteEntity"}
  Faults = {"storage", "database", "crash"}
SYMMETRY Symmetry23
INVARIANTS
  TypeOK
  MissingBlobExplained
  NamesNotShared
  NamedBlobsPresent
  ReferencesResolve
PROPERTIES
  ImplementsAssetLifecycle
