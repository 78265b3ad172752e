\* One request: what the tree route shows.
SPECIFICATION Spec
CONSTANTS
  Category = {c1, c2}
  Content = {}
  Request = {r1}
  NONE = NONE
  UNDEFINED = UNDEFINED
INVARIANTS TreeShowsAll
