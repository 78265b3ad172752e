\* One request: a category is asked to become a root.
SPECIFICATION Spec
CONSTANTS
  Category = {c1, c2}
  Content = {}
  Request = {r1}
  NONE = NONE
  UNDEFINED = UNDEFINED
PROPERTIES AskedForRootIsRoot
