\* Replacing a slider's image, one request at a time, nothing fails.
SPECIFICATION Spec
CONSTANTS
  m1 = m1 m2 = m2 m3 = m3
  k1 = k1 k2 = k2 k3 = k3 k4 = k4
  r1 = r1 r2 = r2
  s1 = s1 e1 = e1 o1 = o1
  NONE = NONE GONE = GONE
  MediaId <- Ids3
  Key <- Keys3
  Slider = {s1}
  Employee = {}
  Office = {}
  Request <- One
  Ops = {"setImage", "newSlider"}
  Faults = {}
PROPERTIES
  OldSliderImageDeleted
