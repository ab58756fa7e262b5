SPECIFICATION Spec
CONSTANTS
  Writers = {w1, w2, w3}
  Readers = {}
  Flusher = f
  HWM = 2
  LWM = 1
  Cap = 4
  Deletes = {TRUE}
  IntModulus = 4
  SizeModulus = 4096
  MaxTail = 5
SYMMETRY Symmetry
CHECK_DEADLOCK FALSE
INVARIANTS
  Occupancy
  UniqueClaims
PROPERTIES
  ImplementsWindow
