SPECIFICATION Spec
CONSTANTS
  Clients = {c1, c2}
  Modes = {FALSE}
  HWM = 2
  LWM = 1
  Cap = 3
  Leveling = TRUE
  MaxRecords = 4
  MaxCrashes = 0
SYMMETRY Symmetry
INVARIANTS
  LogCoversBuffer
CHECK_DEADLOCK FALSE
