SPECIFICATION Spec
CONSTANTS
  Clients = {c1, c2}
  Modes = {TRUE, FALSE}
  HWM = 3
  LWM = 2
  Cap = 4
  Leveling = TRUE
  MaxRecords = 5
  MaxCrashes = 2
SYMMETRY Symmetry
INVARIANTS
  TypeOK
  SerialDurable
  OneCopyPerCrash
CHECK_DEADLOCK FALSE
