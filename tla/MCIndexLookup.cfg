SPECIFICATION Spec
CONSTANTS
  LeafFanout = 2
  InternalFanout = 2
  SizeModulus = 64
  Modes <- MCLookupModes
  HWM = 2
  LWM = 1
  Cap = 3
  ScaleFactor = 2
  MaxLevels = 2
INVARIANT LookupHonoursErase
CHECK_DEADLOCK FALSE
