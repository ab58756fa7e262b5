SPECIFICATION Spec
CONSTANTS
  Layouts = {"TEIRING"}
  HWM = 2
  ScaleFactor = 2
  FlushSizes = {1, 2}
  Erasing = {}
  Restarting = {"TEIRING"}
  MaxRecords <- MCMaxRecords
INVARIANTS
  RecordsKept
CHECK_DEADLOCK FALSE
