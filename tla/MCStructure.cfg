SPECIFICATION Spec
CONSTANTS
  Layouts = {"TEIRING", "LEVELING", "BSM"}
  HWM = 2
  ScaleFactor = 2
  FlushSizes = {1, 2}
  Erasing = {"TEIRING", "LEVELING"}
  Restarting = {"LEVELING"}
  MaxRecords <- MCMaxRecords
INVARIANTS
  TypeOK
  RecordsKept
  ErasedStayErased
  RecencyOrdered
  PlansHold
  StateIsReal
CHECK_DEADLOCK FALSE
