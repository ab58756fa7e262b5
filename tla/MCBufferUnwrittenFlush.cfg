CONSTANTS
  Writers = {w1}
  Readers = {}
  Flusher = f
  HWM = 2
  LWM = 1
  Cap = 4
  Deletes = {FALSE}
  IntModulus = 64
  SizeModulus = 4096
  MaxTail = 4
SPECIFICATION Spec
CHECK_DEADLOCK FALSE
INVARIANT FlushCopiesRecords
