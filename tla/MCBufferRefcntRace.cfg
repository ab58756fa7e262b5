CONSTANTS
  Writers = {w1}
  Readers = {r1}
  Flusher = f
  HWM = 1
  LWM = 1
  Cap = 2
  Deletes = {FALSE}
  IntModulus = 64
  SizeModulus = 4096
  MaxTail = 3
SPECIFICATION FairSpec
PROPERTY FlushCompletes
