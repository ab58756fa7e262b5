SPECIFICATION Spec
CONSTANTS
  Writers = {w1}
  Readers = {r1, r2}
  Flusher = f
  HWM = 2
  LWM = 1
  Cap = 4
  Deletes = {FALSE}
  IntModulus = 64
  SizeModulus = 4096
  MaxTail = 5
SYMMETRY Symmetry
INVARIANTS
  TypeOK
  ReferencesConserved
  OldHeadCovered
  ViewsProtected
  ViewNotOverwritten
PROPERTIES
  OldHeadReplacedUnused
