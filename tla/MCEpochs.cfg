SPECIFICATION FairSpec
CONSTANTS
  c1 = c1
  c2 = c2
  Clients = {c1, c2}
  Modes <- MCModes
CHECK_DEADLOCK FALSE
INVARIANTS
  TypeOK
  OneReconstruction
  PinnedHeadKnown
  SnapshotExact
  PinnedNotFreed
  JobsConserved
PROPERTIES
  ReconstructionFinishes
  AwaitReturns
