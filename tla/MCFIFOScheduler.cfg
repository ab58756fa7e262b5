SPECIFICATION FairSpec
CONSTANTS
  w1 = w1
  w2 = w2
  Workers = {w1, w2}
  MaxTasks = 3
INVARIANTS
  TypeOK
  RunOnceInOrder
PROPERTIES
  QueuedIsStarted
  ShutdownEnds
CHECK_DEADLOCK FALSE
