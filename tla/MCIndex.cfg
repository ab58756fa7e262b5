SPECIFICATION Spec
CONSTANTS
  LeafFanout = 2
  InternalFanout = 2
  SizeModulus = 64
  Modes <- MCModes
  HWM = 2
  LWM = 1
  Cap = 3
  ScaleFactor = 2
  MaxLevels = 2
INVARIANTS
  TypeOK
  ScanExact
  ShardsSound
  SearchExact
  LookupNewest
  RangeAnswersComplete
  StaticExact
  TaggedEraseEffective
PROPERTY
  BalanceKept
CHECK_DEADLOCK FALSE
