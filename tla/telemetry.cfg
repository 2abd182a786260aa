SPECIFICATION TFairSpec
CONSTANTS
  Setups <- MCSetups
  QueueCap = 2
  RingCap = 2
  DefaultLimit = 1
  SubCap = 1
  ForwardCap = 2
  BatchMax = 2
  RotateLines = 2
  MaxSegments = 2
  MaxEmits = 6
  MaxForwarded = 3
  MaxRestarts = 1
  MaxFaults = 1
  MaxConnects = 1
  MaxTargets = 1
  MaxPrunes = 1
INVARIANTS
  TTypeOK
  NoSplice
  SegmentsBounded
  CloseFlushes
  RingNewest
  AtMostOnce
  SourcesAgree
PROPERTIES
  AuditTrail
  CloseEnds
CHECK_DEADLOCK FALSE
