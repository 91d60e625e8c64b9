CONSTANTS
  Key <- KeySet
  Hash <- HashOf
  Sizes <- SizesOf
  NumMain = 2
  NumLog = 3
  MainSize = 4
  LogSize = 4
  PoolSize = 6
  Overhead = 1
  MinFree = 2
  InPlaceUpdate = TRUE
  KeyFaults = TRUE
  MaxPuts = 5
  MaxFaults = 1
SPECIFICATION Spec
INVARIANTS
  TypeOK
  ReadsLatest
  FlushedSurvives
  SegmentsExclusive
  FrontsAgree
  RatiosCurrent
  VictimFound
CHECK_DEADLOCK FALSE
