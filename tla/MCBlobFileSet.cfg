SPECIFICATION Spec
CONSTANTS
  c0 = c0
  c1 = c1
  CF = {c0, c1}
  DefaultCF = c0
  MaxFile = 4
  MaxCrash = 2
  MaxGC = 2
  LevelMerge = FALSE
  RangeDeletes = FALSE
  ManifestFaults = FALSE
CHECK_DEADLOCK FALSE
INVARIANTS
  TypeOK
  Recoverable
  MemoryMatchesManifest
  GCInputsLive
PROPERTIES
  PromiseKept
