SPECIFICATION Spec
CONSTANTS
  c0 = c0
  c1 = c1
  CF = {c0, c1}
  DefaultCF = c0
  MaxFile = 3
  MaxCrash = 2
  MaxGC = 2
  LevelMerge = TRUE
  RangeDeletes = TRUE
  ManifestFaults = TRUE
CHECK_DEADLOCK FALSE
INVARIANTS
  ManifestFilesExist
