SPECIFICATION Spec
CONSTANTS
  k1 = k1
  r1 = r1
  j1 = j1
  Key = {k1}
  Writer = {}
  Reader = {r1}
  GCJob = {j1}
  MaxVal = 2
  MaxSeq = 3
  MaxFile = 4
  MaxCrash = 0
  SepBeforeFlush = FALSE
  LevelMerges = {FALSE}
  GCFaults = FALSE
  WalLoss = FALSE
SYMMETRY Symmetry
CHECK_DEADLOCK FALSE
INVARIANTS
  SnapshotReadable
