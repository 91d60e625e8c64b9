SPECIFICATION Spec
CONSTANTS
  k1 = k1
  j1 = j1
  Key = {k1}
  Writer = {}
  Reader = {}
  GCJob = {j1}
  MaxVal = 2
  MaxSeq = 3
  MaxFile = 4
  MaxCrash = 0
  SepBeforeFlush = FALSE
  LevelMerges = {FALSE}
  GCFaults = FALSE
  WalLoss = FALSE
SYMMETRY Symmetry
CHECK_DEADLOCK FALSE
INVARIANTS
  NoLostUpdate
