SPECIFICATION Spec
CONSTANTS
  k1 = k1
  k2 = k2
  w1 = w1
  j1 = j1
  Key = {k1, k2}
  Writer = {w1}
  Reader = {}
  GCJob = {j1}
  MaxVal = 2
  MaxSeq = 4
  MaxFile = 3
  MaxCrash = 0
  SepBeforeFlush = TRUE
  LevelMerges = {TRUE, FALSE}
  GCFaults = TRUE
  WalLoss = FALSE
SYMMETRY Symmetry
CHECK_DEADLOCK FALSE
INVARIANTS
  SettledReadable
  GCScoreLive
