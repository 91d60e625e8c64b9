SPECIFICATION Spec
CONSTANTS
  k1 = k1
  j1 = j1
  j2 = j2
  Key = {k1}
  Writer = {}
  Reader = {}
  GCJob = {j1, j2}
  MaxVal = 2
  MaxSeq = 4
  MaxFile = 4
  MaxCrash = 1
  SepBeforeFlush = FALSE
  LevelMerges = {FALSE}
  GCFaults = FALSE
  WalLoss = FALSE
SYMMETRY Symmetry
CHECK_DEADLOCK FALSE
INVARIANTS
  TypeOK
  LatestReadable
  EventsExpected
  GCScoreLive
