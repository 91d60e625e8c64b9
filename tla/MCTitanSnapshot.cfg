SPECIFICATION FairSpec
CONSTANTS
  k1 = k1
  r1 = r1
  j1 = j1
  Key = {k1}
  Writer = {}
  Reader = {r1}
  GCJob = {j1}
  MaxVal = 2
  MaxSeq = 3
  MaxFile = 3
  MaxCrash = 0
  SepBeforeFlush = FALSE
  LevelMerges = {FALSE}
  GCFaults = FALSE
  WalLoss = FALSE
CHECK_DEADLOCK FALSE
INVARIANTS
  TimelySnapshotReadable
PROPERTIES
  ObsoleteReclaimed
