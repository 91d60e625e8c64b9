SPECIFICATION BlockingFairSpec
CONSTANTS
  MaxBackgroundGC = 2
  MaxRequests = 4
  MaxDrops = 2
  DropFaults = TRUE
  Writers = 2
CHECK_DEADLOCK FALSE
INVARIANTS
  BlockingTypeOK
  CountersExact
  DropExcludesGC
  QueueCoversTasks
  CloseQuiesces
  NoIdleSlot
  SleepersBlocked
PROPERTIES
  DropEnds
  CloseEnds
  WaiterServed
  CloseFreesWriters
