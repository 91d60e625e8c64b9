SPECIFICATION UnlockedSpec
CONSTANTS
  MaxBackgroundGC = 2
  MaxRequests = 3
  MaxDrops = 0
  DropFaults = FALSE
  Writers = 1
CHECK_DEADLOCK FALSE
INVARIANTS
  CloseQuiesces
