SPECIFICATION FairSpec
CONSTANTS
  Brackets = {b1}
  MaxOrders = 1
  Lots = 2
  Cap = 2
  MaxExposure = 2
  MaxFaults = 0
PROPERTY RemainderIsCancelled
CHECK_DEADLOCK FALSE
