SPECIFICATION Spec
CONSTANTS
  Brackets = {b1}
  MaxOrders = 2
  Lots = 2
  Cap = 2
  MaxExposure = 4
  MaxFaults = 0
INVARIANT BracketCapHolds
CHECK_DEADLOCK FALSE
