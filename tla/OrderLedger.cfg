SPECIFICATION FairSpec
CONSTANTS
  Brackets = {b1}
  MaxOrders = 2
  Lots = 2
  Cap = 2
  MaxExposure = 2
  MaxFaults = 1
INVARIANTS
  TypeOK
  BookedWithinFill
  OneTradePerOrder
  RecordedInFull
PROPERTIES
  ForgottenIsDeadOrUnlisted
  LedgerCatchesUp
CHECK_DEADLOCK FALSE
