SPECIFICATION Spec
CONSTANTS
  Trades = {t1, t2}
  Settlers = {"cycle"}
  Trader = trader
  None = none
  DayLength = 3
  Evening = 1
  Days = 1
  PerLoss = 1
  Limit = 3
  MaxExposure = 2
  LossLimit = 1
  MaxFaults = 0
PROPERTIES
  DailyLossStops
