SPECIFICATION FairSpec
CONSTANTS
  Trades = {t1, t2}
  Settlers = {"beat", "cycle"}
  Trader = trader
  None = none
  DayLength = 2
  Evening = 1
  Days = 1
  PerLoss = 1
  Limit = 1
  MaxExposure = 2
  LossLimit = 1
  MaxFaults = 1
INVARIANTS
  TypeOK
  StreakIsCounted
  NoLossForgotten
PROPERTIES
  PausedAfterStreak
  ResultIsSettled
