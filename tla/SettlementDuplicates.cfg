SPECIFICATION FairSettlementSpec
CONSTANTS
  CliDays = {1, 2}
  MaxProducts = 1
  MaxResets = 0
PROPERTIES
  TemperatureIsOptional
CHECK_DEADLOCK FALSE
