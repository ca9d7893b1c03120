SPECIFICATION FairSpec
CONSTANTS
  Contents = {old, new}
  MaxCommits = 3
  MaxFaults = 2
INVARIANTS
  TypeOK
  BusyIsTrue
PROPERTIES
  DoneIsDeployed
  UpdateEnds
CHECK_DEADLOCK FALSE
