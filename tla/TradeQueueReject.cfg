SPECIFICATION Spec
CONSTANTS
  Trades = {t1, t2}
  Keys = {k1}
  Requests = {r1, r2}
  Sweep = sweeper
  None = none
  Ttl = 0
  MaxTime = 1
  MaxOrders = 2
  MaxFaults = 0
SYMMETRY Symmetric
PROPERTY RejectedIsNotExecuted
