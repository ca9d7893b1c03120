SPECIFICATION LimiterSpec
CONSTANTS
  Callers = {c1, c2}
  Interval = 3
  Burst = 2
  Drain = 1
INVARIANT RateIsSustained
