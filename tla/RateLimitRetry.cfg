CONSTANTS
  Ips = {i1, i2}
  Arrivals = {r1}
  Limits = {1, 2}
  Period = 3
  Skew = 0
  MaxClock = 8
SPECIFICATION RateSpec
SYMMETRY Interchangeable
INVARIANT
  RetryAfterHonoured
