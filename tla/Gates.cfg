\* The clocks, the instances and the searches are bounded, so a behaviour may stop
\* there.
CHECK_DEADLOCK FALSE
CONSTANTS
  Providers = {p1}
  Searches = {s1, s2}
  Policies <- MCPolicies
  MaxCount = 2
  MaxInstances = 2
  MaxTime = 2
  Ips = {i1, i2}
  Arrivals = {s1, s2}
  Limits = {1, 2}
  Period = 2
  Skew = 1
  MaxClock = 5
SPECIFICATION Gates
INVARIANTS
  TypeOK BoundedCooldown DurableWhenSettled
  RateTypeOK BurstIsBounded
PROPERTIES
  ClosesForAReason ImplementsBreaker
  RefusalEnds
SYMMETRY Symmetric
