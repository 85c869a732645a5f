CONSTANTS
  Providers = {p1}
  Searches = {s1, s2}
  Policies <- MCOnePolicy
  MaxCount = 2
  MaxInstances = 1
  MaxTime = 3
SPECIFICATION Spec
PROPERTIES
  RefusedUntilExpiry
CHECK_DEADLOCK FALSE
