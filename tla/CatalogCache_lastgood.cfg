SPECIFICATION CacheSpec
CONSTANTS
  Callers = {u1, u2}
  Loads = {l1, l2}
  NoLoad = NoLoad
  Ttl = 1
  MaxCacheClock = 1
  MaxGeneration = 1
INVARIANTS
  FailedRepullKeepsLastGood
CHECK_DEADLOCK FALSE
