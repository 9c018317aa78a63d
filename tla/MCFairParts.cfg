SPECIFICATION FairPartsSpec
CONSTANTS
  a = a
  b = b
  k1 = k1
  k2 = k2
  Requests = {q1, q2}
  Connections = {a}
  Keys = {k1, k2}
  Rates = {"r0", "r1"}
  DefaultRate = "r0"
  None = None
  Broken = Broken
  Operations = {"get", "patch", "overwrite", "secret", "fx"}
  Faults = {"give-up", "crash"}
  InitialFiles <- MCInitialFiles
  MaxSaves = 2
  Callers = {u1, u2}
  Loads = {l1, l2, l3}
  NoLoad = NoLoad
  Ttl = 1
  MaxCacheClock = 1
  MaxGeneration = 1
  Links = {a, b}
  MaxSettingsWrites = 2
  MaxSettingsLoads = 1
INVARIANTS
  SecretsNeverOlder
  QuietFilesAgree
  CachedSinceBust
  SingleFlight
  ServedSinceBust
  QuietSettingsAgree
PROPERTIES
  BrokenFileKept
  SavesSettle
  GetSettles
  NeverPoisoned
  KeepsWriteOrder
  LaneDrains
CHECK_DEADLOCK FALSE
