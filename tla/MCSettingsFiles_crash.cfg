SPECIFICATION Spec
CONSTANTS
  a = a
  b = b
  k1 = k1
  k2 = k2
  Requests = {q1}
  Connections = {a}
  Keys = {k1}
  Rates = {"r0", "r1"}
  DefaultRate = "r0"
  None = None
  Broken = Broken
  Operations = {"patch"}
  Faults = {"crash"}
  InitialFiles <- MCConfiguredFiles
  MaxSaves = 1
SYMMETRY Interchangeable
INVARIANTS
  CrashLeavesOnlyOrphans
CHECK_DEADLOCK FALSE
