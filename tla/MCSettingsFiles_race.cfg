SPECIFICATION Spec
CONSTANTS
  a = a
  b = b
  k1 = k1
  k2 = k2
  Requests = {q1, q2}
  Connections = {a}
  Keys = {k1, k2}
  Rates = {"r0", "r1"}
  DefaultRate = "r0"
  None = None
  Broken = Broken
  Operations = {"patch", "secret"}
  Faults = {}
  InitialFiles <- MCConfiguredFiles
  MaxSaves = 2
SYMMETRY Interchangeable
PROPERTIES
  PatchWritesNoSecret
CHECK_DEADLOCK FALSE
