SPECIFICATION Spec
CONSTANTS
  Ids = {c1, c2}
  Transcripts = {}
  Efforts = {"high"}
  Models = {}
  UserTitles = {"renamed"}
  None = None
  MaxRevision = 0
  MaxClock = 0
  Tabs = {t1, t2}
  Scenes <- MCRequests
SYMMETRY Interchangeable
INVARIANTS
  HandlerInv
  TokenPinsTranscript
  NoDanglingPointer
PROPERTIES
  PortContract
  ServesSharedRows
  OverrideTakesEffect
  ServedActiveIsListed
CHECK_DEADLOCK FALSE
