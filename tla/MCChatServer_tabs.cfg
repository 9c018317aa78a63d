SPECIFICATION Spec
CONSTANTS
  Ids = {c1}
  Transcripts = {}
  Efforts = {"high"}
  Models = {}
  UserTitles = {"renamed"}
  None = None
  MaxRevision = 0
  MaxClock = 0
  Tabs = {t1, t2}
  Scenes <- MCTabs
SYMMETRY Interchangeable
INVARIANTS
  TypeOK
PROPERTIES
  AcceptedTurnSawStored
CHECK_DEADLOCK FALSE
