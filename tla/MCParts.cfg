SPECIFICATION PartsSpec
CONSTANTS
  SidebarRows = {"c1", "c2"}
  RowTitles = {"a", "b"}
  MaxRowEdits = 2
  MaxElsewhere = 1
  PickerModels = {"a", "b"}
  MaxPicks = 2
  MaxPickerSends = 1
  Urls = {"u"}
  ApiKeys = {"k"}
  NoValue = NoValue
  MaxDraftEdits = 1
  MaxTests = 1
  MaxQueue = 2
  MaxBatch = 2
  MaxEntries = 4
  MaxLogRetries = 2
  MaxAsked = 3
  Setups <- MCSetups
  MaxEffortWrites = 2
  KeepInterval = 2
  IdleTimeout = 4
  MaxStreamChunks = 2
INVARIANTS
  QuietSidebarAgrees
  SendUsesShownModel
  QuietPickerAgrees
  TestedIsSaved
  TestSpeaksInTurn
  SavedSaidStored
  DropsAccounted
  LoggedInOrder
  NeverPoisonedTalk
  LoadedStopsStayOut
  StreamStaysAlive
PROPERTIES
  ClosedFormSilent
  TranscriptKeepsStops
  AnnouncedIsServed
CHECK_DEADLOCK FALSE
