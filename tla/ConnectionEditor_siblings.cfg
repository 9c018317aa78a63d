SPECIFICATION ConnectionEditorSpec
CONSTANTS
  Urls = {"u"}
  ApiKeys = {"k"}
  NoValue = NoValue
  MaxDraftEdits = 1
  MaxTests = 1
PROPERTIES
  SiblingsPassThrough
CHECK_DEADLOCK FALSE
