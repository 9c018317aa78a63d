SPECIFICATION MCCrossTabSpec
CONSTANTS
  Viewers = {v1, v2}
  MaxTabTurns = 2
  MaxFailures = 1
  MaxDeletions = 2
SYMMETRY InterchangeableViewers
INVARIANTS
  CrossTabTypeOK
  QuietTabsAgree
  TabsInv
PROPERTIES
  AgreedSendKeepsStored
  SharesRow
CHECK_DEADLOCK FALSE
