SPECIFICATION MCCrossTabSpec
CONSTANTS
  Viewers = {v1, v2}
  MaxTabTurns = 2
  MaxFailures = 0
  MaxDeletions = 1
SYMMETRY InterchangeableViewers
PROPERTIES
  NoTurnLost
CHECK_DEADLOCK FALSE
