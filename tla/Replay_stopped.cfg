SPECIFICATION ReplaySpec
CONSTANTS
  MaxAsked = 3
INVARIANTS
  StoppedNotReplayed
CHECK_DEADLOCK FALSE
