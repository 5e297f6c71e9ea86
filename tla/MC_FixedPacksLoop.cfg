SPECIFICATION LoopSpec
CONSTANTS
  MaximumPackSize = 12
  MinimumPackSize = 5
  MaxSessions = 72
INVARIANT PacksAreExact
CHECK_DEADLOCK FALSE
