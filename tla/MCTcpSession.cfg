SPECIFICATION LiveSpec
CONSTANTS
  MaxCalls = 3
  MaxConns = 4
INVARIANTS OwnAnswer OwedAtMostOne
PROPERTY NewConnectionServes
CHECK_DEADLOCK FALSE
