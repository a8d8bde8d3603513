SPECIFICATION LiveSpec
CONSTANTS
  MaxCalls = 2
  MaxConns = 2
PROPERTY EveryCallReturns
CHECK_DEADLOCK FALSE
