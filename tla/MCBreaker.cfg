SPECIFICATION LiveSpec
CONSTANTS
  Threads = {t1, t2, t3}
  Threshold = 2
  Timeout = 1
  MaxFailures = 3
INVARIANTS TypeOK OpenHasFailure
PROPERTIES HalfOpenAfterTimeout NeverOpenToClosed NeverStuckOpen
