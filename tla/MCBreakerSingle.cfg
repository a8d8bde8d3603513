SPECIFICATION Spec
CONSTANTS
  Threads = {t1}
  Threshold = 2
  Timeout = 2
  MaxFailures = 4
PROPERTIES ImplementsAtomic
