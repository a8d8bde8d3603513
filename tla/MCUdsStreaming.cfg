SPECIFICATION Spec
CONSTANTS
  Clients = {u1}
  MaxConnections = 1
  MaxRequests = 1
  MaxOps = 1
  MaxConns = 1
INVARIANT StreamingAgrees
CHECK_DEADLOCK FALSE
