SPECIFICATION LiveSpec
CONSTANTS
  Clients = {u1, u2}
  MaxConnections = 1
  MaxRequests = 1
  MaxOps = 2
  MaxConns = 2
INVARIANTS InStep WithinMaxConnections ConnectionsCounted RequestsCounted
PROPERTIES OperationsEnd DroppedConnectionsEnd
CHECK_DEADLOCK FALSE
