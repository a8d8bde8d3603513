SPECIFICATION Spec
CONSTANTS
  Calls = {c1, c2}
  Clients = {k1}
  MaxConcurrent = 1
  Threshold = 2
  Timeout = 1
  NoCall = NoCall
  NoClient = NoClient
INVARIANTS AnswersOwnRequest
