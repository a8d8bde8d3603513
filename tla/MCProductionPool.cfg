SPECIFICATION Spec
CONSTANTS
  Calls = {c1, c2, c3}
  Clients = {k1, k2, k3}
  MaxConcurrent = 2
  Threshold = 2
  Timeout = 1
  NoCall = NoCall
  NoClient = NoClient
SYMMETRY Perms
INVARIANTS TypeOK ClientExclusive ClientsWithinLimit PermitsConserved
           MetricsAccount AnswersUnique WrongAnswerNeedsTimeout BreakerNeedsFailures
