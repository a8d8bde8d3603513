SPECIFICATION Spec
CONSTANTS
  Calls = {c1, c2, c3}
  Clients = {k1, k2, k3}
  MaxConcurrent = 2
  MaxPoolSize = 2
  Modulus = 8
  NoClient = NoClient
SYMMETRY Perms
INVARIANTS ClientExclusive ClientsWithinLimit
           CounterBounded SlowPathNeedsLoss
