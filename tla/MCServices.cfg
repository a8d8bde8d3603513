SPECIFICATION ServicesSpec
CONSTANTS
  Workers = {w1, w2}
  Bounds <- MCBounds
  Latencies = {2, 3, 7}
  SlowerThan = 4
  ErrorPercent = 50
  Callers = {t1, t2, t3}
  Services = {s1}
  Addresses = {a, b}
  HostNames = {b}
  Askers = {t1, t2, t3}
  Keys = {k1}
  MaxRequests = 2
  Window = 2
  MaxTime = 3
  PoolCalls = {p1, p2, p3}
  PoolCapacity = 1
  TopicCalls = {c1, c2, c3}
  Topics = {ta}
  NoTopic = NoTopic
INVARIANTS CountersAgree AlertNeedsCause BalancersCurrent WindowBound
  StreamsInStep TopicSerial
CHECK_DEADLOCK FALSE
