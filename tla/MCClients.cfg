SPECIFICATION ClientsSpec
CONSTANTS
  Tasks = {1, 2, 3}
  MaxAttempts = 2
  TopicCalls = {c1, c2}
  Topics = {ta}
  NoTopic = NoTopic
  Events = 2
  Senders = 2
  MaxRetries = 1
  Checked = {s1, s2}
  Waiters = {run, w1, w2}
  Run = run
INVARIANTS ConnectedHasStream InStep DeliveriesBounded
PROPERTIES OkMeansConnected OperationsEnd TasksEnd
CHECK_DEADLOCK FALSE
