\* the poll thread destroys the backend it runs in
CONSTANTS
  Publishers = {p1}
  Subscriptions = {s1, s2}
  PullSubscriptions = {}
  QueueDepth = 1
  Bodies = {"valid"}
  MaxCalls = 1
  NoTask = NoTask
SPECIFICATION Spec
INVARIANT NoSelfJoin
