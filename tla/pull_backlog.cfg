\* two samples behind one trigger
CONSTANTS
  Publishers = {p1}
  Subscriptions = {s1}
  PullSubscriptions = {s1}
  QueueDepth = 2
  Bodies = {"valid"}
  MaxCalls = 2
  NoTask = NoTask
SPECIFICATION PullSpec
INVARIANT ExecutorNeverStalls
