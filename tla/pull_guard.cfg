\* a subscription dropped while the executor waits
CONSTANTS
  Publishers = {p1}
  Subscriptions = {s1}
  PullSubscriptions = {s1}
  QueueDepth = 2
  Bodies = {"valid"}
  MaxCalls = 1
  NoTask = NoTask
SPECIFICATION PullSpec
INVARIANT WaitSetGuardsAlive
