\* one CallbackPush subscription, every kind of payload
CONSTANTS
  Publishers = {p1}
  Subscriptions = {s1}
  PullSubscriptions = {}
  QueueDepth = 2
  Bodies = {"valid", "empty", "foreign"}
  MaxCalls = 3
  NoTask = NoTask
SPECIFICATION FairSpec
PROPERTIES PushDelivery TeardownCompletes ShutdownWakesAll
