\* one pull subscription, polled or in an executor
CONSTANTS
  Publishers = {p1}
  Subscriptions = {s1}
  PullSubscriptions = {s1}
  QueueDepth = 2
  Bodies = {"valid", "foreign"}
  MaxCalls = 2
  NoTask = NoTask
SPECIFICATION PullFairSpec
INVARIANTS PullTypeOK CallbackHoldsSubscription PollingNeverStalls
PROPERTIES ImplementsLatestWins TriggerReachesTake PollingDelivery
