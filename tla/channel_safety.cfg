\* one publisher, one CallbackPush and one WaitSetPull subscription
CONSTANTS
  Publishers = {p1}
  Subscriptions = {s1, s2}
  PullSubscriptions = {s2}
  QueueDepth = 2
  Bodies = {"valid"}
  MaxCalls = 3
  NoTask = NoTask
SPECIFICATION Spec
INVARIANTS TypeOK NoLostWakeup DispatchTouchesLiveObjects DetachedBeforeClosed BackendOutlivesUsers
PROPERTY ImplementsLatestWins
