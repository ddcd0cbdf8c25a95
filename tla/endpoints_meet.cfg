CONSTANTS
  Characters = {"a", "b", "/", "_"}
  Slash = "/"
  Underscore = "_"
  Topics <- MCTopics
  Publishers = {p1}
  Subscriptions = {s1, s2}
  PushSubscriptions = {s1}
  QueueDepth = 1
  MaxCalls = 2
  NoTopic = NoTopic
SPECIFICATION Spec
INVARIANT TypeOK
PROPERTY ValidEndpointsMeet
CHECK_DEADLOCK FALSE
