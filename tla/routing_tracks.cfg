\* every middleware and intra-process setting of two publishers and two subscriptions
CONSTANTS
  Publishers = {p1, p2}
  Subscriptions = {s1, s2}
  Pollers = {s2}
  Depth = 2
  MaxCalls = 2
  NoMessage = NoMessage
SPECIFICATION Spec
INVARIANTS TypeOK NewestReaches
PROPERTY ImplementsLatestWins
CHECK_DEADLOCK FALSE
