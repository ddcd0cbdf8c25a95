SPECIFICATION FairSpec
CONSTANTS
  s1 = s1
  s2 = s2
  Subscriptions = {s1, s2}
  Threads = {t1, t2}
  WaitSets = {w1, w2}
  QueueDepth = 2
  MaxCalls = 3
  Nobody = Nobody
  Configs <- MCConfigs
  Foreign <- MCForeign
INVARIANTS TypeOK OneReceiver OneWaitSet OnlyMisuseConflicts ExecutorDrains
PROPERTIES ImplementsLatestWins CallbackServed
