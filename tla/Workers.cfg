\* The flow and one more worker; the machine of the latter may go away.
SPECIFICATION FairSpec
CONSTANTS
  t1 = t1
  t2 = t2
  t3 = t3
  local = local
  remote = remote
  g1 = g1
  noGroup = noGroup
  Tasks <- ThreeTasks
  Workers <- TwoWorkers
  Local <- local
  Groups <- OneGroup
  NoGroup <- noGroup
  GroupOf <- SharedGroup
  BeforeAllResults <- AnyResult
  Unreliable <- RemoteMayGo
CHECK_DEADLOCK FALSE
INVARIANTS
  BeforeAllOnce
PROPERTIES
  EventsSpec
  TasksEnd
  WorkersStop
  IdleHealthyWorkersStop
