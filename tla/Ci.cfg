\* A run of the program with four tasks for the local queue and two other queues.
SPECIFICATION CiFairSpec
CONSTANTS
  t1 = t1
  t2 = t2
  t3 = t3
  t4 = t4
  workers = workers
  quay = quay
  Tasks <- FourTasks
  Calls <- FourCalls
  OtherQueues <- TwoQueues
CHECK_DEADLOCK FALSE
INVARIANTS
  Sequential
  WaitingTasksAborted
  ClosedInOrder
  OnlyFatalFlowsAbort
  ZeroMeansPassed
PROPERTIES
  EventsSpec
  CiSettles
