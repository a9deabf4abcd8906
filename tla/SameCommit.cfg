\* Do two flows on the same commit pass when nothing fails?
SPECIFICATION Spec
CONSTANTS
  f1 = f1
  f2 = f2
  f3 = f3
  a = a
  b = b
  c1 = c1
  c2 = c2
  c3 = c3
  Contents <- TwoContents
  Flows <- TwoFlows
  Commits <- OneCommit
  Jobs <- TwoFlowsJobs
  Targets <- Docker
  After <- InParallel
  Faults <- NoFault
CHECK_DEADLOCK FALSE
INVARIANTS
  ParallelFlowsPass
