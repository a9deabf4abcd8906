\* npm and docker, every fault, one flow after another and one at any time.
SPECIFICATION FairSpec
CONSTANTS
  f1 = f1
  f2 = f2
  f3 = f3
  a = a
  b = b
  c1 = c1
  c2 = c2
  c3 = c3
  Contents <- TwoContents
  Flows <- ThreeFlows
  Commits <- ThreeCommits
  Jobs <- ThreeFlowsJobs
  Targets <- Both
  After <- SecondAfterFirst
  Faults <- EveryFault
CHECK_DEADLOCK FALSE
INVARIANTS
  CacheTellsRegistry
  PassedMeansPublished
  RerunPublishesNothing
  VersionsAscend
PROPERTIES
  PublishingEnds
