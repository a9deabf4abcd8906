\* test on each artifact -> image of each artifact -> release, b depends on a; the set-up
\* or redis may fail, and an earlier flow may have passed test.
SPECIFICATION FairSpec
CONSTANTS
  a = a
  b = b
  Steps <- FlowSteps
  Artifacts <- TwoArtifacts
  StepParents <- FlowParents
  ArtifactParents <- BDependsOnA
  ArtifactSteps <- FlowOnArtifact
  WaitSteps <- FlowWaits
  FailChecks <- FlowParents
  PassChecks <- FlowPassChecks
  GlobalVerdicts <- FlowGlobal
  OwnVerdicts <- FlowOwn
  UserResults <- FlowResults
  EarlierResults <- FlowEarlier
  EarlierSteps <- FlowTested
  Failures <- AllFailures
  MaxInflight = 2
INVARIANTS
  WaitsForArtifactParents
  ParentsFinishFirst
  StepAgreesWithArtifacts
  LocalAgreesWithStore
  FinishedMeansIdle
  CacheHoldsEveryResult
  OnlyOddResultsCantBeHere
  ExitCodeTellsFailure
  NotRunAgainAfterPass
PROPERTIES
  NothingPublishedAfterFinal
  FlowSettles
  KeepsFlowPromise
