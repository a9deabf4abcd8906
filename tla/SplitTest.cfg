\* test -> npm-publish on one artifact: can a split test raise "we can't be here"?
SPECIFICATION Spec
CONSTANTS
  a = a
  b = b
  Steps <- PublishSteps
  Artifacts <- OneArtifact
  StepParents <- PublishParents
  ArtifactParents <- Unrelated
  ArtifactSteps <- PublishSteps
  WaitSteps <- Nothing
  FailChecks <- PublishParents
  PassChecks <- PublishNoChecks
  GlobalVerdicts <- PublishVerdicts
  OwnVerdicts <- PublishVerdicts
  UserResults <- SplitResults
  EarlierResults <- Nothing
  EarlierSteps <- Nothing
  Failures <- Nothing
  MaxInflight = 2
INVARIANTS
  NeverCantBeHere
