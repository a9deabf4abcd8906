\* test -> npm-publish on one artifact: is a failure of test always seen?
SPECIFICATION Spec
CONSTANTS
  a = a
  b = b
  Steps <- PublishSteps
  Artifacts <- OneArtifact
  StepParents <- PublishParents
  ArtifactParents <- Unrelated
  ArtifactSteps <- PublishSteps
  WaitSteps <- Nothing
  FailChecks <- PublishParents
  PassChecks <- PublishNoChecks
  GlobalVerdicts <- PublishVerdicts
  OwnVerdicts <- PublishVerdicts
  UserResults <- PublishResults
  EarlierResults <- Nothing
  EarlierSteps <- Nothing
  Failures <- Nothing
  MaxInflight = 2
INVARIANTS
  SkippedWhenParentFailed
