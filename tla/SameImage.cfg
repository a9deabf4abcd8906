\* A second flow deploys the image whose rollout the first one gave up.
SPECIFICATION Spec
CONSTANTS
  f1 = f1
  f2 = f2
  a = a
  b = b
  p1 = p1
  p2 = p2
  Flows <- TwoFlows
  Images <- TwoImages
  Pods <- TwoPods
  FirstImage <- a
  Replicas = 1
  MaxEvents = 1
  MaxGeneration = 1
  Disturbances <- Nothing
CHECK_DEADLOCK FALSE
INVARIANTS
  NothingNewMeansRolledOut
