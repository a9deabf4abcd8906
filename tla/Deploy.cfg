\* One flow deploys to a deployment of two pods, among everything that may disturb it.
SPECIFICATION FairSpec
CONSTANTS
  f1 = f1
  f2 = f2
  a = a
  b = b
  p1 = p1
  p2 = p2
  Flows <- OneFlow
  Images <- TwoImages
  Pods <- TwoPods
  FirstImage <- a
  Replicas = 2
  MaxEvents = 1
  MaxGeneration = 3
  Disturbances <- All
CHECK_DEADLOCK FALSE
INVARIANTS
  PassedMeansRolledOut
PROPERTIES
  OnlySilentPodsKeepWaiting
