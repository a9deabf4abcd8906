\* Every graph of four packages, those with cycles too.
SPECIFICATION Spec
CONSTANTS
  Packages <- FourPackages
  RootFiles <- Root
  Graphs <- AllGraphs
  Elsewheres <- OneElsewhere
  ListOf <- ByIndex
CHECK_DEADLOCK FALSE
INVARIANTS
  OnlyDependencies
  ParentsCovered
  LayeredHashFollowsParents
