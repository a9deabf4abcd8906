\* Does the hash of a package follow those of its parents?
SPECIFICATION Spec
CONSTANTS
  Packages <- FourPackages
  RootFiles <- Root
  Graphs <- AllGraphs
  Elsewheres <- OneElsewhere
  ListOf <- ByIndex
CHECK_DEADLOCK FALSE
INVARIANTS
  HashFollowsParents
