\* Every fault, while builds of another flow are announced and end, one event at a time.
SPECIFICATION FairSpec
CONSTANTS
  t1 = t1
  other = other
  Tasks <- OneTask
  ForeignBuilds <- Other
  MaxForeign = 1
  Faults <- AllFaults
CHECK_DEADLOCK FALSE
INVARIANTS
  ResultTellsBuild
  CleanupEndsTasks
PROPERTIES
  EventsGoForward
  CleanupEnds
  BuildsEnd
