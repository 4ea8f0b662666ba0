SPECIFICATION FairSpec
CONSTANTS
  Shapes = {"node", "prompt"}
  MaxTasks = 3
  MaxRuns = 3
  MaxRejects = 1
  MaxDepth = 1
  ArchiveMax = 1
INVARIANTS
  DelegationEnds
  BusyIsTrue
  EndedIsArchived
PROPERTIES
  RunsEnd
CHECK_DEADLOCK FALSE
