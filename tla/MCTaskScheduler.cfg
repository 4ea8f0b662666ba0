SPECIFICATION Spec
CONSTANTS
  t1 = t1
  t2 = t2
  bad = bad
  Tasks <- MCTasks
  BadTrigger <- MCBadTrigger
  MaxFail = 2
SYMMETRY Sym
INVARIANTS
  JobServesActive
PROPERTIES
  PausedStartsNoRun
  TrippedStartsNoRun
  SavedTasksKept
