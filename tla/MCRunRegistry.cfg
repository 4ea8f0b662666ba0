SPECIFICATION Spec
CONSTANTS
  a = a
  g = g
  b = b
  d = d
  t1 = t1
  t2 = t2
  None = None
  Order <- MCOrder
  Gates = {g}
  Directives = {d}
  Tasks = {t1, t2}
  Tolerances <- MCTolerances
  MaxCrashes = 2
  MaxFaults = 1
CONSTRAINT MCTroubles
VIEW MCView
SYMMETRY MCTaskSymmetry
INVARIANTS
  ActiveHasTask
  NoOrphanRow
  SuccessIsComplete
PROPERTIES
  NeverAutoResumes
