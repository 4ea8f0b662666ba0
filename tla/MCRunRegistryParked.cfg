SPECIFICATION Spec
CONSTANTS
  a = a
  g = g
  b = b
  d = d
  t1 = t1
  t2 = t2
  None = None
  Order <- MCOrderOfThree
  Gates = {g}
  Directives = {d}
  Tasks = {t1, t2}
  Tolerances <- MCStrict
  MaxCrashes = 1
  MaxFaults = 0
PROPERTIES
  ParkedWorkSurvives
