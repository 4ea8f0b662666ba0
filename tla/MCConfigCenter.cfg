SPECIFICATION ConfigSpec
CONSTANTS
  Keys = {k1, k2}
  Values = {v1}
  Threads = {c1, c2, c3}
  None = None
INVARIANTS
  AckedOnDisk
  DiskFollowsStore
PROPERTIES
  WholeAndForward
