SPECIFICATION Spec
CONSTANTS
  Users = {f, u, v}
  Founder = f
  Late = v
  MaxCalls = 3
  MaxOpen = 2
  PoolSize = 2
  MaxMembers = 2
  Given = {"admin"}
  MaxUses = 1
INVARIANTS
  RevisionsConflict
CHECK_DEADLOCK FALSE
