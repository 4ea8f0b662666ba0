SPECIFICATION MCSpec
CONSTANTS
  Users = {f, u, v}
  Founder = f
  Late = v
  MaxCalls = 3
  MaxOpen = 2
  PoolSize = 2
  MaxMembers = 2
  Given = {"admin"}
  MaxUses = 1
INVARIANTS
  NoLostEdit
  MetadataKept
  MembersFit
PROPERTIES
  CallsEnd
CHECK_DEADLOCK FALSE
