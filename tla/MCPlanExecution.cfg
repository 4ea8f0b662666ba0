SPECIFICATION FairSpec
CONSTANTS
  a = a
  b = b
  c = c
  d = d
  None = None
  Tasks = {a, b, c, d}
  Deps <- MCDeps
  Criteria = {a, c}
  Keys <- MCKeys
  Resources = {1, 2}
  Pipeline = FALSE
  LongPlan = 4
  MaxStarts = 2
  MaxVotes = 1
  MaxRedo = 1
INVARIANTS
  KeysApart
  BuildsOnSuccess
  SkipsBehindFailure
  EndIsHonest
PROPERTIES
  EndsOrWaits
CHECK_DEADLOCK FALSE
