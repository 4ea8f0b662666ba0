SPECIFICATION FairSpec
CONSTANTS
  a = a
  u = u
  None = None
  Agents = {a}
  Outsiders = {u}
  MaxLoops = 1
  MaxMsgs = 3
  MaxSends = 2
  MaxRuns = 2
  MaxTrouble = 1
  Limit = 1
  Serial = TRUE
INVARIANTS
  AtLeastOnce
  NoDoubleDispatch
  OneReply
  WakeNotLost
  ReplyOwed
PROPERTIES
  Delivered
