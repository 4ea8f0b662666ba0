SPECIFICATION Spec
CONSTANTS
  a = a
  g = g
  h = h
  c = c
  x = x
  None = None
  Nodes <- MCNodes
  Extra = {x}
  Edges <- MCEdges
  Orders <- MCOrders
  Concurrencies = {1, 2}
  Snapshots <- MCSnapshots
  Gates = {g, h, c}
  Tolerant = {c}
  RetryBusiness = {a}
  ReviseTo <- MCReviseTo
  MaxRevisions = 1
  MaxRetries = 1
  MaxDirectives = 1
  Anchors = {g}
INVARIANTS
  CompletionIsWhole
PROPERTIES
  KeepsPromise
  GateSeesRework
  SerialRunsOnce
  OutputsKept
  EndsOrWaits
