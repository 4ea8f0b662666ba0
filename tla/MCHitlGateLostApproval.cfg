SPECIFICATION Spec
CONSTANTS
  r1 = r1
  t = t
  g = g
  h = h
  gate = gate
  risky = risky
  None = None
  Runs = {r1}
  Nodes <- MCNodes
  Tools = {gate, risky}
  RunOf <- MCRunOf
  ToolOf <- MCToolOf
  GateTools = {gate}
  Tolerances <- MCTolerances
  HandRules <- MCHandRules
  MaxApprovals = 1
INVARIANTS
  ApprovalWakes
