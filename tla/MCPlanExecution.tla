--------------------------- MODULE MCPlanExecution ---------------------------
EXTENDS PlanExecution, TLC

CONSTANTS a, b, c, d

\* a and b are independent, c needs a, d needs b and c.
MCDeps == (a :> {}) @@ (b :> {}) @@ (c :> {a}) @@ (d :> {b, c})
\* a and b contend for both keys.
MCKeys == (a :> {1, 2}) @@ (b :> {1, 2}) @@ (c :> {}) @@ (d :> {})
=============================================================================
