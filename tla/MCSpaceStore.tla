---------------------------- MODULE MCSpaceStore ----------------------------
EXTENDS SpaceStore

CONSTANT Late  \* a user who is no member at first

\* The users beside the founder play the same part, and at most one of them is a
\* member at first: which of them it is makes no difference.
MCInit == Init /\ role[Late] = "none"
MCSpec == MCInit /\ [][Next]_vars /\ Fairness
=============================================================================
