--------------------------- MODULE MCRunRegistry ---------------------------
(* A node a and a gate g, or (MCOrderOfThree) another node behind them;    *)
(* two executions may overlap.                                             *)
EXTENDS RunRegistry, TLC

CONSTANTS a, g, b, d, t1, t2

MCOrder        == <<a, g>>
MCOrderOfThree == <<a, g, b>>
\* a run that goes on without its node, and one that goes on without its approval
MCTolerances   == {{a}, {g}}
MCStrict       == {{}}
(* What the properties of MCRunRegistry.cfg and the steps still read: not  *)
(* the history settled, and of a task only what it has use for where it    *)
(* stands.                                                                 *)
MCView ==
  LET at(places)  == {t \in Tasks : pc[t] \in places}
      over        == at({"none", "ending", "closing", "ended"})
      unread      == at({"none", "closing", "ended"}) \ {latest}
  IN <<up, record, store, replay, current, pc, killed, engine,
       released, ran, sent, tolerant, crashes,
       cold \cap at({"recall"}), unwinding \cap at({"ending"}),
       [t \in Tasks \ over |-> <<idx[t], snap[t]>>],
       [t \in Tasks \ unread |-> <<steps[t], fin[t]>>]>>

\* Two crashes, or one behind or before an operation of the store that fails.
MCTroubles == crashes + faults <= 2

MCTaskSymmetry == Permutations({t1, t2})
============================================================================
