--------------------------- MODULE MCTaskScheduler ---------------------------
(* Two tasks that share the file, one more whose trigger does not parse,   *)
(* and a failure limit of two.                                             *)
EXTENDS TaskScheduler, TLC

CONSTANTS t1, t2, bad

MCTasks == {t1, t2, bad}
MCBadTrigger == {bad}

Sym == Permutations({t1, t2})
=============================================================================
