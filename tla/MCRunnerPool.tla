---------------------------- MODULE MCRunnerPool ----------------------------
(* One roster agent a (it may write to itself) and an outsider u.          *)
EXTENDS RunnerPool

CONSTANTS a, u
=============================================================================
