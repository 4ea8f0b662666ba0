----------------------------- MODULE RunPromise -----------------------------
(***************************************************************************)
(* What one execution of a workflow owes whoever started it.  While it     *)
(* runs, nodes end, some of them more than once; a rejected gate may send  *)
(* the run back, and the failures up to then are excused.  The run ends    *)
(* once, and its outcome tells the truth: it completes only when nothing   *)
(* is left to do and every failure is tolerated or excused, and it says so *)
(* exactly when something was denied.                                      *)
(***************************************************************************)
CONSTANTS
  All,      \* the nodes, inserted ones included
  Tolerant  \* nodes whose failure does not matter

VARIABLES
  outcome,  \* "running", or how the run ended
  verdict,  \* node |-> how it last ended
  denied,   \* something was denied
  excused,  \* nodes whose failure a rewind excused
  due       \* the nodes still to be run

vars == <<outcome, verdict, denied, excused, due>>

Verdicts == {"ok", "failed", "denied", "restored", "blocked"}
Complete == {"success", "completed_with_denials"}
Failures == {n \in All : verdict[n] \in {"failed", "denied"}}

Init ==
  /\ outcome = "running" /\ verdict = [n \in All |-> "none"]
  /\ denied = FALSE /\ excused = {} /\ due \subseteq All

NodeEnds(n, how) ==
  /\ outcome = "running"
  /\ verdict' = [verdict EXCEPT ![n] = how]
  /\ denied' = (denied \/ how = "denied")
  /\ UNCHANGED <<outcome, excused, due>>

\* A wave settles its nodes, or directives add nodes and skip others.
Replan ==
  /\ outcome = "running" /\ due' \subseteq All
  /\ UNCHANGED <<outcome, verdict, denied, excused>>

\* Only a run in which something was denied goes back.
Rewind ==
  /\ outcome = "running" /\ denied
  /\ excused \subseteq excused' /\ excused' \subseteq excused \cup Failures
  /\ due' \subseteq All
  /\ UNCHANGED <<outcome, verdict, denied>>

Finish(how) ==
  /\ outcome = "running" /\ outcome' = how /\ due' \subseteq All
  /\ how \in Complete =>
       /\ due' = {} /\ Failures \subseteq Tolerant \cup excused
       /\ denied <=> how = "completed_with_denials"
  /\ UNCHANGED <<verdict, denied, excused>>

Next ==
  \/ \E n \in All, how \in Verdicts : NodeEnds(n, how)
  \/ Replan \/ Rewind
  \/ \E how \in Complete \cup {"failed", "cancelled"} : Finish(how)

Spec == Init /\ [][Next]_vars

\* A completed run has nothing left to do.  If it reports success, nothing failed
\* but what may fail, and nothing was denied; if it reports denials, something was,
\* and each other failure was excused.
Honest ==
  outcome \in Complete =>
    /\ due = {}
    /\ denied <=> outcome = "completed_with_denials"
    /\ \A n \in All : verdict[n] = "denied" => outcome = "completed_with_denials"
    /\ Failures \subseteq IF outcome = "success" THEN Tolerant ELSE Tolerant \cup excused
=============================================================================
