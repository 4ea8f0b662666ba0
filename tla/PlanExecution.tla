---------------------------- MODULE PlanExecution ----------------------------
(***************************************************************************)
(* orchestrator/orchestrator.py: the execution of a plan of agent tasks    *)
(* (execute_plan, _execute_task_arbitrated, _execute_task) together with   *)
(* the acceptance gate (request_acceptance, accept_task, reopen_task),     *)
(* which desk RPC calls may use on the plan's tasks at any time.           *)
(*                                                                         *)
(* The loop of execute_plan suspends only in the gather of a wave and in   *)
(* its two-second sleep; each turn of it is one step, and while a turn is  *)
(* due (loop = "think") nothing else runs.  A reopened task runs in a      *)
(* coroutine of its own (_run_submitted_task), beside the plan.            *)
(***************************************************************************)
EXTENDS Integers, FiniteSets

CONSTANTS
  Tasks,      \* the tasks of the plan
  Deps,       \* task |-> the tasks it depends on
  Criteria,   \* tasks with acceptance criteria
  Keys,       \* task |-> the resource keys it declares
  Resources,  \* resource keys, numbered in the order they are sorted in
  Pipeline,   \* TRUE: made by run_standard_pipeline
  LongPlan,   \* tasks that make a plan long, 6 in the code
  MaxStarts,  \* bounds the calls of execute_plan on the plan
  MaxVotes,   \* bounds the requests for acceptance and the verdicts
  MaxRedo,    \* bounds the reopened runs
  None

ASSUME PlanAssumption ==
  /\ IsFiniteSet(Tasks) /\ Deps \in [Tasks -> SUBSET Tasks] /\ Criteria \subseteq Tasks
  /\ Resources \subseteq Int /\ Keys \in [Tasks -> SUBSET Resources]
  /\ Pipeline \in BOOLEAN /\ LongPlan \in Nat
  /\ MaxStarts \in Nat /\ MaxVotes \in Nat /\ MaxRedo \in Nat /\ None \notin Tasks \cup {"ok", "failed"}

VARIABLES
  attended,  \* FUSION_MILESTONE_GATE is not 0
  plan,      \* plan.status
  status,    \* task |-> its status
  acc,       \* task |-> acceptance_status, "none" for the empty string
  executed,  \* the tasks the loop is through with
  result,    \* task |-> what results holds of it, or None
  gated,     \* milestone_gated
  loop,      \* where execute_plan is
  wave,      \* the tasks being gathered
  step,      \* task |-> where its coroutine in the wave is
  owner,     \* resource key |-> the task that holds its lock, or None
  queued,    \* task |-> reopened runs that have not begun
  redoing,   \* task |-> reopened runs inside their executor
  starts,    \* history: calls of execute_plan so far
  votes,     \* history: requests and verdicts so far
  redos,     \* history: reopened runs so far
  rejected   \* history: some verdict was a rejection

book == <<attended, plan, executed, result, gated, loop, starts>>
work == <<wave, step, owner>>
redo == <<queued, redoing, redos>>
hist == <<votes, rejected>>
vars == <<book, status, acc, work, redo, hist>>

TypeOK ==
  /\ attended \in BOOLEAN
  /\ plan \in {"pending", "running", "completed", "partial", "failed"}
  /\ status \in [Tasks -> {"pending", "running", "completed", "failed", "skipped"}]
  /\ acc \in [Tasks -> {"none", "pending", "accepted", "rejected"}]
  /\ executed \subseteq Tasks /\ result \in [Tasks -> {"ok", "failed", None}]
  /\ gated \in BOOLEAN /\ loop \in {"off", "think", "gather", "sleep"}
  /\ wave \subseteq Tasks /\ step \in [Tasks -> {"idle", "lock", "exec", "ok", "bad"}]
  /\ owner \in [Resources -> Tasks \cup {None}]
  /\ queued \in [Tasks -> 0..MaxRedo] /\ redoing \in [Tasks -> 0..MaxRedo]
  /\ starts \in 0..MaxStarts /\ votes \in 0..MaxVotes /\ redos \in 0..MaxRedo /\ rejected \in BOOLEAN

\* run_standard_pipeline marks tasks with criteria before anything has run.
Marked == {t \in Criteria : Pipeline}

Init ==
  /\ attended \in BOOLEAN
  /\ plan = "pending" /\ status = [t \in Tasks |-> "pending"]
  /\ acc = [t \in Tasks |-> IF t \in Marked THEN "pending" ELSE "none"]
  /\ executed = {} /\ result = [t \in Tasks |-> None] /\ gated = FALSE /\ loop = "off"
  /\ wave = {} /\ step = [t \in Tasks |-> "idle"] /\ owner = [k \in Resources |-> None]
  /\ queued = [t \in Tasks |-> 0] /\ redoing = [t \in Tasks |-> 0]
  /\ starts = 0 /\ votes = 0 /\ redos = 0 /\ rejected = FALSE

-----------------------------------------------------------------------------
(* execute_plan.                                                           *)

Failed(d)      == result[d] = "failed"
Awaiting(a, d) == a[d] \in {"pending", "rejected"}

\* Mutant: a dependency only has to be over.
mut_Ready ==
  {t \in Tasks \ executed : \A d \in Deps[t] : d \in executed /\ ~Awaiting(acc, d)}

Ready ==
  {t \in Tasks \ executed :
     \A d \in Deps[t] : d \in executed /\ ~Failed(d) /\ ~Awaiting(acc, d)}

MilestoneAt ==
  IF Cardinality(Tasks) >= LongPlan /\ attended THEN Cardinality(Tasks) \div 2 ELSE 0

\* Half way through a long plan the completed tasks go up for acceptance, after
\* the ready tasks of this turn were chosen.
AtGate   == MilestoneAt > 0 /\ ~gated /\ Cardinality(executed) >= MilestoneAt
GatedAcc ==
  [t \in Tasks |-> IF AtGate /\ status[t] = "completed" /\ t \in Criteria
                   THEN "pending" ELSE acc[t]]

\* A gated plan waits while a verdict is open on what its other tasks need.
Patient ==
  (gated \/ AtGate) /\ \E t \in Tasks \ executed : \E d \in Deps[t] : Awaiting(GatedAcc, d)

\* Mutant: whatever waits for a dependency that did not succeed so far.
mut_Blocked == {t \in Tasks \ executed : \E d \in Deps[t] : result[d] # "ok"}

Blocked == {t \in Tasks \ executed : \E d \in Deps[t] : Failed(d)}

\* After the blocked tasks were skipped: what is ready, open verdicts or not.
Still ==
  {t \in Tasks \ (executed \cup Blocked) :
     \A d \in Deps[t] : d \in executed /\ ~Failed(d)}

\* The plan's status from those of its tasks.
Verdict(s) ==
  LET bad == {t \in Tasks : s[t] \in {"failed", "skipped"}} IN
  IF bad = {} THEN "completed"
  ELSE IF \E t \in Tasks : s[t] = "completed" THEN "partial" ELSE "failed"

Gather(ts) ==
  /\ loop' = "gather" /\ wave' = ts
  /\ step' = [t \in Tasks |-> IF t \in ts THEN "lock" ELSE step[t]]

\* A plan may be executed again, as run_standard_pipeline does after it has
\* planned; every task of it then runs again.  Calls do not overlap.
Start ==
  /\ loop = "off" /\ starts < MaxStarts /\ starts' = starts + 1
  /\ plan' = "running" /\ loop' = "think"
  /\ executed' = {} /\ result' = [t \in Tasks |-> None] /\ gated' = FALSE
  /\ UNCHANGED <<attended, status, acc, work, redo, hist>>

\* A turn of the loop.
Turn == loop = "think" /\ executed # Tasks /\ acc' = GatedAcc /\ gated' = (gated \/ AtGate)

Launch ==
  /\ Turn /\ Ready # {} /\ Gather(Ready)
  /\ UNCHANGED <<attended, starts, plan, executed, result, status, owner, redo, hist>>

\* Rejected tasks are failed, the loop sleeps.
Wait ==
  /\ Turn /\ Ready = {} /\ Patient
  /\ LET out == {t \in Tasks : acc'[t] = "rejected" /\ status[t] = "pending"} IN
     /\ status' = [t \in Tasks |-> IF t \in out THEN "failed" ELSE status[t]]
     /\ result' = [t \in Tasks |-> IF t \in out THEN "failed" ELSE result[t]]
  /\ loop' = "sleep"
  /\ UNCHANGED <<attended, starts, plan, executed, work, redo, hist>>

Wake ==
  /\ loop = "sleep" /\ loop' = "think"
  /\ UNCHANGED <<attended, starts, plan, executed, result, gated, status, acc, work, redo, hist>>

\* Tasks behind a failure are skipped; the plan goes on, is through, or stuck.
Skip ==
  /\ Turn /\ Ready = {} /\ ~Patient /\ Blocked # {}
  /\ status' = [t \in Tasks |-> IF t \in Blocked THEN "skipped" ELSE status[t]]
  /\ result' = [t \in Tasks |-> IF t \in Blocked THEN "failed" ELSE result[t]]
  /\ executed' = executed \cup Blocked
  /\ \/ executed' = Tasks /\ plan' = Verdict(status') /\ loop' = "off" /\ UNCHANGED <<wave, step>>
     \/ executed' # Tasks /\ Still # {} /\ Gather(Still) /\ UNCHANGED plan
     \/ executed' # Tasks /\ Still = {} /\ plan' = "failed" /\ loop' = "off" /\ UNCHANGED <<wave, step>>
  /\ UNCHANGED <<attended, starts, owner, redo, hist>>

\* Reported as a deadlock.
Stuck ==
  /\ Turn /\ Ready = {} /\ ~Patient /\ Blocked = {}
  /\ plan' = "failed" /\ loop' = "off"
  /\ UNCHANGED <<attended, starts, executed, result, status, work, redo, hist>>

\* Mutant: before A-4, a failure that the executor reported counted as completed.
mut_Collect ==
  /\ loop = "gather" /\ \A t \in wave : step[t] \in {"ok", "bad"}
  /\ executed' = executed \cup wave
  /\ result' = [t \in Tasks |-> IF t \notin wave THEN result[t]
                                ELSE IF step[t] = "ok" THEN "ok" ELSE "failed"]
  /\ status' = [t \in Tasks |-> IF t \in wave THEN "completed" ELSE status[t]]
  /\ step' = [t \in Tasks |-> IF t \in wave THEN "idle" ELSE step[t]]
  /\ wave' = {} /\ loop' = "think"
  /\ UNCHANGED <<attended, starts, plan, gated, acc, owner, redo, hist>>

Collect ==
  /\ loop = "gather" /\ \A t \in wave : step[t] \in {"ok", "bad"}
  /\ executed' = executed \cup wave
  /\ result' = [t \in Tasks |-> IF t \notin wave THEN result[t]
                                ELSE IF step[t] = "ok" THEN "ok" ELSE "failed"]
  /\ status' = [t \in Tasks |-> IF t \notin wave THEN status[t]
                                ELSE IF step[t] = "ok" THEN "completed" ELSE "failed"]
  /\ step' = [t \in Tasks |-> IF t \in wave THEN "idle" ELSE step[t]]
  /\ wave' = {} /\ loop' = "think"
  /\ UNCHANGED <<attended, starts, plan, gated, acc, owner, redo, hist>>

Finish ==
  /\ loop = "think" /\ executed = Tasks
  /\ plan' = Verdict(status) /\ loop' = "off"
  /\ UNCHANGED <<attended, starts, executed, result, gated, status, acc, work, redo, hist>>

-----------------------------------------------------------------------------
(* A task of the wave.                                                     *)

Held(t) == {k \in Resources : owner[k] = t}

\* Mutant: the locks are taken in the order the task names them.
mut_NextKey(t, k) == k \in Keys[t] \ Held(t)

\* The locks are taken in the order of their keys.
NextKey(t, k) == k \in Keys[t] \ Held(t) /\ \A j \in Keys[t] \ Held(t) : k <= j

\* Mutant: no lock.
mut_Acquire(t, k) ==
  /\ step[t] = "lock" /\ NextKey(t, k)
  /\ owner' = [owner EXCEPT ![k] = t]
  /\ UNCHANGED <<book, status, acc, wave, step, redo, hist>>

Acquire(t, k) ==
  /\ step[t] = "lock" /\ NextKey(t, k) /\ owner[k] = None
  /\ owner' = [owner EXCEPT ![k] = t]
  /\ UNCHANGED <<book, status, acc, wave, step, redo, hist>>

\* _execute_task up to its await.
Begin(t) ==
  /\ step[t] = "lock" /\ Held(t) = Keys[t]
  /\ step' = [step EXCEPT ![t] = "exec"] /\ status' = [status EXCEPT ![t] = "running"]
  /\ UNCHANGED <<book, acc, wave, owner, redo, hist>>

\* The executor returns, reports a failure, or raises (a timeout included); the
\* locks are released.
Return(t) ==
  /\ step[t] = "exec"
  /\ \/ \E end \in {"ok", "bad"} : step' = [step EXCEPT ![t] = end] /\ UNCHANGED status
     \/ step' = [step EXCEPT ![t] = "bad"] /\ status' = [status EXCEPT ![t] = "failed"]
  /\ owner' = [k \in Resources |-> IF owner[k] = t THEN None ELSE owner[k]]
  /\ UNCHANGED <<book, acc, wave, redo, hist>>

\* Its agent is not registered.
NoAgent(t) ==
  /\ step[t] = "lock" /\ Held(t) = Keys[t]
  /\ step' = [step EXCEPT ![t] = "bad"]
  /\ owner' = [k \in Resources |-> IF owner[k] = t THEN None ELSE owner[k]]
  /\ UNCHANGED <<book, status, acc, wave, redo, hist>>

-----------------------------------------------------------------------------
(* The acceptance gate.                                                    *)

\* Nothing runs between two suspensions of the loop.
Others == loop # "think"

Vote == Others /\ votes < MaxVotes /\ votes' = votes + 1

RequestAcceptance(t) ==
  /\ Vote /\ status[t] = "completed" /\ acc' = [acc EXCEPT ![t] = "pending"]
  /\ UNCHANGED <<book, status, work, redo, rejected>>

Accept(t) ==
  /\ Vote /\ acc' = [acc EXCEPT ![t] = "accepted"]
  /\ UNCHANGED <<book, status, work, redo, rejected>>

\* A new run of the task, beside the plan.
Requeue(t) ==
  /\ redos < MaxRedo /\ redos' = redos + 1
  /\ queued' = [queued EXCEPT ![t] = @ + 1] /\ UNCHANGED redoing

\* Whatever the status was; the desk call reopens the task unless told not to.
Reject(t, rerun) ==
  /\ Vote /\ rejected' = TRUE
  /\ acc' = [acc EXCEPT ![t] = "rejected"] /\ status' = [status EXCEPT ![t] = "pending"]
  /\ IF rerun THEN Requeue(t) ELSE UNCHANGED redo
  /\ UNCHANGED <<book, work>>

Reopen(t) ==
  /\ Others /\ status[t] \in {"pending", "failed"} /\ Requeue(t)
  /\ UNCHANGED <<book, status, acc, work, hist>>

RedoBegin(t) ==
  /\ Others /\ queued[t] > 0
  /\ queued' = [queued EXCEPT ![t] = @ - 1] /\ redoing' = [redoing EXCEPT ![t] = @ + 1]
  /\ status' = [status EXCEPT ![t] = "running"]
  /\ UNCHANGED <<book, acc, work, redos, hist>>

RedoEnd(t) ==
  /\ Others /\ redoing[t] > 0 /\ redoing' = [redoing EXCEPT ![t] = @ - 1]
  /\ \E end \in {"completed", "failed"} : status' = [status EXCEPT ![t] = end]
  /\ UNCHANGED <<book, acc, work, queued, redos, hist>>

-----------------------------------------------------------------------------
LoopTurn == Launch \/ Wait \/ Wake \/ Skip \/ Stuck \/ Collect \/ Finish
TaskStep(t) == (\E k \in Resources : Acquire(t, k)) \/ Begin(t) \/ Return(t) \/ NoAgent(t)
Redo(t) == RedoBegin(t) \/ RedoEnd(t)

Desk ==
  \/ Start
  \/ \E t \in Tasks : RequestAcceptance(t) \/ Accept(t) \/ Reopen(t)
  \/ \E t \in Tasks, rerun \in BOOLEAN : Reject(t, rerun)

Next == LoopTurn \/ Desk \/ \E t \in Tasks : TaskStep(t) \/ Redo(t)

\* The event loop runs what is ready, and wait_for bounds every executor call.
\* Nothing is assumed of the people who judge.
Fairness == WF_vars(LoopTurn) /\ \A t \in Tasks : WF_vars(TaskStep(t)) /\ WF_vars(Redo(t))

Spec     == Init /\ [][Next]_vars
FairSpec == Spec /\ Fairness

-----------------------------------------------------------------------------
(* Properties.                                                             *)

\* Tasks of the plan that declare a common resource never execute at the same
\* time (the comment at orchestrator.py:118).
KeysApart ==
  \A t, u \in Tasks : t # u /\ step[t] = "exec" /\ step[u] = "exec" => Keys[t] \cap Keys[u] = {}

\* A task is launched only on results of all it depends on, and none of them is
\* a failure, whatever is rejected, reopened or skipped meanwhile (A-4).
BuildsOnSuccess ==
  \A t \in wave : t \notin executed /\ \A d \in Deps[t] : d \in executed /\ result[d] = "ok"

\* A task is skipped only behind a failure: not behind an open verdict, and not
\* behind a dependency that is yet to run.
SkipsBehindFailure ==
  \A t \in executed : status[t] = "skipped" => \E d \in Deps[t] : result[d] = "failed"

\* The reported status (A-4, "honest plan terminal status"): completed means
\* that every task succeeded, partial that some did and some did not.  Rework
\* changes statuses behind the loop's back, so this is said of plans without.
EndIsHonest ==
  ~rejected /\ redos = 0 =>
    /\ plan = "completed" => \A t \in Tasks : result[t] = "ok"
    /\ plan = "partial" => (\E t \in Tasks : result[t] = "ok") /\ \E t \in Tasks : result[t] = "failed"

\* A plan ends, or there is for good a verdict open on what it needs next: no
\* wave hangs on its locks and no failed dependency leaves the loop waiting.
EndsOrWaits ==
  <>[](plan = "running" =>
         \E t \in Tasks \ executed : \E d \in Deps[t] : Awaiting(acc, d))
=============================================================================
