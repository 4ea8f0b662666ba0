--------------------------- MODULE TaskSubmission ---------------------------
(***************************************************************************)
(* orchestrator/orchestrator.py and orchestrator/executors.py: tasks that  *)
(* are submitted one by one (submit_task, _run_submitted_task,             *)
(* cancel_task, accept_task, reopen_task), the coordinator that submits a  *)
(* child and waits for it, the presence of the agents and the archive of   *)
(* tasks that ended.                                                       *)
(*                                                                         *)
(* A run is one coroutine of _run_submitted_task; a task that is reopened  *)
(* has several.  Everything between two awaits is one step.  The deadlines *)
(* (120 s for a run, 30 s for a child) may pass at any time.               *)
(***************************************************************************)
EXTENDS Integers, FiniteSets, SequencesExt

CONSTANTS
  Shapes,      \* the shapes of input that callers submit
  MaxTasks,    \* bounds the tasks
  MaxRuns,     \* bounds the runs
  MaxRejects,  \* bounds the verdicts that reject
  MaxDepth,    \* MAX_DEPTH, 5 in the code
  ArchiveMax   \* tasks the archive keeps, 256 in the code

\* "bare" is a description alone, which is all the desk RPC can submit.
AllShapes == {"node", "workflow", "prompt", "command", "bare"}

ASSUME SubmissionAssumption ==
  /\ Shapes \subseteq AllShapes
  /\ MaxTasks \in Nat /\ MaxRuns \in Nat /\ MaxRejects \in Nat
  /\ MaxDepth \in Nat /\ ArchiveMax \in Nat \ {0}

Ids    == 1..MaxTasks
Runs   == 1..MaxRuns
Agents == {"executor_node", "executor_workflow", "executor_shell", "coordinator"}
Ended  == {"completed", "failed", "cancelled"}

VARIABLES
  used,     \* task ids given out so far
  shape,    \* task |-> the shape of its input
  depth,    \* task |-> _depth of its input
  by,       \* history: task |-> the task whose coordinator submitted it, 0 for a caller
  status,   \* task |-> its status, "none" before it is submitted
  live,     \* the keys of _tasks
  archive,  \* _task_archive, the oldest first
  handle,   \* task |-> the run that _task_handles holds for it, 0 for none
  begun,    \* runs created so far
  run,      \* run |-> its task, where it is, its executor's result, whether its
            \* cancellation was requested, the run of the child it waits for
  current,  \* agent |-> current_task while it is busy, 0 while it is idle
  entered,  \* history: the tasks that some run has begun to execute
  rejects   \* history: verdicts that rejected so far

inputs == <<used, shape, depth, by>>
vars   == <<inputs, status, live, archive, handle, begun, run, current, entered, rejects>>

Run   == [task : 0..MaxTasks, pc : {"none", "ready", "exec", "wait", "done"},
          ret : {"none", "completed", "failed"}, cancel : BOOLEAN, child : 0..MaxRuns]
RunOf(t, p) == [task |-> t, pc |-> p, ret |-> "none", cancel |-> FALSE, child |-> 0]

Inside(r) == run[r].pc \in {"exec", "wait"}
Active(r) == Inside(r) \/ run[r].pc = "ready"

TypeOK ==
  /\ used \in 0..MaxTasks /\ begun \in 0..MaxRuns /\ rejects \in 0..MaxRejects
  /\ shape \in [Ids -> AllShapes] /\ depth \in [Ids -> Nat] /\ by \in [Ids -> 0..MaxTasks]
  /\ status \in [Ids -> {"none", "pending", "running"} \cup Ended]
  /\ live \subseteq Ids /\ archive \in Seq(Ids) /\ handle \in [Ids -> 0..MaxRuns]
  /\ run \in [Runs -> Run] /\ current \in [Agents -> 0..MaxTasks] /\ entered \subseteq Ids

Init ==
  /\ used = 0 /\ begun = 0 /\ rejects = 0
  /\ shape = [t \in Ids |-> "bare"] /\ depth = [t \in Ids |-> 0] /\ by = [t \in Ids |-> 0]
  /\ status = [t \in Ids |-> "none"] /\ live = {} /\ archive = <<>>
  /\ handle = [t \in Ids |-> 0] /\ run = [r \in Runs |-> RunOf(0, "none")]
  /\ current = [a \in Agents |-> 0] /\ entered = {}

-----------------------------------------------------------------------------
(* Submitting a task, and starting a run of one.                           *)

Agent(t) ==
  CASE shape[t] \in {"node", "bare"} -> "executor_node"
    [] shape[t] = "workflow"         -> "executor_workflow"
    [] shape[t] = "prompt"           -> "coordinator"
    [] shape[t] = "command"          -> "executor_shell"

\* The run after the last one is created, for t; run[r] = R otherwise.
Launch(t, R) ==
  /\ begun < MaxRuns /\ begun' = begun + 1
  /\ run' = [R EXCEPT ![begun + 1] = RunOf(t, "ready")]
  /\ handle' = [handle EXCEPT ![t] = begun + 1]

NewTask(s, d, t, R) ==
  /\ used < MaxTasks /\ used' = used + 1
  /\ shape' = [shape EXCEPT ![used + 1] = s]
  /\ depth' = [depth EXCEPT ![used + 1] = d]
  /\ by' = [by EXCEPT ![used + 1] = t]
  /\ status' = [status EXCEPT ![used + 1] = "pending"]
  /\ live' = live \cup {used + 1}
  /\ Launch(used + 1, R)

Submit(s) == NewTask(s, 0, 0, run) /\ UNCHANGED <<archive, current, entered, rejects>>

\* get_task finds it, in _tasks or in the archive.
Places(t) == {i \in DOMAIN archive : archive[i] = t}
Known(t)  == t \in live \/ Places(t) # {}

\* Mutant: the task returns to _tasks.
mut_Reopen(t) ==
  /\ Known(t) /\ status[t] \in {"pending", "failed"}
  /\ Launch(t, run) /\ live' = live \cup {t}
  /\ UNCHANGED <<inputs, status, archive, current, entered, rejects>>

\* reopen_task: the task does not return to _tasks.
Reopen(t) ==
  /\ Known(t) /\ status[t] \in {"pending", "failed"}
  /\ Launch(t, run)
  /\ UNCHANGED <<inputs, status, live, archive, current, entered, rejects>>

\* accept_task with a verdict that rejects, of a task in whatever status, and
\* the rework the RPC starts unless it is told not to.
Reject(t) ==
  /\ rejects < MaxRejects /\ Known(t)
  /\ rejects' = rejects + 1 /\ status' = [status EXCEPT ![t] = "pending"]
  /\ Launch(t, run) \/ UNCHANGED <<begun, run, handle>>
  /\ UNCHANGED <<inputs, live, archive, current, entered>>

\* cancel_task: nothing happens unless _tasks has it and it has not ended.
Cancellable(t) == t \in live /\ status[t] \notin Ended
Asked(t, R)    == [r \in Runs |-> [R[r] EXCEPT !.cancel = @ \/ (r = handle[t] /\ Active(r))]]

Cancel(t) ==
  /\ Cancellable(t)
  /\ run' = Asked(t, run) /\ status' = [status EXCEPT ![t] = "cancelled"]
  /\ UNCHANGED <<inputs, live, archive, handle, begun, current, entered, rejects>>

-----------------------------------------------------------------------------
(* _run_submitted_task.                                                    *)

Begin(r) ==
  LET t == run[r].task IN
  /\ run[r].pc = "ready" /\ ~run[r].cancel
  /\ run' = [run EXCEPT ![r].pc = "exec"] /\ status' = [status EXCEPT ![t] = "running"]
  /\ entered' = entered \cup {t}
  /\ current' = [current EXCEPT ![Agent(t)] = t]
  /\ UNCHANGED <<inputs, live, archive, handle, begun, rejects>>

\* Cancelled before its first step, the coroutine ends without its finally.
Never(r) ==
  /\ run[r].pc = "ready" /\ run[r].cancel
  /\ run' = [run EXCEPT ![r].pc = "done"]
  /\ UNCHANGED <<inputs, status, live, archive, handle, begun, current, entered, rejects>>

\* An executor that is not the coordinator returns or raises; executor_node
\* refuses an input without a node_name.
Return(r) ==
  LET s == shape[run[r].task] IN
  /\ run[r].pc = "exec" /\ run[r].ret = "none" /\ s # "prompt"
  /\ \E ret \in {"completed", "failed"} :
       /\ s = "bare" => ret = "failed"
       /\ run' = [run EXCEPT ![r].ret = ret]
  /\ UNCHANGED <<inputs, status, live, archive, handle, begun, current, entered, rejects>>

\* _archive_task: to the end of the archive, which drops its oldest.
Without(t)  == IF Places(t) = {} THEN archive
                               ELSE RemoveAt(archive, CHOOSE i \in Places(t) : TRUE)
Archived(t) ==
  LET all == Append(Without(t), t) IN
  IF Len(all) > ArchiveMax THEN Tail(all) ELSE all

\* Mutant: an agent stays busy with a task that was cancelled.
mut_Finish(r, s) ==
  LET t == run[r].task IN
  /\ run' = [run EXCEPT ![r].pc = "done"]
  /\ status' = [status EXCEPT ![t] = s]
  /\ handle' = [handle EXCEPT ![t] = 0]
  /\ current' = [current EXCEPT ![Agent(t)] = IF s = "cancelled" THEN @ ELSE 0]
  /\ live' = live \ {t} /\ archive' = Archived(t)
  /\ UNCHANGED <<inputs, begun, entered, rejects>>

\* The run ends with status s, and its finally runs.
Finish(r, s) ==
  LET t == run[r].task IN
  /\ run' = [run EXCEPT ![r].pc = "done"]
  /\ status' = [status EXCEPT ![t] = s]
  /\ handle' = [handle EXCEPT ![t] = 0]
  /\ current' = [current EXCEPT ![Agent(t)] = 0]
  /\ live' = live \ {t} /\ archive' = Archived(t)
  /\ UNCHANGED <<inputs, begun, entered, rejects>>

\* The executor's result is the task's status, even when the cancellation was
\* requested in between (wait_for of Python 3.11) ...
Resume(r) == run[r].pc = "exec" /\ run[r].ret # "none" /\ Finish(r, run[r].ret)

\* ... or it is lost (from 3.12 on); a status that is final stays.
Interrupt(r) ==
  LET s == status[run[r].task] IN
  /\ Inside(r) /\ run[r].cancel
  /\ Finish(r, IF s \in Ended THEN s ELSE "cancelled")

\* Mutant: only a coordinator that waits has a deadline.
mut_Expire(r) == run[r].pc = "wait" /\ ~run[r].cancel /\ Finish(r, "failed")

\* The deadline of the run passes.
Expire(r) == Inside(r) /\ ~run[r].cancel /\ Finish(r, "failed")

-----------------------------------------------------------------------------
(* CoordinatorExecutor.                                                    *)

TooDeep(t) == depth[t] > MaxDepth

\* Mutant: the child takes over _depth as well.
mut_Deeper(t) == depth[t]
Deeper(t) == depth[t] + 1

\* The child takes over the whole input, so it has its parent's shape.
Delegate(r) ==
  LET t == run[r].task IN
  /\ run[r].pc = "exec" /\ run[r].ret = "none" /\ shape[t] = "prompt"
  /\ \/ /\ TooDeep(t)
        /\ run' = [run EXCEPT ![r].ret = "failed"]
        /\ UNCHANGED <<inputs, status, live, handle, begun>>
     \/ /\ ~TooDeep(t)
        /\ NewTask("prompt", Deeper(t), t,
                   [run EXCEPT ![r].pc = "wait", ![r].child = begun + 1])
  /\ UNCHANGED <<archive, current, entered, rejects>>

Child(r) == run[run[r].child].task

\* The child's coroutine is done; a child that the archive has dropped, or that
\* was reopened in between, counts as failed.
Wake(r) ==
  /\ run[r].pc = "wait" /\ run[run[r].child].pc = "done"
  /\ run' = [run EXCEPT ![r].pc = "exec",
                        ![r].ret = IF Known(Child(r)) /\ status[Child(r)] = "completed"
                                   THEN "completed" ELSE "failed"]
  /\ UNCHANGED <<inputs, status, live, archive, handle, begun, current, entered, rejects>>

\* The coordinator gives up: the child is cancelled.
GiveUp(r) ==
  LET mine == [run EXCEPT ![r].pc = "exec", ![r].ret = "failed"] IN
  /\ run[r].pc = "wait"
  /\ IF Cancellable(Child(r))
       THEN run' = Asked(Child(r), mine) /\ status' = [status EXCEPT ![Child(r)] = "cancelled"]
       ELSE run' = mine /\ UNCHANGED status
  /\ UNCHANGED <<inputs, live, archive, handle, begun, current, entered, rejects>>

-----------------------------------------------------------------------------
Due(r) ==
  \/ Begin(r) \/ Never(r) \/ Resume(r) \/ Interrupt(r) \/ Expire(r)
  \/ Delegate(r) \/ Wake(r) \/ GiveUp(r)

Next ==
  \/ \E s \in Shapes : Submit(s)
  \/ \E t \in Ids : Reopen(t) \/ Reject(t) \/ Cancel(t)
  \/ \E r \in Runs : Due(r) \/ Return(r)

Spec == Init /\ [][Next]_vars

\* The event loop runs what is due: a coroutine that was created begins, a
\* result and a cancellation reach the one that waits, and a deadline passes.
\* That an executor returns is not assumed.
FairSpec == Spec /\ \A r \in Runs : WF_vars(Due(r))

-----------------------------------------------------------------------------
(* Properties.                                                             *)

\* Delegation ends: a task submitted by a coordinator is one level below the task
\* of that coordinator, and none is deeper than one level below MAX_DEPTH.
DelegationEnds ==
  \A t \in Ids :
    /\ depth[t] <= MaxDepth + 1
    /\ by[t] # 0 => by[t] < t /\ shape[by[t]] = "prompt" /\ depth[t] = depth[by[t]] + 1

\* The dashboard does not show an agent busy for ever: a busy agent's current task
\* is routed to it and some run of that task is inside its executor.
BusyIsTrue ==
  \A a \in Agents :
    current[a] # 0 => /\ a = Agent(current[a])
                      /\ \E r \in Runs : run[r].task = current[a] /\ Inside(r)

\* A task that began and has no run under way is out of _tasks and holds no handle,
\* however it ended, and get_task still finds it unless the archive is full.
EndedIsArchived ==
  \A t \in entered :
    \/ \E r \in Runs : run[r].task = t /\ Active(r)
    \/ t \notin live /\ handle[t] = 0 /\ (Known(t) \/ Len(archive) = ArchiveMax)

\* Every run ends, and with it the wait of the coordinator that wants its result.
RunsEnd == \A r \in Runs : Active(r) ~> run[r].pc = "done"
=============================================================================
