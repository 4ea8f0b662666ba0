---------------------------- MODULE TaskScheduler ----------------------------
(***************************************************************************)
(* engine/scheduler.py: the scheduler of cron and interval tasks.          *)
(*                                                                         *)
(* A TaskScheduler object keeps the task table (_tasks), the APScheduler   *)
(* job of each task (_job_map), the executors (_executors, callables that  *)
(* cannot be saved) and the markers of tasks it paused by itself at        *)
(* restore (_executors_paused).  After most operations the whole table is  *)
(* written to one JSON file by an atomic replace.  A process may end at    *)
(* any point; the next one builds a new object, which starts with an empty *)
(* table and reads the file only in start(); what it cannot read it leaves *)
(* out, and the next save writes the table without it.  The command line   *)
(* edits the table of an object that was never started.                    *)
(***************************************************************************)
EXTENDS Naturals

CONSTANTS Tasks,       \* task ids (uuids, so none is used twice)
          BadTrigger,  \* the ids whose trigger expression does not parse
          MaxFail      \* _max_fail: failures before a task is shut off

ASSUME TasksAssumption == BadTrigger \subseteq Tasks
ASSUME MaxFailAssumption == MaxFail \in Nat \ {0}

VARIABLES
  mode,      \* "new": the object exists, start() not called yet; "up": started
  status,    \* _tasks[t].status, "none" when t is not in the table
  fails,     \* _tasks[t].fail_count
  job,       \* the APScheduler job of _job_map[t]
  execs,     \* DOMAIN of _executors
  marked,    \* DOMAIN of _executors_paused
  running,   \* tasks with a _run_task suspended in its executor
  dStatus,   \* the status saved in the file, "none" when t is not in it
  dFails,    \* the fail_count saved in the file
  asked,     \* history: the last command the user was told had succeeded
  tripped,   \* history: tasks shut off by the failure limit, and saved so
  unread     \* history: saved tasks that start() of this object did not load

vars == <<mode, status, fails, job, execs, marked, running, dStatus, dFails,
          asked, tripped, unread>>

Statuses == {"none", "active", "paused", "failed"}
Jobs     == {"none", "live", "paused"}
Commands == {"unused", "rejected", "active", "paused", "removed", "unsure"}
Zero     == [t \in Tasks |-> 0]

TypeOK ==
  /\ mode \in {"new", "up"}
  /\ status \in [Tasks -> Statuses]  /\ fails  \in [Tasks -> 0..MaxFail]
  /\ dStatus \in [Tasks -> Statuses] /\ dFails \in [Tasks -> 0..MaxFail]
  /\ job \in [Tasks -> Jobs]
  /\ asked \in [Tasks -> Commands]
  /\ execs \subseteq Tasks /\ marked \subseteq Tasks
  /\ running \subseteq Tasks /\ tripped \subseteq Tasks /\ unread \subseteq Tasks

----------------------------------------------------------------------------
(* _persist_tasks: the whole table replaces the file, or it raises. *)
Save(ok) ==
  IF ok THEN dStatus' = status' /\ dFails' = fails'
        ELSE UNCHANGED <<dStatus, dFails>>

\* the caller learns that its command c succeeded, or gets the exception
Answer(t, c, ok) == asked' = [asked EXCEPT ![t] = IF ok THEN c ELSE "unsure"]

----------------------------------------------------------------------------
(* The constructor, in a process of its own. *)
NoStatus == [t \in Tasks |-> "none"]

Init ==
  /\ mode = "new"
  /\ status = NoStatus /\ fails = Zero /\ job = NoStatus
  /\ execs = {} /\ marked = {} /\ running = {}
  /\ dStatus = NoStatus /\ dFails = Zero
  /\ asked = [t \in Tasks |-> "unused"]
  /\ tripped = {} /\ unread = {}

(* The process ends (a crash, a kill, the end of a CLI command, or         *)
(* shutdown(wait=False), which drops the running executors); the next one  *)
(* constructs its object.                                                  *)
Exit ==
  /\ mode' = "new"
  /\ status' = NoStatus /\ fails' = Zero /\ job' = NoStatus
  /\ execs' = {} /\ marked' = {} /\ running' = {} /\ unread' = {}
  /\ UNCHANGED <<dStatus, dFails, asked, tripped>>

----------------------------------------------------------------------------
(* add_cron_task, add_interval_task: the task enters the table before its  *)
(* trigger is parsed; a bad expression raises and leaves it there.         *)
AddTask(t) ==
  /\ asked[t] = "unused"
  /\ status' = [status EXCEPT ![t] = "active"]
  /\ fails' = [fails EXCEPT ![t] = 0]
  /\ execs' = execs \cup {t}
  /\ IF t \in BadTrigger
       THEN /\ asked' = [asked EXCEPT ![t] = "rejected"]
            /\ UNCHANGED <<job, dStatus, dFails>>
       ELSE /\ job' = [job EXCEPT ![t] = "live"]
            /\ \E ok \in BOOLEAN : Save(ok) /\ Answer(t, "active", ok)
  /\ UNCHANGED <<mode, marked, running, tripped, unread>>

(* load_tasks, called by start(), gets to read some of the saved tasks: a  *)
(* file that cannot be read is taken for an empty one, an item that cannot *)
(* be parsed is skipped.  A task it reads that is not in the table is      *)
(* restored; without an executor an active one is paused and marked.  Only *)
(* a task with an executor gets its job back, if its trigger parses.       *)
Missing == {t \in Tasks : status[t] = "none" /\ dStatus[t] # "none"}

mut_Restored(read) == {t \in read \cap Missing : dStatus[t] = "active"}
Restored(read) == read \cap Missing
mut_AutoPaused(read) == Restored(read) \ execs
AutoPaused(read) == {t \in Restored(read) \ execs : dStatus[t] = "active"}
Rebuilt(read) == {t \in (Restored(read) \cap execs) \ BadTrigger :
                    dStatus[t] \in {"active", "paused"}}

Start ==
  /\ mode = "new"
  /\ mode' = "up"
  /\ \E read \in SUBSET Missing :
       /\ status' = [t \in Tasks |-> IF t \in AutoPaused(read) THEN "paused"
                                     ELSE IF t \in Restored(read) THEN dStatus[t]
                                     ELSE status[t]]
       /\ fails' = [t \in Tasks |-> IF t \in Restored(read) THEN dFails[t] ELSE fails[t]]
       /\ job' = [t \in Tasks |-> IF t \notin Rebuilt(read) THEN job[t]
                                  ELSE IF dStatus[t] = "active" THEN "live" ELSE "paused"]
       /\ marked' = marked \cup AutoPaused(read)
       /\ unread' = Missing \ read
  /\ UNCHANGED <<execs, running, dStatus, dFails, asked, tripped>>

(* register_executor: a marked task is resumed, its job rebuilt; nothing   *)
(* is saved.                                                               *)
RegisterExecutor(t) ==
  LET known  == status[t] # "none"
      resume == known /\ t \in marked /\ status[t] = "paused" IN
  /\ execs' = execs \cup {t}
  /\ marked' = IF known THEN marked \ {t} ELSE marked
  /\ status' = IF resume THEN [status EXCEPT ![t] = "active"] ELSE status
  /\ job' = IF resume /\ t \notin BadTrigger THEN [job EXCEPT ![t] = "live"] ELSE job
  /\ UNCHANGED <<mode, fails, running, dStatus, dFails, asked, tripped, unread>>

----------------------------------------------------------------------------
(* The trigger fires and _run_task enters the executor.  The guard is its  *)
(* three early returns; APScheduler runs one instance of a job at a time.  *)
Fire(t) ==
  /\ mode = "up"
  /\ job[t] = "live" /\ t \notin running
  /\ status[t] = "active" /\ t \in execs
  /\ running' = running \cup {t}
  /\ UNCHANGED <<mode, status, fails, job, execs, marked, dStatus, dFails, asked, tripped, unread>>

(* The executor returns: the failure count is reset, in memory only. *)
FinishOk(t) ==
  /\ t \in running
  /\ running' = running \ {t}
  /\ fails' = IF status[t] = "none" THEN fails ELSE [fails EXCEPT ![t] = 0]
  /\ UNCHANGED <<mode, status, job, execs, marked, dStatus, dFails, asked, tripped, unread>>

(* The executor raises: one more failure; at the limit the task is FAILED  *)
(* and its job paused; the table is saved.  A task removed meanwhile only  *)
(* exists in this call, and the save is all that remains of it.            *)
Limit(t) == status[t] # "none" /\ fails[t] + 1 >= MaxFail

mut_FailedJob(t) == job
FailedJob(t) ==
  IF Limit(t) /\ job[t] # "none" THEN [job EXCEPT ![t] = "paused"] ELSE job

mut_FailedStatus(t) == status
FailedStatus(t) == IF Limit(t) THEN [status EXCEPT ![t] = "failed"] ELSE status

FinishFail(t) ==
  /\ t \in running
  /\ running' = running \ {t}
  /\ fails' = IF status[t] = "none" THEN fails ELSE [fails EXCEPT ![t] = @ + 1]
  /\ status' = FailedStatus(t)
  /\ job' = FailedJob(t)
  /\ \E ok \in BOOLEAN :
       /\ Save(ok)
       /\ tripped' = IF Limit(t) /\ ok THEN tripped \cup {t} ELSE tripped
  /\ UNCHANGED <<mode, execs, marked, asked, unread>>

----------------------------------------------------------------------------
(* pause_task: refused (False) when the task has no job. *)
PauseTask(t) ==
  /\ job[t] # "none"
  /\ job' = [job EXCEPT ![t] = "paused"]
  /\ status' = IF status[t] = "none" THEN status ELSE [status EXCEPT ![t] = "paused"]
  /\ UNCHANGED <<mode, fails, execs, marked, running, tripped, unread>>
  /\ \E ok \in BOOLEAN : Save(ok) /\ Answer(t, "paused", ok)

(* resume_task: refused when the task has no job. *)
ResumeTask(t) ==
  /\ job[t] # "none"
  /\ job' = [job EXCEPT ![t] = "live"]
  /\ status' = IF status[t] = "none" THEN status ELSE [status EXCEPT ![t] = "active"]
  /\ fails' = [fails EXCEPT ![t] = 0]
  /\ tripped' = tripped \ {t}
  /\ \E ok \in BOOLEAN : Save(ok) /\ Answer(t, "active", ok)
  /\ UNCHANGED <<mode, execs, marked, running, unread>>

(* remove_task: the file is rewritten even when the id is unknown. *)
RemoveTask(t) ==
  /\ status' = [status EXCEPT ![t] = "none"]
  /\ fails' = [fails EXCEPT ![t] = 0]
  /\ job' = [job EXCEPT ![t] = "none"]
  /\ \E ok \in BOOLEAN :
       /\ Save(ok)
       /\ IF status[t] # "none" THEN Answer(t, "removed", ok) ELSE UNCHANGED asked
  /\ UNCHANGED <<mode, execs, marked, running, tripped, unread>>

----------------------------------------------------------------------------
Next ==
  \/ Exit
  \/ Start
  \/ \E t \in Tasks :
       \/ AddTask(t) \/ RegisterExecutor(t)
       \/ Fire(t) \/ FinishOk(t) \/ FinishFail(t)
       \/ PauseTask(t) \/ ResumeTask(t) \/ RemoveTask(t)

Spec == Init /\ [][Next]_vars

----------------------------------------------------------------------------
(* A task whose trigger parses has a live job exactly while it is ACTIVE:  *)
(* a live job of a task that is not ACTIVE fires into an early return, an  *)
(* ACTIVE task without a live job is listed and never runs.                *)
JobServesActive ==
  \A t \in Tasks \ BadTrigger : (job[t] = "live") <=> (status[t] = "active")

(* A task whose last successful command was pause starts no run, however   *)
(* many restarts and re-registrations lie between.                         *)
PausedStartsNoRun ==
  [][\A t \in Tasks : asked[t] = "paused" => t \notin running' \ running]_vars

(* A task shut off by the failure limit, once saved so, starts no run      *)
(* before a resume, in this process or a later one.                        *)
TrippedStartsNoRun ==
  [][\A t \in Tasks : t \in tripped => t \notin running' \ running]_vars

(* A started scheduler never drops from the file a task the user was told  *)
(* is scheduled or paused, unless its own start() could not load it: only  *)
(* a remove command, answered or cut short by a failed save, does.         *)
SavedTasksKept ==
  [][\A t \in Tasks :
       (mode = "up" /\ dStatus[t] # "none" /\ dStatus'[t] = "none")
         => asked'[t] \in {"removed", "unsure"} \/ t \in unread]_vars
=============================================================================
