--------------------------- MODULE SavedFileProofs ---------------------------
(***************************************************************************)
(* Proofs about the two components that keep their state in memory and     *)
(* save all of it in one file that is replaced: TaskScheduler, for every   *)
(* set of tasks and every limit, and ConfigCenter, for every set of keys,  *)
(* values and threads.  They share nothing; the names of ConfigCenter's    *)
(* specification carry its prefix.                                         *)
(*                                                                         *)
(* TaskScheduler.  The inductive invariant relates the table, the jobs,    *)
(* the restore marks and the file:                                         *)
(*   Budget   a task that may still fail has failures left to count;       *)
(*   Unused   an id that was never added is nowhere;                       *)
(*   Marks    a mark stands only on a paused task without a job (so that   *)
(*            pause and resume refuse it), or on a removed one;            *)
(*   Held     a task the user paused, or the limit shut off, is active     *)
(*            neither in the table nor in the file, and has no mark;       *)
(*   Loaded   a started scheduler has in its table whatever the file has,  *)
(*            up to a removal whose save failed and the tasks that its     *)
(*            start() did not read.                                        *)
(*                                                                         *)
(* ConfigCenter.  What was acknowledged is in the file, the file follows   *)
(* the memory when the process is quiet, and the module implements         *)
(* DurableMap.                                                             *)
(***************************************************************************)
EXTENDS TaskScheduler, ConfigCenter, TLAPS


Budget == \A t \in Tasks :
  /\ (\/ status[t] = "active"
       \/ (t \in running /\ status[t] # "none")
       \/ (t \in marked /\ status[t] # "none")) => fails[t] < MaxFail
  /\ dStatus[t] = "active" => dFails[t] < MaxFail

Unused == \A t \in Tasks :
  asked[t] = "unused" =>
    status[t] = "none" /\ dStatus[t] = "none" /\ t \notin running /\ t \notin marked
    /\ t \notin tripped

Marks == \A t \in Tasks :
  /\ status[t] = "none" => job[t] = "none"
  /\ t \in marked => status[t] \in {"none", "paused"} /\ job[t] = "none"
  /\ t \in running => t \notin marked

Held == \A t \in Tasks :
  (asked[t] = "paused" \/ t \in tripped) =>
    status[t] # "active" /\ dStatus[t] # "active" /\ t \notin marked

Loaded == \A t \in Tasks :
  (mode = "up" /\ dStatus[t] # "none") =>
    status[t] # "none" \/ asked[t] \in {"removed", "unsure"} \/ t \in unread

NewIsIdle == mode = "new" => running = {} /\ marked = {}

IInv ==
  /\ TypeOK /\ JobServesActive
  /\ Budget /\ Unused /\ Marks /\ Held /\ Loaded /\ NewIsIdle

LEMMA InitInv == Init => IInv
BY TasksAssumption, MaxFailAssumption
DEF Init, IInv, TypeOK, JobServesActive, Budget, Unused, Marks, Held, Loaded,
    NewIsIdle, NoStatus, Zero, Statuses, Jobs, Commands

LEMMA StepInv == IInv /\ [Next]_vars => IInv'
<1> SUFFICES ASSUME IInv, [Next]_vars PROVE IInv'
  OBVIOUS
<1> USE TasksAssumption, MaxFailAssumption
<1> USE DEF IInv, TypeOK, JobServesActive, Budget, Unused, Marks, Held, Loaded,
            NewIsIdle, Statuses, Jobs, Commands
<1>1. CASE Exit
  BY <1>1 DEF Exit, NoStatus, Zero
<1>2. CASE Start
  <2> USE DEF Start, Missing, Restored, AutoPaused, Rebuilt
  <2>1. TypeOK'
    BY <1>2
  <2>2. JobServesActive'
    BY <1>2
  <2>3. Budget'
    BY <1>2
  <2>4. Unused'
    BY <1>2
  <2>5. Marks'
    BY <1>2
  <2>6. Held'
    BY <1>2
  <2>7. Loaded' /\ NewIsIdle'
    BY <1>2
  <2>8. QED
    BY <2>1, <2>2, <2>3, <2>4, <2>5, <2>6, <2>7
<1>3. ASSUME NEW t \in Tasks, AddTask(t) PROVE IInv'
  <2>1. TypeOK'
    BY <1>3 DEF AddTask, Save, Answer
  <2>2. JobServesActive'
    BY <1>3 DEF AddTask, Save, Answer
  <2>3. Budget'
    BY <1>3 DEF AddTask, Save, Answer
  <2>4. Unused'
    BY <1>3 DEF AddTask, Save, Answer
  <2>5. Marks'
    BY <1>3 DEF AddTask, Save, Answer
  <2>6. Held'
    BY <1>3 DEF AddTask, Save, Answer
  <2>7. Loaded' /\ NewIsIdle'
    BY <1>3 DEF AddTask, Save, Answer
  <2>8. QED
    BY <2>1, <2>2, <2>3, <2>4, <2>5, <2>6, <2>7
<1>4. ASSUME NEW t \in Tasks, RegisterExecutor(t) PROVE IInv'
  <2>1. TypeOK'
    BY <1>4 DEF RegisterExecutor
  <2>2. JobServesActive'
    BY <1>4 DEF RegisterExecutor
  <2>3. Budget'
    BY <1>4 DEF RegisterExecutor
  <2>4. Unused'
    BY <1>4 DEF RegisterExecutor
  <2>5. Marks'
    BY <1>4 DEF RegisterExecutor
  <2>6. Held'
    BY <1>4 DEF RegisterExecutor
  <2>7. Loaded' /\ NewIsIdle'
    BY <1>4 DEF RegisterExecutor
  <2>8. QED
    BY <2>1, <2>2, <2>3, <2>4, <2>5, <2>6, <2>7
<1>5. ASSUME NEW t \in Tasks, Fire(t) PROVE IInv'
  BY <1>5 DEF Fire
<1>6. ASSUME NEW t \in Tasks, FinishOk(t) PROVE IInv'
  BY <1>6 DEF FinishOk
<1>7. ASSUME NEW t \in Tasks, FinishFail(t) PROVE IInv'
  <2>1. TypeOK'
    BY <1>7 DEF FinishFail, Save, Limit, FailedJob, FailedStatus
  <2>2. JobServesActive'
    BY <1>7 DEF FinishFail, Save, Limit, FailedJob, FailedStatus
  <2>3. Budget'
    BY <1>7 DEF FinishFail, Save, Limit, FailedJob, FailedStatus
  <2>4. Unused'
    BY <1>7 DEF FinishFail, Save, Limit, FailedJob, FailedStatus
  <2>5. Marks'
    BY <1>7 DEF FinishFail, Save, Limit, FailedJob, FailedStatus
  <2>6. Held'
    BY <1>7 DEF FinishFail, Save, Limit, FailedJob, FailedStatus
  <2>7. Loaded' /\ NewIsIdle'
    BY <1>7 DEF FinishFail, Save, Limit, FailedJob, FailedStatus
  <2>8. QED
    BY <2>1, <2>2, <2>3, <2>4, <2>5, <2>6, <2>7
<1>8. ASSUME NEW t \in Tasks, PauseTask(t) PROVE IInv'
  <2>1. TypeOK'
    BY <1>8 DEF PauseTask, Save, Answer
  <2>2. JobServesActive'
    BY <1>8 DEF PauseTask, Save, Answer
  <2>3. Budget'
    BY <1>8 DEF PauseTask, Save, Answer
  <2>4. Unused'
    BY <1>8 DEF PauseTask, Save, Answer
  <2>5. Marks'
    BY <1>8 DEF PauseTask, Save, Answer
  <2>6. Held'
    BY <1>8 DEF PauseTask, Save, Answer
  <2>7. Loaded' /\ NewIsIdle'
    BY <1>8 DEF PauseTask, Save, Answer
  <2>8. QED
    BY <2>1, <2>2, <2>3, <2>4, <2>5, <2>6, <2>7
<1>9. ASSUME NEW t \in Tasks, ResumeTask(t) PROVE IInv'
  <2>1. TypeOK'
    BY <1>9 DEF ResumeTask, Save, Answer
  <2>2. JobServesActive'
    BY <1>9 DEF ResumeTask, Save, Answer
  <2>3. Budget'
    BY <1>9 DEF ResumeTask, Save, Answer
  <2>4. Unused'
    BY <1>9 DEF ResumeTask, Save, Answer
  <2>5. Marks'
    BY <1>9 DEF ResumeTask, Save, Answer
  <2>6. Held'
    BY <1>9 DEF ResumeTask, Save, Answer
  <2>7. Loaded' /\ NewIsIdle'
    BY <1>9 DEF ResumeTask, Save, Answer
  <2>8. QED
    BY <2>1, <2>2, <2>3, <2>4, <2>5, <2>6, <2>7
<1>10. ASSUME NEW t \in Tasks, RemoveTask(t) PROVE IInv'
  <2>1. TypeOK'
    BY <1>10 DEF RemoveTask, Save, Answer
  <2>2. JobServesActive'
    BY <1>10 DEF RemoveTask, Save, Answer
  <2>3. Budget'
    BY <1>10 DEF RemoveTask, Save, Answer
  <2>4. Unused'
    BY <1>10 DEF RemoveTask, Save, Answer
  <2>5. Marks'
    BY <1>10 DEF RemoveTask, Save, Answer
  <2>6. Held'
    BY <1>10 DEF RemoveTask, Save, Answer
  <2>7. Loaded' /\ NewIsIdle'
    BY <1>10 DEF RemoveTask, Save, Answer
  <2>8. QED
    BY <2>1, <2>2, <2>3, <2>4, <2>5, <2>6, <2>7
<1>11. CASE UNCHANGED vars
  BY <1>11 DEF vars
<1>12. QED
  BY <1>1, <1>2, <1>3, <1>4, <1>5, <1>6, <1>7, <1>8, <1>9, <1>10, <1>11 DEF Next

----------------------------------------------------------------------------
(* TypeOK holds in every reachable state. *)
THEOREM TypeCorrect == Spec => []TypeOK
<1>1. IInv => TypeOK
  BY DEF IInv
<1>2. QED
  BY InitInv, StepInv, <1>1, PTL DEF Spec

(* Every reachable state gives a live job to the ACTIVE tasks only, and to *)
(* all of them whose trigger parses.                                       *)
THEOREM JobsServeActive == Spec => []JobServesActive
<1>1. IInv => JobServesActive
  BY DEF IInv
<1>2. QED
  BY InitInv, StepInv, <1>1, PTL DEF Spec

(* No run starts of a task the user paused, nor of a task the limit shut   *)
(* off: entering the executor takes an ACTIVE task, and Held says these    *)
(* are not ACTIVE.                                                         *)
LEMMA StartsAreActive ==
  ASSUME IInv, [Next]_vars, NEW t \in Tasks, t \in running' \ running
  PROVE  status[t] = "active"
BY DEF Next, vars, Exit, Start, AddTask, RegisterExecutor, Fire, FinishOk,
       FinishFail, PauseTask, ResumeTask, RemoveTask

THEOREM PausedTasksStay == Spec => PausedStartsNoRun
<1>1. IInv /\ [Next]_vars =>
        [\A t \in Tasks : asked[t] = "paused" => t \notin running' \ running]_vars
  BY StartsAreActive DEF IInv, Held
<1>2. QED
  BY InitInv, StepInv, <1>1, PTL DEF Spec, PausedStartsNoRun

THEOREM TrippedTasksStay == Spec => TrippedStartsNoRun
<1>1. IInv /\ [Next]_vars =>
        [\A t \in Tasks : t \in tripped => t \notin running' \ running]_vars
  BY StartsAreActive DEF IInv, Held
<1>2. QED
  BY InitInv, StepInv, <1>1, PTL DEF Spec, TrippedStartsNoRun

(* A step that drops a saved task is a save of a table without it; Loaded  *)
(* says a started scheduler has such a gap only after a removal, or after  *)
(* it failed to read the task.                                             *)
LEMMA DropsAreRemovals ==
  ASSUME IInv, [Next]_vars, NEW t \in Tasks,
         mode = "up", dStatus[t] # "none", dStatus'[t] = "none"
  PROVE  asked'[t] \in {"removed", "unsure"} \/ t \in unread
<1> USE DEF IInv, Loaded, TypeOK, Unused
<1>1. CASE \E u \in Tasks : AddTask(u)
  BY <1>1 DEF AddTask, Save, Answer, Commands
<1>2. CASE \E u \in Tasks : FinishFail(u)
  BY <1>2 DEF FinishFail, Save, FailedStatus
<1>3. CASE \E u \in Tasks : PauseTask(u) \/ ResumeTask(u)
  BY <1>3 DEF PauseTask, ResumeTask, Save, Answer, Marks
<1>4. CASE \E u \in Tasks : RemoveTask(u)
  BY <1>4 DEF RemoveTask, Save, Answer
<1>5. CASE Exit \/ Start \/ UNCHANGED vars
  BY <1>5 DEF Exit, Start, vars
<1>6. CASE \E u \in Tasks : RegisterExecutor(u) \/ Fire(u) \/ FinishOk(u)
  BY <1>6 DEF RegisterExecutor, Fire, FinishOk
<1>7. QED
  BY <1>1, <1>2, <1>3, <1>4, <1>5, <1>6 DEF Next

THEOREM SavedTasksStay == Spec => SavedTasksKept
<1>1. IInv /\ [Next]_vars =>
        [\A t \in Tasks :
           (mode = "up" /\ dStatus[t] # "none" /\ dStatus'[t] = "none")
             => asked'[t] \in {"removed", "unsure"} \/ t \in unread]_vars
  BY DropsAreRemovals
<1>2. QED
  BY InitInv, StepInv, <1>1, PTL DEF Spec, SavedTasksKept

-----------------------------------------------------------------------------
(* ConfigCenter.                                                            *)


\* The lock is held exactly by the thread that is saving.
Locked == \A c \in Threads : pc[c] = "replace" <=> lock = c

\* What is in memory, and what is being saved, was in memory since the last save.
Recent == store \in recent /\ (lock # None => snap[lock] \in recent)

\* A key whose change was acknowledged, and that this process has read, was not changed
\* since, neither in memory nor in what is being saved; nor was a key that the thread
\* that saves changed last.
Agreed ==
  /\ \A k \in acked \ unloaded : store[k] = told[k]
  /\ lock # None => /\ \A k \in acked \ unloaded : snap[lock][k] = told[k]
                    /\ \A k \in Mine(lock) : snap[lock][k] = store[k]

\* The file is the memory, or will be after the save under way, or a save is due.
Tracked ==
  \/ unsaved
  \/ \E c \in Threads : pc[c] \in {"notify", "save"}
  \/ IF lock = None THEN file = store ELSE snap[lock] = store

Kept == Locked /\ Agreed /\ AckedOnDisk

-----------------------------------------------------------------------------
LEMMA EmptyIsMap == Empty \in Maps
BY DEF Empty, Maps

LEMMA InitType == ConfigInit => ConfigTypeOK
BY EmptyIsMap DEF ConfigInit, ConfigTypeOK

LEMMA DoneType ==
  ASSUME ConfigTypeOK, NEW c \in Threads, Done(c)
  PROVE  /\ pc' \in [Threads -> {"idle", "notify", "notify only", "save", "replace"}]
         /\ key' \in [Threads -> Keys \cup {None}] /\ lock' \in Threads \cup {None}
         /\ snap' \in [Threads -> Maps] /\ last' \in [Keys -> Threads \cup {None}]
<1>1. snap' \in [Threads -> Maps]
  BY EmptyIsMap DEF ConfigTypeOK, Done
<1>2. last' \in [Keys -> Threads \cup {None}]
  BY DEF ConfigTypeOK, Done
<1> QED
  BY <1>1, <1>2 DEF ConfigTypeOK, Done

\* Every step keeps the types.
LEMMA StepType == ConfigTypeOK /\ [ConfigNext]_ConfigVars => ConfigTypeOK'
<1> SUFFICES ASSUME ConfigTypeOK, [ConfigNext]_ConfigVars PROVE ConfigTypeOK'
  OBVIOUS
<1> USE EmptyIsMap DEF ConfigTypeOK
<1>1. ASSUME NEW c \in Threads, NEW k \in Keys, NEW v \in Values \cup {None}, Set(c, k, v)
      PROVE ConfigTypeOK'
  BY <1>1 DEF Set, Call, Change, Maps
<1>2. ASSUME NEW c \in Threads, NEW k \in Keys, ResetKey(c, k) PROVE ConfigTypeOK'
  BY <1>2 DEF ResetKey, Call, Change, Maps
<1>3. ASSUME NEW c \in Threads, ResetAll(c) PROVE ConfigTypeOK'
  BY <1>3 DEF ResetAll, Call, Change, Maps
<1>4. ASSUME NEW c \in Threads, Notify(c) PROVE ConfigTypeOK'
  <2>1. CASE pc[c] = "notify"
    BY <1>4, <2>1 DEF Notify
  <2>2. CASE pc[c] # "notify"
    BY <1>4, <2>2, DoneType DEF Notify
  <2> QED
    BY <2>1, <2>2
<1>5. ASSUME NEW c \in Threads, Snapshot(c) PROVE ConfigTypeOK'
  BY <1>5 DEF Snapshot
<1>6. ASSUME NEW c \in Threads, Replace(c) PROVE ConfigTypeOK'
  BY <1>6, DoneType DEF Replace, Mine, Maps
<1>7. ASSUME NEW c \in Threads, Fail(c) PROVE ConfigTypeOK'
  BY <1>7, DoneType DEF Fail
<1>8. CASE Restart
  <2>1. PICK read \in SUBSET Saved :
          /\ store' = [k \in Keys |-> IF k \in read THEN file[k] ELSE None]
          /\ unloaded' = Saved \ read /\ unsaved' = (read # Saved)
    BY <1>8 DEF Restart
  <2>2. store' \in Maps /\ unloaded' \subseteq Keys /\ unsaved' \in BOOLEAN
    BY <2>1 DEF Saved, Maps
  <2>3. recent' \subseteq Maps /\ lock' = None /\ file' = file /\ told' = told /\ acked' = acked
    BY <1>8, <2>2 DEF Restart
  <2>4. /\ pc' \in [Threads -> {"idle", "notify", "notify only", "save", "replace"}]
        /\ key' \in [Threads -> Keys \cup {None}] /\ snap' \in [Threads -> Maps]
        /\ last' \in [Keys -> Threads \cup {None}]
    BY <1>8 DEF Restart
  <2> QED
    BY <2>2, <2>3, <2>4
<1>9. CASE UNCHANGED ConfigVars
  BY <1>9 DEF ConfigVars
<1> QED
  BY <1>1, <1>2, <1>3, <1>4, <1>5, <1>6, <1>7, <1>8, <1>9 DEF ConfigNext

\* The variables keep their types.
THEOREM ConfigTypeCorrect == ConfigSpec => []ConfigTypeOK
BY InitType, StepType, PTL DEF ConfigSpec

-----------------------------------------------------------------------------
(* The file holds what was acknowledged.                                    *)

LEMMA InitKept == ConfigInit => Kept
BY ConfigAssumption DEF ConfigInit, Kept, Locked, Agreed, AckedOnDisk, Empty

\* A change of the memory: the changed keys are no longer acknowledged, and the
\* thread that saves does not count them as its own.
LEMMA ChangeKept ==
  ASSUME ConfigTypeOK, Kept, NEW K \in SUBSET Keys, NEW m \in Maps, NEW d \in Threads \cup {None},
         lock # None => d # lock,
         \A k \in Keys \ K : m[k] = store[k], Change(d, K, m),
         lock' = lock, lock # None => key'[lock] = key[lock],
         \A e \in Threads : pc'[e] = "replace" <=> pc[e] = "replace"
  PROVE  Kept'
<1> USE DEF ConfigTypeOK, Kept, Change
<1>1. Locked'
  BY DEF Locked
<1>2. AckedOnDisk'
  BY DEF AckedOnDisk
<1>3. lock # None => (Mine(lock))' \subseteq Mine(lock) \ K
  BY DEF Mine
<1>4. Agreed'
  <2>1. \A k \in Keys \ K : store'[k] = store[k] /\ told'[k] = told[k]
    BY DEF Maps
  <2>2. /\ acked' = acked \ K /\ unloaded' = unloaded \ K /\ acked \subseteq Keys
        /\ snap' = snap /\ lock' = lock
    OBVIOUS
  <2>3. \A k \in acked' \ unloaded' : store'[k] = told'[k]
    BY <2>1, <2>2 DEF Agreed
  <2>4. lock # None => \A k \in acked' \ unloaded' : snap'[lock'][k] = told'[k]
    BY <2>1, <2>2 DEF Agreed
  <2>5. lock # None => \A k \in Mine(lock)' : snap'[lock'][k] = store'[k]
    BY <1>3, <2>1, <2>2 DEF Agreed, Mine
  <2> QED
    BY <2>2, <2>3, <2>4, <2>5 DEF Agreed
<1> QED
  BY <1>1, <1>2, <1>4

LEMMA StepKept == ConfigTypeOK /\ Kept /\ [ConfigNext]_ConfigVars => Kept'
<1> SUFFICES ASSUME ConfigTypeOK, Kept, [ConfigNext]_ConfigVars PROVE Kept'
  OBVIOUS
<1> USE ConfigAssumption
<1>1. ASSUME NEW c \in Threads, NEW k \in Keys, NEW v \in Values \cup {None}, Set(c, k, v)
      PROVE Kept'
  <2>1. [store EXCEPT ![k] = v] \in Maps
    BY DEF ConfigTypeOK, Maps
  <2>2. \A e \in Threads : pc'[e] = "replace" <=> pc[e] = "replace"
    BY <1>1 DEF Set, Call, ConfigTypeOK
  <2>3. /\ Change(c, {k}, [store EXCEPT ![k] = v]) /\ lock = None /\ lock' = lock
        /\ \A x \in Keys \ {k} : [store EXCEPT ![k] = v][x] = store[x]
    BY <1>1 DEF Set, ConfigTypeOK, Maps
  <2> QED
    BY <2>1, <2>2, <2>3, ChangeKept
<1>2. ASSUME NEW c \in Threads, NEW k \in Keys, ResetKey(c, k) PROVE Kept'
  <2>1. [store EXCEPT ![k] = None] \in Maps
    BY DEF ConfigTypeOK, Maps
  <2>2. /\ \A e \in Threads : pc'[e] = "replace" <=> pc[e] = "replace"
        /\ lock # None => lock # c /\ key'[lock] = key[lock]
    BY <1>2 DEF ResetKey, Call, ConfigTypeOK, Kept, Locked
  <2>3. /\ Change(None, {k}, [store EXCEPT ![k] = None]) /\ lock' = lock
        /\ \A x \in Keys \ {k} : [store EXCEPT ![k] = None][x] = store[x]
    BY <1>2 DEF ResetKey, ConfigTypeOK, Maps
  <2>4. lock # None => None # lock
    OBVIOUS
  <2> QED
    BY <2>1, <2>2, <2>3, <2>4, ChangeKept
<1>3. ASSUME NEW c \in Threads, ResetAll(c) PROVE Kept'
  <2>1. /\ \A e \in Threads : pc'[e] = "replace" <=> pc[e] = "replace"
        /\ lock # None => lock # c /\ key'[lock] = key[lock]
    BY <1>3 DEF ResetAll, Call, ConfigTypeOK, Kept, Locked
  <2> QED
    BY <1>3, <2>1, EmptyIsMap, ChangeKept DEF ResetAll
<1>4. ASSUME NEW c \in Threads, Notify(c) PROVE Kept'
  <2>1. lock # c /\ lock' = lock /\ (lock # None => snap'[lock] = snap[lock])
    BY <1>4 DEF Notify, Done, Kept, Locked, ConfigTypeOK
  <2>2. \A e \in Threads : pc'[e] = "replace" <=> pc[e] = "replace"
    BY <1>4 DEF Notify, Done, ConfigTypeOK
  <2>3. lock # None => key'[lock] = key[lock]
    <3>1. key' = key \/ key' = [key EXCEPT ![c] = None]
      BY <1>4 DEF Notify, Done
    <3>2. key \in [Threads -> Keys \cup {None}] /\ lock \in Threads \cup {None}
      BY DEF ConfigTypeOK
    <3> QED
      BY <2>1, <3>1, <3>2
  <2>4. \A k \in Keys : last'[k] \in {last[k], None}
    BY <1>4 DEF Notify, Done, ConfigTypeOK
  <2>5. lock # None => (Mine(lock))' \subseteq Mine(lock)
    BY <2>1, <2>3, <2>4 DEF Mine
  <2> QED
    BY <1>4, <2>1, <2>2, <2>5 DEF Notify, Kept, Locked, Agreed, AckedOnDisk
<1>5. ASSUME NEW c \in Threads, Snapshot(c) PROVE Kept'
  <2>1. snap'[c] = store /\ lock' = c
    BY <1>5 DEF Snapshot, ConfigTypeOK
  <2>2. Locked'
    BY <1>5 DEF Snapshot, ConfigTypeOK, Kept, Locked
  <2>3. Agreed' /\ AckedOnDisk'
    BY <1>5, <2>1 DEF Snapshot, Kept, Agreed, AckedOnDisk, Mine
  <2> QED
    BY <2>2, <2>3 DEF Kept
<1>6. ASSUME NEW c \in Threads, Replace(c) PROVE Kept'
  <2>1. lock = c /\ lock' = None /\ file' = snap[c]
    BY <1>6 DEF Replace, Done, Kept, Locked
  <2>2. Locked'
    BY <1>6, <2>1 DEF Replace, Done, ConfigTypeOK, Kept, Locked
  <2>3. \A k \in acked' : /\ store'[k] = told'[k]
                          /\ file'[k] = told'[k]
    <3> SUFFICES ASSUME NEW k \in acked' PROVE store'[k] = told'[k] /\ file'[k] = told'[k]
      OBVIOUS
    <3>1. k \in Keys /\ k \in (acked \ unloaded) \cup Mine(c)
      BY <1>6 DEF Replace, ConfigTypeOK, Mine
    <3>2. told'[k] = (IF k \in Mine(c) THEN store[k] ELSE told[k]) /\ store' = store
      BY <1>6, <3>1 DEF Replace
    <3> QED
      BY <2>1, <3>1, <3>2 DEF Kept, Agreed
  <2> QED
    BY <2>1, <2>2, <2>3 DEF Kept, Agreed, AckedOnDisk
<1>7. ASSUME NEW c \in Threads, Fail(c) PROVE Kept'
  <2>1. /\ lock' = IF lock = c THEN None ELSE lock
        /\ lock' # None => snap'[lock'] = snap[lock]
    BY <1>7 DEF Fail, Done, ConfigTypeOK
  <2>2. Locked'
    BY <1>7 DEF Fail, Done, ConfigTypeOK, Kept, Locked
  <2>3. lock' # None => (Mine(lock))' \subseteq Mine(lock)
    BY <1>7, <2>1 DEF Fail, Done, Mine, ConfigTypeOK
  <2> QED
    BY <1>7, <2>1, <2>2, <2>3 DEF Fail, Kept, Agreed, AckedOnDisk
<1>8. CASE Restart
  <2>1. \A k \in Keys \ unloaded' : store'[k] = file[k]
    BY <1>8 DEF Restart, Saved
  <2> QED
    BY <1>8, <2>1 DEF Restart, Kept, Locked, Agreed, AckedOnDisk, ConfigTypeOK
<1>9. CASE UNCHANGED ConfigVars
  BY <1>9 DEF ConfigVars, Kept, Locked, Agreed, AckedOnDisk, Mine
<1> QED
  BY <1>1, <1>2, <1>3, <1>4, <1>5, <1>6, <1>7, <1>8, <1>9 DEF ConfigNext

\* A change that was saved and has returned is in the file, whatever happens since.
THEOREM AckedSurvives == ConfigSpec => []AckedOnDisk
<1>1. ConfigInit => ConfigTypeOK /\ Kept
  BY InitType, InitKept
<1>2. ConfigTypeOK /\ Kept /\ [ConfigNext]_ConfigVars => (ConfigTypeOK /\ Kept)'
  BY StepType, StepKept
<1>3. ConfigTypeOK /\ Kept => AckedOnDisk
  BY DEF Kept
<1> QED
  BY <1>1, <1>2, <1>3, PTL DEF ConfigSpec

-----------------------------------------------------------------------------
(* The file follows the memory.                                             *)

LEMMA InitTracked == ConfigInit => Tracked
BY DEF ConfigInit, Tracked

LEMMA StepTracked == ConfigTypeOK /\ Locked /\ Tracked /\ [ConfigNext]_ConfigVars => Tracked'
<1> SUFFICES ASSUME ConfigTypeOK, Locked, Tracked, [ConfigNext]_ConfigVars PROVE Tracked'
  OBVIOUS
<1> USE ConfigAssumption DEF Tracked
<1>1. ASSUME NEW c \in Threads, NEW k \in Keys, NEW v \in Values \cup {None}, Set(c, k, v)
      PROVE Tracked'
  BY <1>1 DEF Set, Call, ConfigTypeOK
<1>2. ASSUME NEW c \in Threads, NEW k \in Keys, ResetKey(c, k) PROVE Tracked'
  BY <1>2 DEF ResetKey
<1>3. ASSUME NEW c \in Threads, ResetAll(c) PROVE Tracked'
  BY <1>3 DEF ResetAll, Call, ConfigTypeOK
<1>4. ASSUME NEW c \in Threads, Notify(c) PROVE Tracked'
  <2>1. CASE pc[c] = "notify"
    BY <1>4, <2>1 DEF Notify, ConfigTypeOK
  <2>2. CASE pc[c] # "notify"
    <3>1. lock # c /\ lock' = lock /\ (lock # None => snap'[lock] = snap[lock])
      BY <1>4, <2>2 DEF Notify, Done, Locked, ConfigTypeOK
    <3>2. \A d \in Threads : pc[d] \in {"notify", "save"} => pc'[d] = pc[d]
      BY <1>4, <2>2 DEF Notify, Done, ConfigTypeOK
    <3> QED
      BY <1>4, <3>1, <3>2 DEF Notify
  <2> QED
    BY <2>1, <2>2
<1>5. ASSUME NEW c \in Threads, Snapshot(c) PROVE Tracked'
  BY <1>5 DEF Snapshot, ConfigTypeOK
<1>6. ASSUME NEW c \in Threads, Replace(c) PROVE Tracked'
  <2>1. lock = c /\ lock' = None /\ file' = snap[c] /\ store' = store /\ unsaved' = unsaved
    BY <1>6 DEF Replace, Done, Locked
  <2>2. \A d \in Threads : pc[d] \in {"notify", "save"} => pc'[d] = pc[d]
    BY <1>6 DEF Replace, Done, ConfigTypeOK
  <2> QED
    BY <2>1, <2>2
<1>7. ASSUME NEW c \in Threads, Fail(c) PROVE Tracked'
  BY <1>7 DEF Fail
<1>8. CASE Restart
  <2>1. PICK read \in SUBSET Saved :
          /\ store' = [k \in Keys |-> IF k \in read THEN file[k] ELSE None]
          /\ unsaved' = (read # Saved)
    BY <1>8 DEF Restart
  <2>2. read = Saved => store' = file
    <3>1. file = [k \in Keys |-> file[k]]
      BY DEF ConfigTypeOK, Maps
    <3> QED
      BY <2>1, <3>1 DEF Saved
  <2> QED
    BY <1>8, <2>1, <2>2 DEF Restart
<1>9. CASE UNCHANGED ConfigVars
  BY <1>9 DEF ConfigVars
<1> QED
  BY <1>1, <1>2, <1>3, <1>4, <1>5, <1>6, <1>7, <1>8, <1>9 DEF ConfigNext

\* In a quiet process the file is the memory, unless a save failed, a key was reset or
\* the load left something out.
THEOREM FileIsMemory == ConfigSpec => []DiskFollowsStore
<1>1. ConfigInit => ConfigTypeOK /\ Kept /\ Tracked
  BY InitType, InitKept, InitTracked
<1>2. ConfigTypeOK /\ Kept /\ Tracked /\ [ConfigNext]_ConfigVars
        => (ConfigTypeOK /\ Kept /\ Tracked)'
  BY StepType, StepKept, StepTracked DEF Kept
<1>3. ConfigTypeOK /\ Kept /\ Tracked => DiskFollowsStore
  BY DEF ConfigTypeOK, Kept, Locked, Tracked, DiskFollowsStore
<1> QED
  BY <1>1, <1>2, <1>3, PTL DEF ConfigSpec

-----------------------------------------------------------------------------
(* The refinement.                                                          *)

LEMMA InitRecent == ConfigInit => Recent
BY DEF ConfigInit, Recent

LEMMA StepRecent == ConfigTypeOK /\ Locked /\ Recent /\ [ConfigNext]_ConfigVars => Recent'
<1> SUFFICES ASSUME ConfigTypeOK, Locked, Recent, [ConfigNext]_ConfigVars PROVE Recent'
  OBVIOUS
<1> USE ConfigAssumption DEF Recent
<1>1. ASSUME NEW c \in Threads, NEW k \in Keys, NEW v \in Values \cup {None}, Set(c, k, v)
      PROVE Recent'
  BY <1>1 DEF Set, Change
<1>2. ASSUME NEW c \in Threads, NEW k \in Keys, ResetKey(c, k) PROVE Recent'
  BY <1>2 DEF ResetKey, Change
<1>3. ASSUME NEW c \in Threads, ResetAll(c) PROVE Recent'
  BY <1>3 DEF ResetAll, Change
<1>4. ASSUME NEW c \in Threads, Notify(c) PROVE Recent'
  <2>1. lock # c /\ lock' = lock /\ (lock # None => snap'[lock] = snap[lock])
    BY <1>4 DEF Notify, Done, Locked, ConfigTypeOK
  <2> QED
    BY <1>4, <2>1 DEF Notify
<1>5. ASSUME NEW c \in Threads, Snapshot(c) PROVE Recent'
  BY <1>5 DEF Snapshot, ConfigTypeOK
<1>6. ASSUME NEW c \in Threads, Replace(c) PROVE Recent'
  BY <1>6 DEF Replace, Done, Locked
<1>7. ASSUME NEW c \in Threads, Fail(c) PROVE Recent'
  BY <1>7 DEF Fail, Done, ConfigTypeOK
<1>8. CASE Restart
  BY <1>8 DEF Restart, Saved
<1>9. CASE UNCHANGED ConfigVars
  BY <1>9 DEF ConfigVars
<1> QED
  BY <1>1, <1>2, <1>3, <1>4, <1>5, <1>6, <1>7, <1>8, <1>9 DEF ConfigNext

LEMMA InitRefines == ConfigInit => Durable!Init
BY DEF ConfigInit, Durable!Init, Empty

\* Changes of the memory write, the replacement of the file flushes, the other steps
\* stutter.
LEMMA StepRefines ==
  ConfigTypeOK /\ Locked /\ Recent /\ [ConfigNext]_ConfigVars => [Durable!Next]_(Durable!vars)
<1> SUFFICES ASSUME ConfigTypeOK, Locked, Recent, [ConfigNext]_ConfigVars
             PROVE  [Durable!Next]_(Durable!vars)
  OBVIOUS
<1> USE DEF Durable!vars
<1>1. ASSUME NEW c \in Threads, NEW k \in Keys, NEW v \in Values \cup {None}, Set(c, k, v)
      PROVE Durable!Write
  BY <1>1 DEF Set, Change, Durable!Write, Durable!Change
<1>2. ASSUME NEW c \in Threads, NEW k \in Keys, ResetKey(c, k) PROVE Durable!Write
  BY <1>2 DEF ResetKey, Change, Durable!Write, Durable!Change
<1>3. ASSUME NEW c \in Threads, ResetAll(c) PROVE Durable!Write
  BY <1>3 DEF ResetAll, Change, Empty, Durable!Write, Durable!Change
<1>4. ASSUME NEW c \in Threads, Notify(c) PROVE UNCHANGED Durable!vars
  BY <1>4 DEF Notify
<1>5. ASSUME NEW c \in Threads, Snapshot(c) PROVE UNCHANGED Durable!vars
  BY <1>5 DEF Snapshot
<1>6. ASSUME NEW c \in Threads, Replace(c) PROVE Durable!Flush
  BY <1>6, ConfigAssumption DEF Replace, Locked, Recent, Durable!Flush
<1>7. ASSUME NEW c \in Threads, Fail(c) PROVE UNCHANGED Durable!vars
  BY <1>7 DEF Fail
<1>8. CASE Restart
  BY <1>8 DEF Restart, Saved, Durable!Restart, Durable!Next
<1>9. CASE UNCHANGED ConfigVars
  BY <1>9 DEF ConfigVars
<1> QED
  BY <1>1, <1>2, <1>3, <1>4, <1>5, <1>6, <1>7, <1>8, <1>9 DEF ConfigNext, Durable!Next

\* The settings and their file implement DurableMap: the file only ever holds a whole
\* state of the memory, and never goes back.
THEOREM ConfigImplements == ConfigSpec => WholeAndForward
<1>1. ConfigInit => Durable!Init /\ ConfigTypeOK /\ Kept /\ Recent
  BY InitType, InitKept, InitRecent, InitRefines
<1>2. ConfigTypeOK /\ Kept /\ Recent /\ [ConfigNext]_ConfigVars => (ConfigTypeOK /\ Kept /\ Recent)'
  BY StepType, StepKept, StepRecent DEF Kept
<1>3. ConfigTypeOK /\ Kept /\ Recent /\ [ConfigNext]_ConfigVars => [Durable!Next]_(Durable!vars)
  BY StepRefines DEF Kept
<1> QED
  BY <1>1, <1>2, <1>3, PTL DEF ConfigSpec, WholeAndForward, Durable!Spec
=============================================================================
