# A verification project for fusion-cowork

TLA+ models of the concurrent and persistent core of fusion-cowork, checked with
TLC on small instances, and proofs with TLAPS of the properties that matter most.
Paths below are relative to `fusion_cowork/` unless they start with `docs/`.
`PROJECT.json` maps every definition to the lines it models.

## 1. Inventory of the system

fusion-cowork runs workflows of nodes (AI calls, browser and macOS automation,
files, shell) for a user and for agents. Three entry layers share one engine:

    CLI (cli.py)   Web API (server/web_api.py: REST, SSE)   desk RPC (server/desk_rpc.py)
         \                 |           \                      /
          \          RunRegistry   RunnerPool + TeamMailbox  Orchestrator (plans, tasks)
           \               |          /                       /
            +------- WorkflowEngine (engine/workflow.py) ----+
                     |            |               |
              PermissionManager  hooks/events    nodes/*

Nearly everything runs on one asyncio event loop, so state changes only at
awaits; the exceptions are SQLite calls in worker threads and several processes
that share files (daemon, CLI). Processes end at any time.

| Component | State it keeps | Operations | Talks to | What is hard | What makes it correct |
|---|---|---|---|---|---|
| Task scheduler, `engine/scheduler.py` | task table, APScheduler jobs, executors, marks of restored tasks; one JSON file | add, pause, resume, remove, register executor, run, load, shutdown | CLI, web API; its executor starts workflows | restarts, saves that raise, a pause while a run is suspended | a job is live exactly for an active task; paused or shut-off tasks start nothing, in any later process; no saved task is dropped |
| Run loop, `engine/workflow.py` `execute`, `_run_node` | order and cursor, done set, outputs, directives, revision counts, cancel flag, one event per run | wave, node, retry, skip, pause, resume, cancel, insert, redirect, revise | permissions, hooks, registry | concurrent nodes, merge of their outcomes, rewinds with siblings, one event for pause and approval | a completed run hides no denial or failure; rework precedes the next gate; nothing is lost for consumers; the run ends or stands at its checkpoint |
| Approvals, `engine/permission_manager.py`, `_hitl_await`, `resolve_hitl`, confirm routes | rules, pending cards and their details, one decision and one once-grant per run | check, wait, confirm, confirm once, webhook, takeover, reset, timeout | engine, web API, sockets | answers by run and cards by node, answers that come early, late or twice | an approval opens one wait; a gate never passes by a rule; what the run reports is true; every check ends |
| Run registry, `server/web_api.py` `RunRegistry`, `engine/run_persistence.py` | records, asyncio tasks, SQLite rows, recovery state | start, pause, resume, cancel, relaunch, stall watchdog, recover, close | engine, SQLite, memory | crash anywhere, a relaunch while the first task unwinds, the watchdog | an active record has a task, a row has a run, success means all nodes, nothing runs after a restart before a person resumes |
| Team mailbox and runner pool, `orchestrator/team_mailbox.py`, `runner_pool.py`, team routes | mailbox and roster rows, in-flight and pending-reply sets, wake event, loop task | send, register, notify, start, stop, tick, dispatch, ack, collect | registry, SQLite in threads | crash between dispatch and ack, cancel while a thread works, lost wakes | at least one run per message, one per life of the daemon, one reply per run |
| Plans and acceptance, `orchestrator/orchestrator.py` `execute_plan`, `accept_task`, `reopen_task` | task and acceptance statuses, results, resource locks | waves, arbitration, milestone gate, skip, deadlock report, verdict, rework | executors, desk RPC | several locks per task, verdicts and rework beside the loop | exclusion on keys without deadlock; tasks build on success; the terminal status is true |
| Submitted tasks, `orchestrator/orchestrator.py`, `executors.py` | task table, handles, archive, presence of agents | submit, run, cancel, reopen, reject, delegate | executors, desk RPC | cancel before the first step, nested coordinators, a reopened task with two runs | delegation ends; an agent is busy with what runs; an ended task leaves nothing behind; every run ends |
| Configuration center, `config_center.py` | settings in memory, one JSON file | set, delete, reset, save, load | all threads | snapshot and replacement beside other changes, failing saves, process end | an acknowledged change is in the file; the file is always a whole state and never an older one |
| Space: members, artifacts, revisions, `space/{store,artifact,member,api}.py` | SQLite or PostgreSQL tables | edit, revise, share, review, transfer, delete, join, add, remove, roles | web API | read, check and write in different transactions; two backends with different isolation | no edit is lost; metadata stays; invitations do not overfill a space; every call ends |
| Other Space parts, `space/*` | messages, presence, knowledge | append, list, chat | web API, sockets | little | |
| Agent bus, runtimes, roles, `orchestrator/*` | bounded queues, a table of roles | publish, route | executors | little | |
| Distributed state, `distributed_state.py`, `cluster_sync.py` | one JSON file for all nodes, a cache per process | heartbeat, assign, allocate VRAM | other processes | read-modify-write between processes | see section 8 |
| Sync, sockets, takeover, `server/{sync,collab_ws,remote,push}.py` | connections, subscriptions | broadcast, confirm | approvals, registry | slow and lost clients | every confirm reaches the wait |
| Security, AI clients, capabilities, plugins, skills, identity, persistence helpers, node library, templates, reports, UI | small counters, catalogues, caches | see `PROJECT.json` | | mostly pure or I/O | |

`PROJECT.json` lists every part with its status, and under `hazards` each place
where a test would hardly reach what can go wrong, with the properties that
would catch it or the reason why none does yet.

## 2. Plan

Order: what decides whether user work is run, repeated or lost comes first; then
what stores it; every module is first checked, then proved about.

1. `TaskScheduler`, `WaveScheduler`, `HitlGate`, `RunRegistry`, `RunnerPool`,
   `PlanExecution`: modelled, checked, proved about; `RunPromise`, what a run owes
   whoever started it, which `WaveScheduler` implements.
2. `TaskSubmission`: single tasks, their coordinator and their archive; modelled,
   checked, proved about.
3. `DurableMap`, an abstract specification of a setting that is saved, and
   `ConfigCenter`, which implements it; checked and proved.
4. `SpaceStore`: concurrent calls over two database backends; modelled, checked,
   proved about.

Left, in this order: an abstract mailbox that `RunnerPool` implements; the
composition of `HitlGate` with `RunRegistry` (a relaunch that finds decisions of its
predecessor); two processes over the scheduler's or the configuration's file; the
hazards of `PROJECT.json` that no property covers.

No module that is proved about uses a RECURSIVE operator; parameters are
CONSTANTS with named assumptions, and there is one action per operation or per
stretch of code between two suspension points.

## 3. Modules and how they correspond to the code

An action is the code between two awaits (or between a thread hand-over and its
return); its guard is the early returns on the way there. Texts, timestamps,
logs and payloads are left out. Definitions called `mut_X` are plausible bugs of
`X`; they are in no specification and show that the properties notice them.

**TaskScheduler.** `mode` tells an object that was built from one that was
started; `status`, `fails` are the table, `job` is `_job_map`, `marked` is
`_executors_paused`, `dStatus`, `dFails` are the file. Each command is one
action with a `Save(ok)` that may raise; `Fire`, `FinishOk` and `FinishFail`
are separate because the executor is awaited. `Exit` ends the process at any
point and builds the next object; `start()` then loads the file, or the part of
it that can be read: nothing of a file that does not parse, not the items that
raise (`Start` chooses `read`). The history variable `unread` remembers the rest,
which the next save drops.

**WaveScheduler**, and **RunPromise** which it implements. One run of `execute`. `phase` is the main loop: at a boundary
(cancel, pause, directives, next wave), at the pause checkpoint, in a wave, or
ended. `stage[n]` is the coroutine of `_run_node`. `parked` is the one
`asyncio.Event`: manual pause and approval wait share it, which is where several
of the hazards come from. `WaveDone`, `Revise` and `Rewound` are the code after the
gather. `Standing` is what a boundary hands to `_apply_directives`, `After[k]` what is
left of it after the first `k` directives, and `NextWave` the selection of the wave.
`leapt` is a history variable: the nodes not done that a rewind left behind the cursor.
The refinement reads the outcome, the last end of each node, whether something was
denied, the nodes a revision excused, and what is left to do: the nodes of the order
that are neither done nor jumped over.

**HitlGate.** Nodes of one or several runs, each with one permission check. The
pending queue is kept as the code keeps it: the details, with the order of their
insertion as a relation (`older`), and a list that `reset` empties separately.
`decision` and `once` are per run, as in the code; `about` is a history field that
remembers whose card was answered. The routes differ in what they wake, so each is
an action of its own. A PERMISSION_REQUEST hook may approve instead of a person
(`Vouched`); the history variable `vouched` tells such nodes from those that an
approval opened. A run ends in two steps: `Close`, where its nodes are over and
`execute`'s `finally` awaits the hooks, and `End`, where the engine discards the
waiting mark and the flags; requests may come between the two.

**RunRegistry.** One run id, its record, its SQLite row and up to two overlapping
execution tasks. A task runs through recall, engine and close; the engine's own
dictionaries (`latest`, `flag`, `evt`, `queue`) are shared by both tasks as in
the code. `Crash` keeps only the row; `Recover` rebuilds. Every write, delete and load
of the row may fail, which the code logs and ignores (`Fault`); `leftover` remembers
that the row outlived its run that way. `tolerant` are the nodes with
`continue_on_error`, chosen at the start: behind one of them that failed, timed out or
was denied the run goes on (`Without`), to a success or to `completed_with_denials`.
Nodes run one at a time here: the waves are WaveScheduler's subject.

**RunnerPool.** Mailbox rows, roster, in-flight and pending sets, the wake event
and slots for loop tasks. SQLite calls run in threads that survive the cancel of
their loop. Two over-approximations: roster agents of one tick are served in any
order, and other coroutines may run between two dispatches of a batch.

**PlanExecution.** `loop` is `execute_plan` between suspensions (`think` is a turn
that is due: nothing else runs then), `step[t]` the coroutine of a task in the
wave, `owner` the resource locks, `queued` and `redoing` the reworks that
`reopen_task` starts beside the plan. Whether `FUSION_MILESTONE_GATE` is on is
chosen at the start. One plan is modelled; the locks it shares with other plans
of the process are not contended by them.

**TaskSubmission.** A run is one coroutine of `_run_submitted_task`; a reopened task
has several. `live` and `archive` are `_tasks` and `_task_archive`, `handle` is
`_task_handles`, `current` the presence of the four agents. `Finish` is an ending
with its `finally`; `Resume`, `Interrupt` and `Expire` are the three ways there, and
`Never` is the cancellation before the first step, which has no `finally`. Where
Python 3.11 and 3.12 differ (a result and a cancellation in the same turn), both
outcomes are admitted. The coordinator creates its child (`Delegate`), waits for its
coroutine (`Wake`) or gives up and cancels it (`GiveUp`).

**ConfigCenter**, and **DurableMap** which it implements. Threads change the memory
under the lock or, in `reset`, without it; a save takes the lock, makes a snapshot
and replaces the file, and may fail at either point; `Restart` may come at any
time and loads all of the file or, since `_load_silent` swallows what goes wrong, any
part of it (`unloaded` is the rest, which the next save drops). `recent`, the states of the memory since the file was last written, is what
the refinement (`INSTANCE DurableMap WITH mem <- store, disk <- file`) needs to say
that the file never goes back.

**SpaceStore.** One space, its members and one artifact. A call is `Start` (the
checks before its transaction), `Enter` (the transaction begins and reads), `Ask`
(a permission read on a connection of its own) and `Write` (statement and commit).
`Abandon` is a call that is cancelled or fails before that and is rolled back;
`BeginFails` one that fails or is cancelled between the lock and the BEGIN, behind
which nobody returns the lock or the connection.
`backend` is chosen at the start: SQLite has one lock for all transactions,
PostgreSQL a pool of connections on which transactions run side by side.

`MC*.tla` give the constants for TLC. They are small topologies chosen so that
the interesting case exists: a diamond with two gates, a run with a tolerant
node and two gates, an agent that may write to itself, a plan with two tasks
that contend for the same two keys, a prompt whose child delegates once more, a
space with one place left.

## 4. Runs

| Run | Asks | Distinct states | Shows |
|---|---|---|---|
| `scheduler` | `JobServesActive`, `PausedStartsNoRun`, `TrippedStartsNoRun`, `SavedTasksKept` | 1.06 M | holds through failed saves, failing or partial loads, restarts and runs suspended in an executor |
| `wave` | `CompletionIsWhole`, `KeepsPromise`, `GateSeesRework`, `SerialRunsOnce`, `OutputsKept`, `EndsOrWaits` | 711 k | holds at concurrency 1 and 2, fresh and from a snapshot; the second is the refinement |
| `hitl` | `SpentOnce`, `OnceForGates`, `PendingIsTrue`, `ChecksEnd` | 561 k | holds under every order of answers, approving hooks, pauses, cancels and timeouts |
| `registry` | `ActiveHasTask`, `NoOrphanRow`, `SuccessIsComplete`, `NeverAutoResumes` | 2.2 M | holds through two crashes, or one and a failing operation of the store, tolerant nodes and overlapping relaunches |
| `pool` | `AtLeastOnce`, `NoDoubleDispatch`, `OneReply`, `WakeNotLost`, `ReplyOwed`, `Delivered` | 316 k | holds with one failed call, refused dispatch or crash, and an inbox whose head a failed ack blocks |
| `plan` | `KeysApart`, `BuildsOnSuccess`, `SkipsBehindFailure`, `EndIsHonest`, `EndsOrWaits` | 207 k | holds with and without the milestone gate, run twice, with a verdict and a rework |
| `submission` | `DelegationEnds`, `BusyIsTrue`, `EndedIsArchived`, `RunsEnd` | 330 k | holds with nested delegation, reopened tasks, cancels and deadlines at any time |
| `config` | `AckedOnDisk`, `DiskFollowsStore`, `WholeAndForward` | 403 k | holds with three threads, failing saves, partial loads and restarts; the last is the refinement |
| `space` | `NoLostEdit`, `MetadataKept`, `MembersFit`, `CallsEnd` | 361 k | holds on both backends, as far as each property speaks of them, through calls that fail or are cancelled |
| `hitl_lost` | `ApprovalWakes` | | violated, finding 1 |
| `registry_parked` | `ParkedWorkSurvives` | | violated, finding 2 |
| `space_revision` | `RevisionsConflict` | | violated, finding 3 |

The type invariants are proved for every value of the constants (section 6) and are
therefore no properties of the runs.

Bounds, and why they are enough:

- `scheduler`: two tasks that share the file (one task's save writes the other's
  state, the only way they interact), one whose trigger does not parse, and a
  limit of two failures, so that one failure is not yet the limit. Restarts and
  loads that leave something out are not bounded. Symmetry between the two tasks; no
  liveness is checked with it.
- `wave`: four nodes and one inserted node make a wave of two gates with a common
  predecessor and a common successor, which is the smallest place where outcomes
  of siblings are merged. One revision, one retry and one directive reach every
  branch of the merge once and the exhausted counter after it. A directive names the
  first gate or nothing (`Anchors`): a node put behind that gate and before the other
  one, which revises itself, is what a rewind can jump over. The safety properties and
  the invariants of the proofs were also checked once with odd revision targets
  (2.3 M states), since the theorems hold for every target; `EndsOrWaits` does not
  (section 7).
- `hitl`: three nodes of one run (answers of different runs do not meet), two
  approvals, so that one may be spent while another is stored.
- `registry`: a node and a gate, of which one is tolerant (`MCTolerances`; no node is
  in `registry_parked`), two task slots, two crashes (a recovery of a recovered run)
  or one crash and one operation of the store that fails (`MCTroubles`). States that differ only in what no property
  and no later step reads (the history of earlier pauses, the locals of an ended task)
  are explored once (`MCView`). `registry_parked` uses three nodes and one crash.
- `pool`: one agent that may write to itself, an outsider, two messages and a
  reply, two runs, one trouble, one loop slot, `Serial` requests. A read of the
  inbox returns one row (`Limit`, 100 in the code), so that one failed ack is
  enough to fill the head of the inbox and to hide what is behind it, as a hundred do
  in the code; without its exception for that (`Crowded`) `Delivered` is violated
  here. The theorems hold for every limit, every number of loops and failures.
- `plan`: four tasks where a milestone of two is reached with two tasks left
  (`LongPlan` is 4 here, 6 in the code), two contended keys, two executions of
  the plan, one verdict and one rework. With two verdicts and one execution
  (197 k states), and with two of each (1.3 M), nothing else was found.
- `submission`: three tasks and three runs give a coordinator, its child and the
  child of that, which may not delegate again (`MaxDepth`), or a task that runs twice
  because it was reopened; an archive of one place drops what a waiting coordinator
  looks for. One shape that an executor runs and one that delegates: the other
  shapes differ in their agent alone.
- `config`: two keys (one call's save writes the other's key), one value and its
  absence, three threads, of which one may save while the others change and wait.
  Restarts and failures are not bounded.
- `space`: three calls of which two overlap; that fills the pool of two connections,
  and the third sees what a conflict left, waits behind a lock that a failed BEGIN
  kept, or finds the pool used up by two of them. Two places and one invitation to use,
  so that a join meets a space that has become full. Beside the founder at most one
  user is a member at first, and it is always the same (`MCSpec`): the others are alike.

Every action and every disjunct fires in the passing runs. `CHECK_DEADLOCK
FALSE` stands in the configurations of PlanExecution, TaskSubmission and
SpaceStore, where all is ended and the bounds on executions, verdicts, runs or calls
are used up. In the other modules something can always happen, or the end is an
explicit stutter.

## 5. Fairness

Weak fairness of the steps that the event loop runs by itself, and of nothing
that a person, another service or a failure does:

- `WaveScheduler`: the main loop and each node's own steps. A node ends by its
  timeout (the engine gives every node one) and an approval wait by
  `hitl_timeout`; `Answer`, pause, resume, cancel and directives are unfair.
- `HitlGate`: each node's steps, among them the timeout of its wait. So
  `ChecksEnd` does not rely on anybody answering.
- `RunnerPool`: each loop slot: the loop runs when it is ready, worker threads
  finish, the wait ends with the poll interval. Runs need not end.
- `PlanExecution`: the turns of the loop, the coroutines of a wave and of
  reworks; `wait_for` bounds each executor call (an executor that swallows its
  cancellation is outside this assumption). Nobody has to give a verdict.
- `TaskSubmission`: each run's `Due` steps: a coroutine begins, takes its result or
  its cancellation, and its `wait_for` deadline passes. That an executor returns is
  not assumed (`Return` is not in `Due`), so `RunsEnd` rests on the deadlines.
- `SpaceStore`: each call's steps. A lock or a connection that is free is given to
  somebody, and since only finitely many calls compete, to each. That a BEGIN fails
  or a call is cancelled is not fair. `CallsEnd` excepts the lock that a failed BEGIN
  kept, and the pool whose connections are all kept that way or held by transactions
  that need one more (`Starved`).
- `TaskScheduler`, `RunRegistry`, `ConfigCenter`: safety only, no fairness.

## 6. Proofs

| Theorem | Module | Assumes |
|---|---|---|
| `TypeCorrect`, `JobsServeActive`, `PausedTasksStay`, `TrippedTasksStay`, `SavedTasksStay` | `SavedFileProofs` | `MaxFail > 0` |
| `TypeCorrect`, `RunKeepsPromise`, `CompletionHonest`, `CompletionWhole`, `GateRework`, `SerialOnce`, `OutputsStay` | `WaveSchedulerProofs` | `WorkflowAssumption`, `BoundsAssumption`, `OrderAssumption` |
| `TypeCorrect`, `ApprovalsSpentOnce`, `GatesUnlockedOnce`, `PendingMatchesWait` | `HitlGateProofs` | `HitlAssumption` |
| `TypeCorrect`, `RecordsHaveTasks`, `RowsHaveTasks`, `SuccessIsWhole`, `NothingAutoResumes` | `RunRegistryProofs` | `RegistryAssumption` |
| `TypeCorrect`, `NothingLost`, `RepliesComing` | `RunnerPoolProofs` | `PoolAssumption`, any overlap of start and stop |
| `DispatchedOnce`, `RepliedOnce`, `NoWakeSwallowed` | `RunnerPoolProofs` | in addition `Serial` |
| `TypeCorrect`, `KeysStayApart`, `WavesBuildOnSuccess`, `EndsHonestly`, `SkippedBehindFailure` | `PlanExecutionProofs` | `PlanAssumption` |
| `TypeCorrect`, `DelegationIsBounded`, `BusyAgentsExecute`, `NothingLeftBehind` | `TaskSubmissionProofs` | `SubmissionAssumption` |
| `ConfigTypeCorrect`, `AckedSurvives`, `FileIsMemory`, `ConfigImplements` | `SavedFileProofs` | `ConfigAssumption` |
| `TypeCorrect`, `EditsKept`, `MetadataStays`, `MembersStayWithin` | `SpaceStoreProofs` | `SpaceAssumption` |

They hold for every number of tasks, nodes, runs, agents, messages, loops, threads,
users, calls, directives, revisions, crashes and failures, and for every workflow
whose table is in topological order. The arguments:

- *TaskScheduler.* That a paused task starts no run is not inductive by itself: a
  restart and a registration lie between. `Held` adds that it is active neither
  in the table nor in the file and bears no restore mark; `Marks` says that a
  mark stands only on a paused task without a job; `Loaded` that a started
  scheduler has in its table what the file has, but for the tasks its load left out
  (`unread`), so a save drops nothing else; `Budget` that an active task is below
  its limit.
- *WaveScheduler.* The order is rewritten while it is scanned. `Shape` says what every
  rewriting keeps: no repetition, every node behind its predecessors, and with a node
  also its original predecessors. `InsertShape` shows it of an insertion, `ApplyGrows`
  of any directive, and `DirectedGrows` of a list of any length, by induction; the
  part before the cursor does not change. On that rests `Behind`: a node behind the
  cursor is done, or a rewind jumped over it, which gives `CompletionIsWhole`.
  `GateSeesRework` needs that a node sent back is not done before its turn
  (`TurnsDue`) and that a gate enters a wave behind the node it waits for, also when
  nothing was ready and the loop forces it (`Awaited`). For `SerialRunsOnce`, the node
  at the cursor is the first of the rest, so another one is taken only if a
  predecessor of it is neither done nor ahead. The refinement sorts the steps into
  those of a node (`Moved`), the boundary, the end of a wave, the end by a cancel and
  the calls from outside, which the promise does not see. `Accounts` is what a run
  that completes needs: a failure that nothing excuses is still in the wave, or the
  run has failed. That a success had no failure at all then follows from the promise
  alone: only a run with a denial is ever sent back.
- *HitlGate.* `SpentOnce` needs that an approval still stored has opened no wait
  (`Spends`), `OnceForGates` the same of once-grants (`Unlocks`) and that no node of
  a gate tool ever read an allow rule (`Unruled`); it speaks of the gates that no
  hook approved. `PendingIsTrue` needs that one node
  of a run is in its check at a time (`Alone`, the `hitl_lock`), since the mark is
  the run's and the wait is a node's, and that no node of a run in its `finally` is
  in its check any more (`Ended`): until the hooks there return, the mark may stand
  without a question.
- *RunRegistry.* `NoOrphanRow` and `ActiveHasTask` need that a daemon that is down has
  no task (`Down`), that a task past its recall has an execution the engine knows
  (`Known`), and that an active record has a task that is not yet closing (`Backed`),
  since the close of one that is may follow at any time; whatever a step does to the
  store leaves the row one that was there or that the record allows (`StoreOK`,
  `ClosedFacts`). `SuccessIsComplete` needs that a success in any list of steps,
  snapshot or row was really there, and that a node is passed over without one only if
  it is tolerant (`EarnedByTasks`, `EarnedInRecord`).
  `NeverAutoResumes` is an action property; it needs `Quiet`: before a recovered run
  is released its only task stands where it was parked.
- *RunnerPool.* `Base` has the types, that memory refers to rows that exist
  (`Known`) and that a loop and its thread agree on what is being done (`Busy`).
  `AtLeastOnce` follows since a row is marked read only after its run was
  accepted. `NoDoubleDispatch` needs `Once`: one live loop (`OneLoop`, here
  `Serial` is used), and a message with a run of this life is either read, in
  flight, or shielded by the loop's place in its tick. `OneReply` needs
  `Mailed`: a run that was answered is not pending and no thread is about to
  answer it again. `WakeNotLost` needs `Heard`, which says it of every announced
  message, on the roster or not, since another process may register its recipient.
  `ReplyOwed` needs `Owed`, which begins at the dispatch instead of the success, and
  that a thread which ended well in a reply has mailed it.
- *PlanExecution.* `KeysApart` follows from: what executes owns all its keys, and
  a key has one owner. `BuildsOnSuccess` needs that a wave exists only while it
  is gathered (a verdict may fail a task, but only while the loop sleeps) and
  that a task the loop is through with has a result. `EndIsHonest` needs that
  without rework the statuses the code counts agree with the results (`Agree`).
  `SkipsBehindFailure` is delicate: a verdict may fail a task that has not run, and
  a later wave would overwrite that failure; the lemma `GatedSkipEnds` shows that
  only a gated plan has such a task and that it ends in the turn in which it skips.
- *TaskSubmission.* Every step is a new task, another run of a task, a run that
  begins, never begins or finishes, or quiet; the invariant is shown once for each
  kind. It says that a handle is a run of its task (`Handles`), and that a task which
  began stays in the table until one of its runs finishes, from where on its handle
  is out of reach of a cancellation (`Leaves`).
- *ConfigCenter.* The lock is held exactly by the thread that saves, and what it
  saves was in memory since the file was last written; what the file has and the
  memory has not is named by `unloaded` until a save replaces the file. The refinement
  then maps each step to a step of `DurableMap` (which restarts with any part of its
  file) or a stutter.
- *SpaceStore.* Who is in a transaction holds the lock or a connection, and so does
  who never gave it back (`Holds`). With one lock what the transaction of its holder
  has read is still true (`FreshRow` and the like), which gives `MetadataKept` and `MembersFit`; `NoLostEdit` holds on both
  backends from the comparison of versions in the statement that writes.

Only model-checked: liveness (out of the prover's reach) in `wave`, `hitl`, `pool`,
`plan`, `submission` and `space`. Every safety property of a passing run is proved.
The library's induction theorems take a predicate as a parameter, which the provers
cannot be given; the induction over a list of directives is written out as the choice
of a least counterexample (`LeastNatural`), and the list is folded by a recursive
function. No module that is proved about has a RECURSIVE operator.

## 7. Where code and documents disagree

Each of these is shown by a run; `PROJECT.json` quotes the text.

1. A confirm during the notification hooks is stored, its wake is cleared, and
   the node waits until its timeout and is denied (`hitl_lost`).
2. The row of a run that stands at a pause lacks the node that completed last
   (`registry_parked`).
3. A revision is applied over an edit that came after the content it was made from,
   without the conflict that the code and its test announce (`space_revision`).

Met while modelling, in the models' behaviour but without a run of their own:

- A restored task whose automatic pause is saved stays paused after the next
  restart, although registering its executor should resume it
  (`engine/scheduler.py:439`).
- A scheduler whose file cannot be read starts with an empty table (or without the
  items that do not parse), and its next save drops the saved tasks
  (`engine/scheduler.py:402`, `462`). `SavedTasksKept` excepts exactly these.
- The same holds of the configuration: a load that fails is logged, and the next
  change saves what there is in memory over the file (`config_center.py:122`).
- A run whose row could not be deleted when it ended is revived, paused, by the next
  start (`server/web_api.py:694`); a start whose load fails recovers nothing and leaves
  the row to the start after it (`server/web_api.py:973`).
- A PERMISSION_REQUEST hook opens a gate without any approval
  (`engine/permission_manager.py:337`).
- While a cancelled run awaits its closing hooks, `hitl_pending` still reports the
  question its cancellation took away (`engine/workflow.py:1027`, `1106`).
- A failed or cancelled BEGIN keeps the Space's write lock for the life of the process
  (`space/store.py:450`): every later write waits.
- A hundred messages at the head of an inbox whose acks failed hide all later ones
  until the daemon restarts (`orchestrator/runner_pool.py:131`, `146`).
- A failed node is forgotten when a rejected gate of its wave has a revision
  pending: the run completes (`docs/node-executors.md:115`).
- A run the stall watchdog pauses is closed as cancelled and its row deleted
  (`README.md:505`).
- A task behind a skipped task is reported as a deadlock and the plan as failed.
- With concurrency above 1 a finished node can enter a later wave again after an
  insert or a rewind (`docs/node-executors.md:110`).
- At concurrency 1 the cursor hides that, unless the node at the cursor can never
  become ready, because it waits for a node that was skipped, or for one that an
  explicit `revision_node` outside its predecessors left behind. Then the wave is
  filled with the first ready node of the rest, done or not, again and again, and the
  run does not end; the comment at `engine/workflow.py:944` says that concurrency 1
  takes the first of the order only. `SerialRunsOnce` names exactly this exception;
  the instance of `wave` has no such target.
- A rewind sets the cursor to its target (`engine/workflow.py:997`). With an explicit
  `revision_node` that stands behind a node which has not run yet, that node never
  runs, and the run completes. `CompletionIsWhole` excepts such nodes (`leapt`) and
  no others.
- The approval of one node's card can open the wait of another node of the run
  (`docs/node-executors.md:122`): answers are stored per run, and `execute`'s
  `finally` keeps them, so a relaunch finds its predecessor's
  (`engine/workflow.py:1093`).
- A rejected milestone task is failed, and the loop still waits for its verdict
  (comment at `orchestrator/orchestrator.py:668`).
- Tasks with acceptance criteria of a short pipeline are pending from the start,
  outside the milestone gate: what depends on them is reported as a deadlock.
- The first wave after the milestone builds on unreviewed output.
- Overlapping start and stop requests leave a pool loop nobody can stop, and
  with it double dispatch (`Serial = FALSE` and two loop slots show it).
- An applied revision replaces an artifact's metadata and with it its share codes
  and its review (`space/api.py:709`).
- On PostgreSQL two joins may overfill a space, a share code may be lost to a
  concurrent write of the metadata, and a pool whose transactions all need one more
  connection for their permission read stands still. The properties of `SpaceStore`
  say what remains true there.
- The owner of a space hands over in two transactions; if the new one leaves in
  between, the space has no owner (`space/member.py:169`).
- A commit that fails in the Space's store is logged and its caller is told of success
  (`space/store.py:471`).
- `schedule add` in the CLI overwrites the daemon's saved tasks (`cli.py:731`).
- Two processes lose each other's writes to the cluster's state
  (`distributed_state.py:241`).

## 8. Not modelled, and why

Listed with reasons in `PROJECT.json`. In short: node implementations, model and
browser clients, sockets and protocol bridges are I/O; parsing, templates,
reports and diffs are pure text processing; security counters, budgets and the
marketplace are small and independent of the run path; the rest of Space appends
and lists rows; the web console and the macOS browser are user interfaces over the
same API. Distributed state: each process locks only itself and replaces one file,
so nothing is promised between processes that a property could state, and within
one process every operation is one locked step.

Within the modelled parts: durations (a timeout is a step that may be taken),
texts and payloads, tenants and tags, metrics, the order in which SQLite returns
equal timestamps, and several processes over one file of the scheduler or the
configuration. The models cover the parts of the code that decide what is run,
repeated, lost or stored. Left out of the modelled parts by name: of the approvals the
guard service, the BYPASS level, capability verdicts, scopes of rules and trusted
sync URLs; of the registry the directives that skip or insert nodes, rows that do not
parse and the expiry of old records; of the configuration observers and secrets; of
the Space the creation and deletion of spaces and commits that fail. By lines the
models are a small share of the repository, most of which is node implementations,
command line and routes that pass calls on.
