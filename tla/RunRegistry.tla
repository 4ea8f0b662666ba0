---------------------------- MODULE RunRegistry ----------------------------
(***************************************************************************)
(* server/web_api.py: RunRegistry, and engine/run_persistence.py: the      *)
(* life of one run across pauses, cancels, relaunches, the stall watchdog  *)
(* and crashes of the daemon.                                              *)
(*                                                                         *)
(* The registry keeps a record of the run in memory and, while the run is  *)
(* running or paused, a row of it in SQLite, written at every event of the *)
(* engine.  An execution is an asyncio task: it waits for the memory       *)
(* recall, then runs the nodes in order inside engine.execute (here one at *)
(* a time; WaveScheduler has the waves), then closes the record.  A        *)
(* relaunch may start a second task while the first is still unwinding;    *)
(* both use the engine's entries for the one run id.  An operation of the  *)
(* store that fails is logged, and the run goes on without it.             *)
(***************************************************************************)
EXTENDS Integers, Sequences, FiniteSets, SequencesExt

CONSTANTS
  Order,        \* the nodes in topological order
  Gates,        \* those that stop for an approval
  Directives,   \* directives a user may send (each once): set_params or inject
  Tasks,        \* slots for execution tasks; bounds how many overlap
  Tolerances,   \* the sets of nodes that may have continue_on_error
  MaxCrashes,   \* bounds the crashes of the daemon
  MaxFaults,    \* bounds the operations of the store that fail
  None

Nodes == ToSet(Order)

ASSUME RegistryAssumption ==
  /\ Order \in Seq(Nodes) /\ IsInjective(Order) /\ Gates \subseteq Nodes
  /\ Tolerances \subseteq SUBSET Nodes
  /\ Tasks # {} /\ None \notin Tasks /\ MaxCrashes \in Nat /\ MaxFaults \in Nat

VARIABLES
  up,         \* the daemon runs
  status,     \* record["status"], "none" without a record
  recSteps,   \* record["steps"]: pairs <<node, status>>
  recDirs,    \* record["directives"]
  row,        \* the row of run_states, or None
  replay,     \* directives recover_persisted still has to replay, or None
  current,    \* _tasks[run_id], or None
  pc,         \* task |-> where it is
  idx,        \* task |-> its position in Order
  snap,       \* task |-> completed_ids
  steps,      \* task |-> execution.steps
  fin,        \* task |-> execution.status
  cold,       \* tasks with start_paused
  killed,     \* tasks whose cancel() is not delivered yet
  unwinding,  \* tasks on their way out with CancelledError
  latest,     \* task whose execution engine.get_execution returns, or None
  flag,       \* _cancel_flags[run_id]: "none", "off" or "on"
  evt,        \* _pause_events[run_id]: "none", "set" or "cleared"
  queue,      \* _directives[run_id]
  released,   \* history: the run may execute: started, or resumed since its recovery
  ran,        \* history: nodes that ended in success, in any session
  settled,    \* history: nodes that had ended in success when the run parked
  sent,       \* history: directives accepted
  tolerant,   \* nodes with continue_on_error
  leftover,   \* history: the last close did not get the row deleted, or this
              \* daemon's recovery did not get it loaded
  faults,     \* history: operations of the store that failed
  crashes     \* history: crashes so far

record == <<status, recSteps, recDirs>>
task   == <<pc, idx, snap, steps, fin, cold, killed, unwinding>>
engine == <<latest, flag, evt, queue>>
store  == <<row, leftover, faults>>
hist   == <<released, ran, settled, sent, tolerant, crashes>>
vars   == <<up, record, store, replay, current, task, engine, hist>>

Alive   == {t \in Tasks : pc[t] \notin {"none", "ended"}}
Active  == {"running", "paused"}
Good    == {"success", "completed_with_denials"}
Step    == Nodes \X {"success", "failed", "skipped", "blocked", "denied"}
Row     == [status : Active, steps : SUBSET Step, dirs : SUBSET Directives]

TypeOK ==
  /\ up \in BOOLEAN
  /\ status \in Active \cup Good \cup {"none", "failed", "cancelled"}
  /\ recSteps \subseteq Step /\ recDirs \subseteq Directives
  /\ row \in Row \cup {None}
  /\ replay \in (SUBSET Directives) \cup {None}
  /\ current \in Tasks \cup {None} /\ latest \in Tasks \cup {None}
  /\ pc \in [Tasks -> {"none", "recall", "boundary", "parked", "stranded", "woken",
                       "ask", "unheard", "run", "ending", "closing", "ended"}]
  /\ idx \in [Tasks -> 1..(Len(Order) + 1)]
  /\ snap \in [Tasks -> SUBSET Nodes] /\ steps \in [Tasks -> SUBSET Step]
  /\ fin \in [Tasks -> Good \cup {"running", "failed", "cancelled"}]
  /\ cold \subseteq Tasks /\ killed \subseteq Tasks /\ unwinding \subseteq Tasks
  /\ flag \in {"none", "off", "on"} /\ evt \in {"none", "set", "cleared"}
  /\ queue \subseteq Directives
  /\ released \in BOOLEAN /\ ran \subseteq Nodes /\ settled \subseteq Nodes
  /\ sent \subseteq Directives /\ tolerant \in Tolerances
  /\ leftover \in BOOLEAN /\ faults \in 0..MaxFaults /\ crashes \in 0..MaxCrashes

Init ==
  /\ up = TRUE /\ status = "none" /\ recSteps = {} /\ recDirs = {}
  /\ row = None /\ replay = None /\ current = None
  /\ pc = [t \in Tasks |-> "none"] /\ idx = [t \in Tasks |-> 1]
  /\ snap = [t \in Tasks |-> {}] /\ steps = [t \in Tasks |-> {}]
  /\ fin = [t \in Tasks |-> "running"]
  /\ cold = {} /\ killed = {} /\ unwinding = {}
  /\ latest = None /\ flag = "none" /\ evt = "none" /\ queue = {}
  /\ released = FALSE /\ ran = {} /\ settled = {} /\ sent = {}
  /\ tolerant \in Tolerances /\ leftover = FALSE /\ faults = 0 /\ crashes = 0

----------------------------------------------------------------------------
(* An operation of the store fails. *)
Fault == faults < MaxFaults /\ faults' = faults + 1

(* _persist: only a running or paused record is written. *)
Saved(st, ss, ds) ==
  IF st \in Active THEN [status |-> st, steps |-> ss, dirs |-> ds] ELSE row
Write(r) ==
  /\ \/ row' = r /\ UNCHANGED faults
     \/ r # row /\ row' = row /\ Fault
  /\ UNCHANGED leftover
Persist == Write(Saved(status', recSteps', recDirs'))

(* _on_event: the record takes the steps and the status of the newest      *)
(* execution, as they stand when the event is emitted; a paused record     *)
(* stays paused.                                                           *)
OnEvent(newest, itsSteps, itsFin) ==
  /\ recSteps' = itsSteps
  /\ status' = IF status = "paused" THEN "paused" ELSE itsFin
  /\ recDirs' = recDirs
  /\ Persist

NoEvent == UNCHANGED <<record, store>>
Event   == OnEvent(latest, steps[latest], fin[latest])

(* The steps of completed nodes in a list of steps. *)
mut_Snapshot(ss) == {s[1] : s \in ss}
Snapshot(ss) == {n \in Nodes : <<n, "success">> \in ss}

Launch(t, paused, done) ==
  /\ pc[t] \in {"none", "ended"} /\ t # latest
  /\ pc' = [pc EXCEPT ![t] = "recall"] /\ idx' = [idx EXCEPT ![t] = 1]
  /\ snap' = [snap EXCEPT ![t] = done] /\ steps' = [steps EXCEPT ![t] = {}]
  /\ fin' = [fin EXCEPT ![t] = "running"]
  /\ cold' = IF paused THEN cold \cup {t} ELSE cold \ {t}
  /\ unwinding' = unwinding \ {t}
  /\ current' = t

(* start *)
Start(t) ==
  /\ up /\ status = "none" /\ crashes = 0
  /\ Launch(t, FALSE, {})
  /\ status' = "running" /\ UNCHANGED <<recSteps, recDirs>> /\ Persist
  /\ released' = TRUE
  /\ UNCHANGED <<up, replay, killed, engine, ran, settled, sent, tolerant, crashes>>

----------------------------------------------------------------------------
(* An execution task.  Cancellation is delivered at its next await, so a   *)
(* cancelled task takes no other step.                                     *)
Runs(t, at) == up /\ pc[t] = at /\ t \notin killed
Move(t, to) == pc' = [pc EXCEPT ![t] = to]
TaskFrame   == UNCHANGED <<up, replay, current, snap, cold, killed, unwinding,
                           released, sent, tolerant, crashes>>

(* An execution waits on the event it found.  When the event is set, the  *)
(* parked ones go on; of those that wait for an approval the one that      *)
(* takes the answer runs its node, any other counts as rejected.           *)
SetEvent(winner) ==
  LET loses(u) == pc[u] = "ask" /\ u \notin killed /\ u # winner IN
  /\ evt' = "set"
  /\ pc' = [u \in Tasks |-> CASE u = winner      -> "run"
                             [] pc[u] = "parked" -> "woken"
                             [] loses(u)         -> "ending"
                             [] OTHER            -> pc[u]]
  /\ fin' = [u \in Tasks |-> IF loses(u) THEN "failed" ELSE fin[u]]
  /\ steps' = [u \in Tasks |-> IF loses(u) THEN steps[u] \cup {<<Order[idx[u]], "denied">>}
                                           ELSE steps[u]]

(* When the event is replaced or removed, nobody can set it any more.      *)
Forgotten ==
  [u \in Tasks |-> CASE pc[u] = "parked" -> "stranded"
                     [] pc[u] = "ask"    -> "unheard"
                     [] OTHER            -> pc[u]]

(* The recall is over: engine.execute registers the run and emits          *)
(* WORKFLOW_START with an empty list of steps.                             *)
mut_Begin(t) ==
  /\ Runs(t, "recall")
  /\ latest' = t /\ flag' = "off" /\ evt' = "set"
  /\ pc' = [Forgotten EXCEPT ![t] = "boundary"]
  /\ OnEvent(t, steps[t], fin[t])
  /\ UNCHANGED <<idx, steps, fin, queue, ran, settled>> /\ TaskFrame

Begin(t) ==
  /\ Runs(t, "recall")
  /\ latest' = t /\ flag' = "off"
  /\ evt' = IF t \in cold THEN "cleared" ELSE "set"
  /\ pc' = [Forgotten EXCEPT ![t] = "boundary"]
  /\ OnEvent(t, steps[t], fin[t])
  /\ UNCHANGED <<idx, steps, fin, queue, ran, settled>> /\ TaskFrame

Append1(t, n, how) == steps' = [steps EXCEPT ![t] = @ \cup {<<n, how>>}]
End(t, how)        == fin' = [fin EXCEPT ![t] = how] /\ Move(t, "ending")
Advance(t)         == idx' = [idx EXCEPT ![t] = @ + 1] /\ Move(t, "boundary")

(* The node fails or is denied: the run ends, or goes on if it may.        *)
Without(t, how) ==
  /\ Append1(t, Order[idx[t]], how)
  /\ IF Order[idx[t]] \in tolerant THEN Advance(t) /\ UNCHANGED fin
                                  ELSE End(t, "failed") /\ UNCHANGED idx

(* The pause checkpoint. *)
Park(t) ==
  /\ Runs(t, "boundary") /\ flag # "on" /\ evt = "cleared"
  /\ Move(t, "parked")
  /\ settled' = settled \cup {n \in Nodes : <<n, "success">> \in steps[t]}
  /\ NoEvent
  /\ UNCHANGED <<idx, steps, fin, engine, ran>> /\ TaskFrame

StopAtFlag(t) ==
  /\ Runs(t, "boundary") \/ Runs(t, "woken")
  /\ flag = "on"
  /\ End(t, "cancelled") /\ NoEvent
  /\ UNCHANGED <<idx, steps, engine, ran, settled>> /\ TaskFrame

(* Past the checkpoint the directives are taken and the next node begins.  *)
Next1(t) == Order[idx[t]]
Goes(t) ==
  /\ (Runs(t, "boundary") /\ evt # "cleared") \/ Runs(t, "woken")
  /\ flag # "on"
  /\ queue' = {} /\ UNCHANGED <<latest, flag, ran, settled>> /\ TaskFrame

(* The end of the list: with a denied step the run is marked so.           *)
Finish(t) ==
  /\ Goes(t) /\ idx[t] > Len(Order)
  /\ End(t, IF \E n \in Nodes : <<n, "denied">> \in steps[t] THEN "completed_with_denials"
                                                           ELSE "success")
  /\ NoEvent
  /\ UNCHANGED <<idx, steps, evt>>

(* A completed node of the snapshot leaves a skipped step. *)
Skip(t) ==
  /\ Goes(t) /\ idx[t] <= Len(Order) /\ Next1(t) \in snap[t]
  /\ Append1(t, Next1(t), "skipped") /\ Advance(t)
  /\ NoEvent /\ UNCHANGED <<fin, evt>>

Run(t) ==
  /\ Goes(t) /\ idx[t] <= Len(Order) /\ Next1(t) \notin snap[t] \cup Gates
  /\ Move(t, "run") /\ Event
  /\ UNCHANGED <<idx, steps, fin, evt>>

(* A gate leaves a blocked step and clears the event; without an event, or *)
(* with continue_on_error, it is denied on the spot.                       *)
Ask(t) ==
  /\ Goes(t) /\ idx[t] <= Len(Order) /\ Next1(t) \in Gates \ snap[t]
  /\ IF evt = "none" \/ Next1(t) \in tolerant
       THEN Event /\ Without(t, "denied") /\ UNCHANGED evt
       ELSE /\ Append1(t, Next1(t), "blocked") /\ Move(t, "ask")
            /\ evt' = "cleared" /\ OnEvent(latest, steps'[latest], fin[latest])
            /\ UNCHANGED <<fin, idx>>

(* The approval of the gate sets the run's event, a manual pause or not.   *)
Approve(t) ==
  /\ Runs(t, "ask") /\ flag # "on"
  /\ SetEvent(t) /\ Event
  /\ UNCHANGED <<idx, latest, flag, queue, ran, settled>> /\ TaskFrame

Reject(t) ==
  /\ Runs(t, "ask")
  /\ SetEvent(None) /\ Event
  /\ UNCHANGED <<idx, latest, flag, queue, ran, settled>> /\ TaskFrame

(* A timeout leaves the event as it is. *)
AskTimesOut(t) ==
  /\ Runs(t, "ask") \/ Runs(t, "unheard")
  /\ Event /\ Without(t, "denied")
  /\ UNCHANGED <<engine, ran, settled>> /\ TaskFrame

(* A node ends: NODE_END is emitted before its step is in the list.        *)
NodeOk(t) ==
  /\ Runs(t, "run")
  /\ Event
  /\ Append1(t, Order[idx[t]], "success") /\ ran' = ran \cup {Order[idx[t]]}
  /\ Advance(t)
  /\ UNCHANGED <<fin, engine, settled>> /\ TaskFrame

NodeFails(t) ==
  /\ Runs(t, "run")
  /\ Event /\ Without(t, "failed")
  /\ UNCHANGED <<engine, ran, settled>> /\ TaskFrame

(* execute's finally: WORKFLOW_END, then the engine forgets the run; a     *)
(* second task finds no cancel flag, and its KeyError fails the run.  The  *)
(* close follows at once, after a success possibly behind the write-back.  *)
mut_Closed(t, how, r) ==
  /\ status' = how /\ row' = row /\ current' = None /\ leftover' = FALSE /\ UNCHANGED faults

\* r: the row as the events of the step left it; the row is deleted, if that works
Closed(t, how, r) ==
  /\ status' = how /\ current' = None
  /\ \/ row' = None /\ UNCHANGED faults
     \/ row' \in {row, r} \ {None} /\ Fault
  /\ leftover' = (row' # None)

EngineEnd(t) ==
  LET how    == IF flag = "none" THEN "failed"
                ELSE IF t \in unwinding THEN "cancelled" ELSE fin[t]
      others == IF flag = "none" THEN pc ELSE Forgotten
      st     == IF status = "paused" THEN "paused" ELSE fin[latest]
      ended  == Saved(st, steps[latest], recDirs)
  IN
  /\ Runs(t, "ending")
  /\ recSteps' = IF t \in unwinding \/ flag = "none" THEN steps[latest] ELSE steps[t]
  /\ flag' = "none"
  /\ IF flag = "none" THEN UNCHANGED <<evt, queue>> ELSE evt' = "none" /\ queue' = {}
  /\ \/ Closed(t, how, ended) /\ pc' = [others EXCEPT ![t] = "ended"]
     \/ /\ how = "success" /\ pc' = [others EXCEPT ![t] = "closing"] /\ status' = how
        /\ Write(ended) /\ UNCHANGED current
  /\ UNCHANGED <<up, recDirs, replay, idx, snap, steps, fin, cold, killed,
                 unwinding, latest, hist>>

Close(t) ==
  /\ Runs(t, "closing")
  /\ Closed(t, status, row) /\ Move(t, "ended")
  /\ UNCHANGED <<up, recSteps, recDirs, replay, idx, snap, steps, fin, cold,
                 killed, unwinding, engine, hist>>

(* CancelledError reaches the task: inside the engine it unwinds through   *)
(* finally, elsewhere it goes straight to the end of _execute.             *)
mut_Delivered(t) ==
  row' = None /\ current' = None /\ leftover' = FALSE /\ UNCHANGED <<status, faults>>
Delivered(t) == Closed(t, "cancelled", row)

Deliver(t) ==
  /\ up /\ t \in killed /\ t \in Alive
  /\ killed' = killed \ {t}
  /\ IF pc[t] \in {"recall", "ending", "closing"}
       THEN Delivered(t) /\ Move(t, "ended") /\ UNCHANGED unwinding
       ELSE /\ Move(t, "ending") /\ unwinding' = unwinding \cup {t}
            /\ UNCHANGED <<status, store, current>>
  /\ UNCHANGED <<up, recSteps, recDirs, replay, idx, snap, steps, fin, cold,
                 engine, hist>>

TaskStep(t) ==
  \/ Begin(t) \/ Park(t) \/ StopAtFlag(t)
  \/ Finish(t) \/ Skip(t) \/ Run(t) \/ Ask(t) \/ Approve(t)
  \/ Reject(t) \/ AskTimesOut(t)
  \/ NodeOk(t) \/ NodeFails(t) \/ EngineEnd(t) \/ Close(t) \/ Deliver(t)

----------------------------------------------------------------------------
(* Requests; the server answers none before the recovery is over.          *)
Serving == up /\ replay = None

KillCurrent ==
  killed' = IF current \in Alive THEN killed \cup {current} ELSE killed

Cancel ==
  /\ Serving /\ status \in Active
  /\ flag' = IF flag = "none" THEN "none" ELSE "on"
  /\ IF flag = "none" \/ evt = "none" THEN UNCHANGED <<evt, pc, fin, steps>>
                                      ELSE SetEvent(None)
  /\ KillCurrent
  /\ UNCHANGED <<up, record, store, replay, current, idx, snap, cold, unwinding,
                 latest, queue, released, ran, settled, sent, tolerant, crashes>>

Pause ==
  /\ Serving /\ status = "running" /\ evt # "none"
  /\ evt' = "cleared" /\ status' = "paused"
  /\ UNCHANGED <<recSteps, recDirs>> /\ Persist
  /\ UNCHANGED <<up, replay, current, task, latest, flag, queue, hist>>

(* resume: the event is set; a gate that waits takes it for a rejection.   *)
Resume ==
  /\ Serving /\ status = "paused" /\ evt = "cleared"
  /\ SetEvent(None)
  /\ status' = "running" /\ UNCHANGED <<recSteps, recDirs>> /\ Persist
  /\ released' = TRUE
  /\ UNCHANGED <<up, replay, current, idx, snap, cold, killed, unwinding, latest,
                 flag, queue, ran, settled, sent, tolerant, crashes>>

(* resume of a run whose event is missing or set already: _relaunch.       *)
Relaunch(t) ==
  /\ Serving /\ status = "paused" /\ evt # "cleared"
  /\ Launch(t, FALSE, Snapshot(recSteps))
  /\ KillCurrent
  /\ status' = "running" /\ UNCHANGED <<recSteps, recDirs>> /\ Persist
  /\ released' = TRUE
  /\ UNCHANGED <<up, replay, engine, ran, settled, sent, tolerant, crashes>>

SendDirective(d) ==
  /\ Serving /\ status \in Active /\ evt # "none" /\ d \notin sent
  /\ queue' = queue \cup {d} /\ sent' = sent \cup {d}
  /\ recDirs' = recDirs \cup {d} /\ UNCHANGED <<status, recSteps>> /\ Persist
  /\ UNCHANGED <<up, replay, current, task, latest, flag, evt, released, ran,
                 settled, tolerant, crashes>>

(* The watchdog trips on a running record without events, unless the run   *)
(* waits for an approval.                                                  *)
Stall ==
  /\ Serving /\ status = "running"
  /\ \A t \in Alive : pc[t] \notin {"ask", "boundary", "woken"}
  /\ status' = "paused" /\ UNCHANGED <<recSteps, recDirs>> /\ Persist
  /\ KillCurrent
  /\ UNCHANGED <<up, replay, current, pc, idx, snap, steps, fin, cold,
                 unwinding, engine, hist>>

(* The daemon dies: the row is what remains.                               *)
Crash ==
  /\ up /\ crashes < MaxCrashes /\ (status # "none" \/ row # None)
  /\ up' = FALSE /\ crashes' = crashes + 1 /\ released' = FALSE
  /\ status' = "none" /\ recSteps' = {} /\ recDirs' = {}
  /\ replay' = None /\ current' = None
  /\ pc' = [t \in Tasks |-> "none"] /\ idx' = [t \in Tasks |-> 1]
  /\ snap' = [t \in Tasks |-> {}] /\ steps' = [t \in Tasks |-> {}]
  /\ fin' = [t \in Tasks |-> "running"]
  /\ cold' = {} /\ killed' = {} /\ unwinding' = {}
  /\ latest' = None /\ flag' = "none" /\ evt' = "none" /\ queue' = {}
  /\ UNCHANGED <<store, ran, settled, sent, tolerant>>

(* recover_persisted: the record is rebuilt, paused, and its task started  *)
(* cold; the directives follow once the engine knows the run.  A run with  *)
(* steps skips the recall; without, the recall may outlast the four        *)
(* seconds of the loop, and the directives are lost.  A load that fails    *)
(* recovers nothing.                                                       *)
Recover(t) ==
  /\ ~up /\ up' = TRUE
  /\ \/ /\ row # None /\ Launch(t, TRUE, Snapshot(row.steps))
        /\ status' = "paused" /\ recSteps' = row.steps /\ recDirs' = {}
        /\ replay' = row.dirs
        /\ leftover' = FALSE /\ UNCHANGED faults
     \/ /\ IF row # None THEN Fault ELSE UNCHANGED faults
        /\ leftover' = (row # None)
        /\ UNCHANGED <<record, replay, current, pc, idx, snap, steps, fin, cold, unwinding>>
  /\ UNCHANGED <<row, killed, engine, hist>>

Replay ==
  /\ up /\ replay # None
  /\ \/ evt # "none" /\ queue' = queue \cup replay /\ recDirs' = replay
     \/ evt = "none" /\ recSteps = {} /\ UNCHANGED <<queue, recDirs>>
  /\ replay' = None /\ UNCHANGED <<status, recSteps>> /\ Persist
  /\ UNCHANGED <<up, current, task, latest, flag, evt, hist>>

(* Nothing is left to do: no task, or only executions parked behind a      *)
(* terminal record, which no request reaches any more.                     *)
Rest ==
  /\ up /\ status \notin Active
  /\ \A t \in Alive : pc[t] \in {"parked", "stranded"}
  /\ UNCHANGED vars

Next ==
  \/ \E t \in Tasks : Start(t) \/ TaskStep(t) \/ Relaunch(t) \/ Recover(t)
  \/ Cancel \/ Pause \/ Resume \/ Stall \/ Crash \/ Replay
  \/ \E d \in Directives : SendDirective(d)
  \/ Rest

Spec == Init /\ [][Next]_vars

----------------------------------------------------------------------------
(* run-recovery.md:59: a recovered run never auto-resumes: no node starts  *)
(* or asks between a recovery and the next resume by a user.               *)
NeverAutoResumes ==
  [][\A t \in Tasks : pc[t] \notin {"run", "ask"} /\ pc'[t] \in {"run", "ask"}
                        => released]_vars

(* A record that says running or paused has a task behind it (#372: no     *)
(* zombie runs), through cancels, trips and overlapping relaunches.        *)
ActiveHasTask == up /\ status \in Active => Alive # {}

(* run-recovery.md:25: terminal rows are deleted: without a task there is  *)
(* no row that the next start would bring back, unless the store failed to *)
(* delete it, or to load it at this start.                                 *)
NoOrphanRow == up /\ row # None => Alive # {} \/ leftover

(* A run completes only when every node without continue_on_error has      *)
(* ended in success, in this session or in the one whose snapshot skipped  *)
(* it; and it is called a success only without a denied step.              *)
SuccessIsComplete ==
  /\ status \in Good => Nodes \ tolerant \subseteq ran
  /\ status = "success" => \A n \in Nodes : <<n, "denied">> \notin recSteps

(* run-recovery.md:20, 66: completed step outputs survive a restart: what  *)
(* a restart loads holds every node that had completed when the run last   *)
(* stood at a pause.                                                       *)
ParkedWorkSurvives ==
  [][~up /\ up' /\ row # None => settled \subseteq Snapshot(row.steps)]_vars
=============================================================================
