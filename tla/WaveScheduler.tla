---------------------------- MODULE WaveScheduler ----------------------------
(***************************************************************************)
(* engine/workflow.py: WorkflowEngine.execute and _run_node, one run.      *)
(*                                                                         *)
(* The main loop stands at a boundary: it honours cancel and pause,        *)
(* applies the queued directives, and takes the next wave, the first       *)
(* Concurrency nodes of the rest of the order whose predecessors are done. *)
(* The nodes of a wave run as coroutines; the permission checks and the    *)
(* approvals of one run take turns (hitl_lock).  When all of the wave have *)
(* ended, their control results are merged: cancel beats fail, and a fail  *)
(* becomes a rewind when a rejected gate registered a revision.            *)
(*                                                                         *)
(* The one asyncio.Event of a run serves both the manual pause and the     *)
(* approval wait: parked is TRUE while it is cleared.                      *)
(***************************************************************************)
EXTENDS Integers, Sequences, FiniteSets, SequencesExt

CONSTANTS
  Nodes,          \* the nodes of the submitted workflow
  Extra,          \* ids for nodes insert_node may add; bounds the insertions
  Edges,          \* its edges, pairs <<source, target>>
  Orders,         \* topological orders of Nodes the node table may give
  Concurrencies,  \* values the run's concurrency may have
  Snapshots,      \* sets of nodes a resumed run may find completed
  Gates,          \* nodes the permission check may deny
  Tolerant,       \* nodes with continue_on_error
  RetryBusiness,  \* nodes with retry_on_business_failure
  ReviseTo,       \* gate with on_reject = revise |-> the node it sends back
  MaxRevisions,   \* max_revisions
  MaxRetries,     \* max_retries
  MaxDirectives,  \* bounds the directives of a run
  Anchors,        \* nodes a directive may name; bounds them as well
  None

All == Nodes \cup Extra

ASSUME WorkflowAssumption ==
  /\ Nodes \cap Extra = {} /\ None \notin All
  /\ Edges \subseteq Nodes \X Nodes
  /\ Gates \subseteq Nodes /\ Tolerant \subseteq All /\ RetryBusiness \subseteq All
  /\ Anchors \subseteq Nodes /\ \A s \in Snapshots : s \subseteq Nodes
  /\ DOMAIN ReviseTo \subseteq Gates /\ \A g \in DOMAIN ReviseTo : ReviseTo[g] \in Nodes
ASSUME BoundsAssumption ==
  /\ MaxRevisions \in Nat \ {0} /\ MaxRetries \in Nat /\ MaxDirectives \in Nat
  /\ Concurrencies \subseteq Nat \ {0}
ASSUME OrderAssumption ==
  \A o \in Orders :
    /\ o \in Seq(Nodes) /\ ToSet(o) = Nodes
    /\ \A i, j \in DOMAIN o : o[i] = o[j] => i = j
    /\ \A i, j \in DOMAIN o : <<o[i], o[j]>> \in Edges => i < j

VARIABLES
  phase,      \* "boundary", "waiting" on the event, "woken", "wave" or "ended"
  outcome,    \* execution.status
  conc,       \* effective_concurrency
  completed,  \* completed_ids
  order, idx, \* order and order_idx (from 1)
  done,       \* done
  edges,      \* workflow.edges
  extra,      \* the inserted nodes
  stage,      \* node |-> what its _run_node is doing, "idle" outside the wave
  attempt,    \* node |-> retries used by its _run_node
  passed,     \* DOMAIN of passed_data
  results,    \* DOMAIN of node_results
  pending,    \* _pending_revisions: <<target, gate>>, or None
  revisions,  \* _revision_counts
  directives, \* _directives
  sent,       \* history: directives accepted so far
  cancelled,  \* _cancel_flags
  parked,     \* the event of _pause_events is cleared
  anyDenied,  \* some step has status DENIED
  lastEnd,    \* history: node |-> how its last _run_node ended
  forgiven,   \* history: nodes whose "fail" a revision swallowed
  owed,       \* history: revision targets that have not had their turn yet
  leapt,      \* history: nodes a rewind left behind the cursor, not done
  held        \* history: the user's last pause has not been resumed

run   == <<conc, completed, edges, extra, order, idx, done>>
data  == <<passed, results>>
rev   == <<pending, revisions>>
hist  == <<lastEnd, forgiven, owed, leapt>>
vars  == <<phase, outcome, run, stage, attempt, data, rev, directives, sent,
           cancelled, parked, anyDenied, hist, held>>

Stages   == {"idle", "start", "asking", "run", "continue", "fail", "cancel"}
Ended    == {"continue", "fail", "cancel"}
Outcomes == {"running", "success", "completed_with_denials", "failed", "cancelled"}
Ends     == {"none", "ok", "failed", "denied", "restored", "blocked"}
Directive == [kind : {"insert", "inject"}, at : Anchors \cup {None}]
               \cup [kind : {"skip"}, at : {None}]

TypeOK ==
  /\ phase \in {"boundary", "waiting", "woken", "wave", "ended"}
  /\ outcome \in Outcomes
  /\ conc \in Concurrencies /\ completed \in Snapshots
  /\ order \in Seq(All) /\ idx \in 1..(Len(order) + 1)
  /\ done \subseteq All /\ extra \subseteq Extra
  /\ edges \subseteq All \X All
  /\ stage \in [All -> Stages] /\ attempt \in [All -> 0..MaxRetries]
  /\ passed \subseteq All /\ results \subseteq All
  /\ pending \in (Nodes \X Gates) \cup {None}
  /\ revisions \in [Nodes -> 0..MaxRevisions]
  /\ directives \in Seq(Directive) /\ sent \in 0..MaxDirectives
  /\ cancelled \in BOOLEAN /\ parked \in BOOLEAN /\ anyDenied \in BOOLEAN
  /\ held \in BOOLEAN
  /\ lastEnd \in [All -> Ends]
  /\ forgiven \subseteq All /\ owed \subseteq Nodes /\ leapt \subseteq All

----------------------------------------------------------------------------
Preds(n)   == {e[1] : e \in {f \in edges : f[2] = n}}
Targets(n) == {e[2] : e \in {f \in edges : f[1] = n}}
Pos(o, n)  == CHOOSE i \in DOMAIN o : o[i] = n
Wave       == {n \in All : stage[n] # "idle"}
Asking     == {n \in All : stage[n] = "asking"}
Most(a, b)  == IF a < b THEN b ELSE a

mut_Advance(o, i) == i

\* the cursor moves to the first node of o that is not done
Advance(o, i) ==
  CHOOSE j \in i..(Len(o) + 1) :
    /\ j = Len(o) + 1 \/ o[j] \notin done
    /\ \A k \in i..(j - 1) : o[k] \in done

(* execute() up to the loop, for a run that passes validation and whose    *)
(* start hook does not cancel it: start_paused runs begin with the event   *)
(* cleared, resume_steps fill the caches.                                  *)
Init ==
  /\ phase = "boundary" /\ outcome = "running"
  /\ conc \in Concurrencies /\ completed \in Snapshots
  /\ order \in Orders /\ idx = 1 /\ done = {} /\ edges = Edges /\ extra = {}
  /\ stage = [n \in All |-> "idle"] /\ attempt = [n \in All |-> 0]
  /\ passed = completed /\ results = completed
  /\ pending = None /\ revisions = [n \in Nodes |-> 0]
  /\ directives = <<>> /\ sent = 0
  /\ cancelled = FALSE /\ anyDenied = FALSE
  /\ parked \in BOOLEAN /\ held = parked
  /\ lastEnd = [n \in All |-> "none"] /\ forgiven = {}
  /\ owed = {} /\ leapt = {}

----------------------------------------------------------------------------
(* _apply_directives: each changes the order, the edges or the inputs.     *)
(* set_params changes node parameters only and is left out.                *)
\* Mutant: the node goes next to its predecessor, even behind the cursor.
mut_Insert(s, at) ==
  LET new == CHOOSE y \in Extra \ s.extra : TRUE
      pos == IF at \in ToSet(s.order) THEN Pos(s.order, at) + 1 ELSE s.cursor IN
  IF Extra \subseteq s.extra THEN s
  ELSE [s EXCEPT !.order = InsertAt(s.order, pos, new),
                 !.extra = @ \cup {new},
                 !.edges = IF at = None THEN @ ELSE @ \cup {<<at, new>>}]

Insert(s, at) ==
  LET new == CHOOSE y \in Extra \ s.extra : TRUE
      pos == IF at \in ToSet(s.order) THEN Most(s.cursor, Pos(s.order, at) + 1)
                                      ELSE s.cursor IN
  IF Extra \subseteq s.extra THEN s
  ELSE [s EXCEPT !.order = InsertAt(s.order, pos, new),
                 !.extra = @ \cup {new},
                 !.edges = IF at = None THEN @ ELSE @ \cup {<<at, new>>}]

Inject(s, at) ==
  LET n == IF at # None THEN at
           ELSE IF s.cursor <= Len(s.order) THEN s.order[s.cursor] ELSE None IN
  IF n = None \/ n \in results THEN s ELSE [s EXCEPT !.passed = @ \cup {n}]

Apply(s, d) ==
  CASE d.kind = "insert" -> Insert(s, d.at)
    [] d.kind = "inject" -> Inject(s, d.at)
    [] d.kind = "skip"   -> [s EXCEPT !.order = SubSeq(@, 1, s.cursor - 1)]

Standing == [order |-> order, cursor |-> Advance(order, idx), passed |-> passed,
             edges |-> edges, extra |-> extra]

\* after the first k of the queued directives
After[k \in 0..Len(directives)] ==
  IF k = 0 THEN Standing ELSE Apply(After[k - 1], directives[k])

Directed == After[Len(directives)]

(* The wave: the first conc nodes of the rest of the order that are ready, *)
(* whether or not they are done; the first of the rest when none is ready. *)
Ready(o, i, es) ==
  {k \in i..Len(o) : \A e \in es : e[2] = o[k] => e[1] \in done}

NextWave(o, i, es) ==
  LET ready == Ready(o, i, es) IN
  IF ready = {} THEN {o[i]}
  ELSE {o[k] : k \in {j \in ready : Cardinality({l \in ready : l < j}) < conc}}

Finish(status) ==
  /\ phase' = "ended" /\ outcome' = status
  /\ UNCHANGED <<stage, attempt>>

(* The boundary, from the directives on. *)
mut_Completion == "success"
Completion == IF anyDenied THEN "completed_with_denials" ELSE "success"

Proceed ==
  LET s == Directed
      i == Advance(s.order, s.cursor) IN
  /\ order' = s.order /\ idx' = i /\ passed' = s.passed
  /\ edges' = s.edges /\ extra' = s.extra /\ directives' = <<>>
  /\ \/ /\ i > Len(s.order)
        /\ Finish(Completion)
     \/ /\ i <= Len(s.order)              \* the budget is spent
        /\ Finish("failed")
     \/ /\ i <= Len(s.order)
        /\ phase' = "wave"
        /\ stage' = [n \in All |->
             IF n \in NextWave(s.order, i, s.edges) THEN "start" ELSE "idle"]
        /\ UNCHANGED <<outcome, attempt>>
  /\ UNCHANGED <<conc, completed, done, results, rev, sent, cancelled, parked,
                 anyDenied, hist, held>>

Boundary ==
  \/ /\ phase = "boundary" /\ cancelled
     /\ Finish("cancelled")
     /\ UNCHANGED <<run, data, rev, directives, sent, cancelled, parked,
                    anyDenied, hist, held>>
  \/ /\ phase = "boundary" /\ ~cancelled /\ parked
     /\ phase' = "waiting"
     /\ UNCHANGED <<outcome, run, stage, attempt, data, rev, directives, sent,
                    cancelled, parked, anyDenied, hist, held>>
  \/ phase = "boundary" /\ ~cancelled /\ ~parked /\ Proceed

(* A set of the event wakes the wait for good, even if it is cleared again *)
(* before the coroutine runs.                                              *)
Woken ==
  /\ phase = "woken"
  /\ \/ /\ cancelled
        /\ Finish("cancelled")
        /\ UNCHANGED <<run, data, rev, directives, sent, cancelled, parked,
                       anyDenied, hist, held>>
     \/ ~cancelled /\ Proceed

----------------------------------------------------------------------------
(* _run_node.  Control is what it returns; how is the step it leaves.      *)
Return(n, control, how) ==
  /\ stage' = [stage EXCEPT ![n] = control]
  /\ lastEnd' = [lastEnd EXCEPT ![n] = how]

Unless(n, control) == IF n \in Tolerant THEN "continue" ELSE control

NodeFrame == <<phase, outcome, run, directives, sent, cancelled, held, forgiven,
               leapt>>

(* A completed node of the snapshot is skipped. *)
Skip(n) ==
  /\ stage[n] = "start" /\ n \in completed
  /\ Return(n, "continue", "restored")
  /\ UNCHANGED <<NodeFrame, attempt, data, rev, parked, anyDenied, owed>>

(* The check lets the node pass: a gate by a rule, any other node always.  *)
(* It waits for the lock, which a node keeps while it asks.                *)
Enter(n) ==
  /\ stage[n] = "start" /\ n \notin completed /\ Asking = {}
  /\ stage' = [stage EXCEPT ![n] = "run"]
  /\ owed' = owed \ {n}
  /\ UNCHANGED <<NodeFrame, attempt, data, rev, parked, anyDenied, lastEnd>>

(* The node's references do not resolve, or (behind the check, so with the *)
(* lock free) a pre-execution hook stops it.                               *)
Blocked(n) ==
  /\ stage[n] = "start" /\ n \notin completed
  /\ \/ Return(n, "fail", "failed")
     \/ Asking = {} /\ Return(n, Unless(n, "cancel"), "blocked")
  /\ owed' = owed \ {n}
  /\ UNCHANGED <<NodeFrame, attempt, data, rev, parked, anyDenied>>

mut_Denied(n) ==
  /\ Return(n, Unless(n, "fail"), "denied")
  /\ passed' = passed \ ({n} \cup Preds(n))
  /\ anyDenied' = TRUE

(* A denial removes the outputs of the node and of its direct successors.  *)
Denied(n) ==
  /\ Return(n, Unless(n, "fail"), "denied")
  /\ passed' = passed \ ({n} \cup Targets(n))
  /\ anyDenied' = TRUE

DenyFast(n) ==
  /\ stage[n] = "start" /\ n \in Gates \ completed /\ Asking = {}
  /\ Denied(n)
  /\ owed' = owed \ {n}
  /\ UNCHANGED <<NodeFrame, attempt, results, rev, parked>>

(* _hitl_await: the event is cleared and the node waits, holding the lock. *)
Ask(n) ==
  /\ stage[n] = "start" /\ n \in Gates \ (completed \cup Tolerant) /\ Asking = {}
  /\ stage' = [stage EXCEPT ![n] = "asking"]
  /\ parked' = TRUE
  /\ owed' = owed \ {n}
  /\ UNCHANGED <<NodeFrame, attempt, data, rev, anyDenied, lastEnd>>

(* A decision or a resume sets the event, which also undoes a manual       *)
(* pause; held keeps what the user meant.                                  *)
Approve(n) ==
  /\ stage[n] = "asking" /\ ~cancelled
  /\ parked' = FALSE
  /\ \/ /\ stage' = [stage EXCEPT ![n] = "run"]
        /\ UNCHANGED <<data, anyDenied, lastEnd>>
     \/ Denied(n) /\ UNCHANGED results              \* the re-check denies
  /\ UNCHANGED <<NodeFrame, attempt, rev, owed>>

(* _register_revision: one slot for the run, a cap for each target. *)
CanRevise(n) == n \in DOMAIN ReviseTo /\ revisions[ReviseTo[n]] < MaxRevisions

Reject(n) ==
  /\ stage[n] = "asking" /\ ~cancelled
  /\ parked' = FALSE
  /\ Denied(n)
  /\ IF CanRevise(n)
       THEN /\ pending' = <<ReviseTo[n], n>>
            /\ revisions' = [revisions EXCEPT ![ReviseTo[n]] = @ + 1]
       ELSE UNCHANGED rev
  /\ UNCHANGED <<NodeFrame, attempt, results, owed>>

mut_AskTimeout(n) == FALSE /\ UNCHANGED vars

(* The wait times out and leaves the event cleared. *)
AskTimeout(n) ==
  /\ stage[n] = "asking"
  /\ Denied(n)
  /\ UNCHANGED <<NodeFrame, attempt, results, rev, parked, owed>>

(* A cancel wakes the wait: the node counts as denied. *)
AskCancelled(n) ==
  /\ stage[n] = "asking" /\ cancelled
  /\ Denied(n)
  /\ UNCHANGED <<NodeFrame, attempt, results, rev, parked, owed>>

(* One attempt of the executor. *)
Succeed(n) ==
  /\ stage[n] = "run"
  /\ Return(n, "continue", "ok")
  /\ passed' = passed \cup {n} /\ results' = results \cup {n}
  /\ UNCHANGED <<NodeFrame, attempt, rev, parked, anyDenied, owed>>

(* It raises or times out (always retried), or returns FAILED (retried on  *)
(* opt-in).                                                                *)
Retry(n) ==
  /\ stage[n] = "run" /\ attempt[n] < MaxRetries
  /\ attempt' = [attempt EXCEPT ![n] = @ + 1]
  /\ UNCHANGED <<NodeFrame, stage, data, rev, parked, anyDenied, lastEnd, owed>>

(* The last attempt failed, a FAILED result is not retried, or the result  *)
(* does not fit its schema: a failed result is cached like any other.  An  *)
(* exception outside the attempts (a hook's) leaves no result.             *)
Fail(n) ==
  /\ stage[n] = "run"
  /\ attempt[n] < MaxRetries => n \notin RetryBusiness
  /\ Return(n, Unless(n, "fail"), "failed")
  /\ \/ passed' = passed \cup {n} /\ results' = results \cup {n}
     \/ UNCHANGED data
  /\ UNCHANGED <<NodeFrame, attempt, rev, parked, anyDenied, owed>>

NodeStep(n) ==
  \/ Skip(n) \/ Enter(n) \/ Blocked(n) \/ DenyFast(n) \/ Ask(n)
  \/ AskTimeout(n) \/ AskCancelled(n)
  \/ Succeed(n) \/ Retry(n) \/ Fail(n)

Answer(n) == Approve(n) \/ Reject(n)

----------------------------------------------------------------------------
(* The wave has ended: merge the control results. *)
Has(control) == \E n \in Wave : stage[n] = control

mut_Rewound(target, gate) == (done \cup Wave) \ {gate}
Rewound(target, gate) == (done \cup Wave) \ {target, gate}

Revise(target, gate) ==
  LET at == IF target \in ToSet(order) THEN Pos(order, target) ELSE idx IN
  /\ phase' = "boundary"
  /\ done' = Rewound(target, gate)
  /\ passed' = passed \ {target, gate}
  /\ results' = results \ {target, gate}
  /\ idx' = at
  /\ pending' = None
  /\ forgiven' = forgiven \cup {n \in Wave : stage[n] = "fail"}
  /\ owed' = owed \cup {target}
  /\ leapt' = leapt \cup ({order[k] : k \in 1..(at - 1)} \ done')
  /\ UNCHANGED outcome

WaveDone ==
  /\ phase = "wave"
  /\ \A n \in Wave : stage[n] \in Ended
  /\ \/ /\ Has("cancel")
        /\ phase' = "ended" /\ outcome' = "cancelled"
        /\ done' = done \cup Wave
        /\ UNCHANGED <<idx, data, pending, forgiven, owed, leapt>>
     \/ /\ ~Has("cancel") /\ Has("fail") /\ pending # None
        /\ Revise(pending[1], pending[2])
     \/ /\ ~Has("cancel") /\ Has("fail") /\ pending = None
        /\ phase' = "ended" /\ outcome' = "failed"
        /\ done' = done \cup Wave
        /\ UNCHANGED <<idx, data, pending, forgiven, owed, leapt>>
     \/ /\ ~Has("cancel") /\ ~Has("fail")
        /\ phase' = "boundary"
        /\ done' = done \cup Wave
        /\ UNCHANGED <<outcome, idx, data, pending, forgiven, owed, leapt>>
  /\ stage' = [n \in All |-> "idle"] /\ attempt' = [n \in All |-> 0]
  /\ UNCHANGED <<conc, completed, edges, extra, order, revisions, directives,
                 sent, cancelled, parked, anyDenied, lastEnd, held>>

----------------------------------------------------------------------------
(* Calls from outside: cancel, pause, resume, add_directive. *)
Wake == phase' = IF phase = "waiting" THEN "woken" ELSE phase

Cancel ==
  /\ phase # "ended" /\ ~cancelled
  /\ cancelled' = TRUE /\ parked' = FALSE /\ Wake
  /\ UNCHANGED <<outcome, run, stage, attempt, data, rev, directives, sent,
                 anyDenied, hist, held>>

Pause ==
  /\ phase # "ended"
  /\ parked' = TRUE /\ held' = TRUE
  /\ UNCHANGED <<phase, outcome, run, stage, attempt, data, rev, directives,
                 sent, cancelled, anyDenied, hist>>

(* resume() of a run that waits for an approval wakes the gate without a   *)
(* decision, which counts as a rejection.                                  *)
Resume ==
  /\ phase # "ended" /\ parked
  /\ held' = FALSE
  /\ IF Asking = {} \/ cancelled
       THEN /\ parked' = FALSE /\ Wake
            /\ UNCHANGED <<outcome, run, stage, attempt, data, rev, directives,
                           sent, cancelled, anyDenied, hist>>
       ELSE \E n \in Asking :
              /\ parked' = FALSE /\ Denied(n)
              /\ IF CanRevise(n)
                   THEN /\ pending' = <<ReviseTo[n], n>>
                        /\ revisions' = [revisions EXCEPT ![ReviseTo[n]] = @ + 1]
                   ELSE UNCHANGED rev
              /\ UNCHANGED <<phase, outcome, run, attempt, results, directives,
                             sent, cancelled, forgiven, owed, leapt>>

AddDirective(d) ==
  /\ phase # "ended" /\ sent < MaxDirectives
  /\ directives' = Append(directives, d) /\ sent' = sent + 1
  /\ UNCHANGED <<phase, outcome, run, stage, attempt, data, rev, cancelled,
                 parked, anyDenied, hist, held>>

Engine == Boundary \/ Woken \/ WaveDone

Next ==
  \/ Engine
  \/ \E n \in All : NodeStep(n) \/ Answer(n)
  \/ Cancel \/ Pause \/ Resume
  \/ \E d \in Directive : AddDirective(d)
  \/ phase = "ended" /\ UNCHANGED vars

(* The event loop runs what is ready; an attempt ends by its timeout (the  *)
(* engine gives every node one) and an approval wait by hitl_timeout.      *)
(* Nobody has to answer, pause or resume.                                  *)
Fairness == WF_vars(Engine) /\ \A n \in All : WF_vars(NodeStep(n))

Spec == Init /\ [][Next]_vars /\ Fairness

----------------------------------------------------------------------------
Complete == outcome \in {"success", "completed_with_denials"}

(* A run that completes has run every node of its order, inserted ones too, *)
(* except nodes that a rewind jumped over: the cursor goes to the revision's *)
(* target even if a node before it has not run yet.                         *)
CompletionIsWhole == Complete => ToSet(order) \subseteq done \cup leapt

(* A run keeps the promise of RunPromise: its nodes end while it runs, and   *)
(* it ends once, with nothing left to do if it completes, with no denial    *)
(* behind a success and no failure that is neither tolerated nor excused    *)
(* by a revision.                                                           *)
Promise == INSTANCE RunPromise WITH
             verdict <- lastEnd, denied <- anyDenied, excused <- forgiven,
             due <- ToSet(order) \ (done \cup leapt)
KeepsPromise == Promise!Spec

(* When a gate asks again after it sent a direct predecessor back, that    *)
(* node has had its turn since the rejection.  A node restored from a      *)
(* snapshot is skipped on its turn; another gate's rewind may jump over it.*)
GateSeesRework ==
  [][\A n \in DOMAIN ReviseTo :
       (stage[n] = "start" /\ stage'[n] = "asking" /\ ReviseTo[n] \in Preds(n))
         => ReviseTo[n] \in completed \cup leapt \/ ReviseTo[n] \notin owed]_vars

(* With concurrency 1 a node that is done enters a wave again only if it   *)
(* was sent back, or if the node at the cursor can never be ready: it      *)
(* waits for one that was skipped or that a rewind jumped over.            *)
SerialRunsOnce ==
  [][\A n \in done : conc = 1 /\ stage[n] = "idle" /\ stage'[n] # "idle"
       => \E p \in (leapt \cup (All \ ToSet(order'))) \ done :
            <<p, order'[idx']>> \in edges']_vars

(* The output of a node that is done stays available to its successors,    *)
(* unless it or one of its predecessors is denied.                            *)
OutputsKept ==
  [][\A n \in passed \ passed' :
       (n \in done' /\ lastEnd[n] \in {"ok", "restored"})
         => \E p \in Preds(n) \cup {n} : lastEnd'[p] = "denied"]_vars

(* Only a user's pause (or start_paused) stops the run at the checkpoint. *)
WaitsOnlyIfHeld == phase = "waiting" => held

(* A run ends, or waits for ever at the pause checkpoint, uncancelled. *)
EndsOrWaits == <>(phase = "ended") \/ <>[](phase = "waiting" /\ ~cancelled)
=============================================================================
