------------------------------ MODULE HitlGate ------------------------------
(***************************************************************************)
(* The approval of high-risk nodes.                                        *)
(*   engine/permission_manager.py  rules, and the queue of pending cards;  *)
(*   engine/workflow.py            a node's check, the wait of a denied    *)
(*                                 node, resolve_hitl;                     *)
(*   server/web_api.py             the routes that answer a card: confirm, *)
(*                                 confirm once, webhook, takeover.        *)
(*                                                                         *)
(* A denied check queues a card and the node waits on the event of its run *)
(* (the one a manual pause uses too).  An answer is stored per run, not    *)
(* per card, and sets the event.  The nodes of a run check and wait one at *)
(* a time (hitl_lock); each node of the model checks once.  The permission *)
(* level is not BYPASS, and the guard service is off.                      *)
(***************************************************************************)
EXTENDS Integers, FiniteSets

CONSTANTS
  Runs,         \* execution ids
  Nodes,        \* the high-risk nodes of all runs
  Tools,        \* their tools (node.name)
  RunOf,        \* node |-> its run
  ToolOf,       \* node |-> its tool
  GateTools,    \* HITL_GATE_TOOLS
  Tolerances,   \* the sets of nodes that may have continue_on_error
  HandRules,    \* rules that may be set by hand: pairs <<tool, allowed>>
  MaxApprovals, \* bounds the approvals that reach a run
  None

ASSUME HitlAssumption ==
  /\ IsFiniteSet(Nodes) /\ RunOf \in [Nodes -> Runs] /\ ToolOf \in [Nodes -> Tools]
  /\ GateTools \subseteq Tools /\ Tolerances \subseteq SUBSET Nodes
  /\ HandRules \subseteq Tools \X BOOLEAN /\ None \notin Nodes
  /\ MaxApprovals \in Nat

VARIABLES
  tolerant,  \* nodes with continue_on_error: denied at once, they never wait
  headless,  \* runs with HITL pausing off
  at,        \* node |-> where its permission check is
  seen,      \* node |-> what its rules_snapshot says
  rules,     \* rules: pairs <<tool, allowed>>
  details,   \* _pending_local_details ...
  older,     \* ... in the order of insertion: pairs of an older and a newer card
  listed,    \* _pending_local_approvals
  parked,    \* runs whose event is cleared
  waiting,   \* _hitl_waiting
  decision,  \* _hitl_decisions: run |-> [yes, about], or None
  once,      \* _hitl_once_grants
  cancelled, \* _cancel_flags
  live,      \* runs that have not left execute's finally
  closing,   \* the runs of them that are in it: their nodes are over
  given,     \* history: run |-> approvals stored for it
  granted,   \* history: run |-> once-approvals stored for it
  opened,    \* history: run |-> waits that ended on an approval
  vouched    \* history: nodes that a PERMISSION_REQUEST hook approved

setup == <<tolerant, headless>>
queue == <<details, older, listed>>
event == <<parked, waiting>>
answer == <<decision, once>>
ends   == <<live, closing>>
counts == <<given, granted, opened, vouched>>
vars == <<setup, at, seen, rules, queue, event, answer, cancelled, ends, counts>>

Places   == {"todo", "checking", "notify", "waiting", "woken", "rechecking",
             "passed", "denied", "aborted"}
Held     == {"checking", "notify", "waiting", "woken", "rechecking"}
\* one card of a node's check and one of its re-check
Card     == Nodes \X {"check", "recheck"}
Decision == [yes : BOOLEAN, about : Nodes]

TypeOK ==
  /\ tolerant \in Tolerances /\ headless \subseteq Runs
  /\ at \in [Nodes -> Places]
  /\ seen \in [Nodes -> {"none", "allow", "deny"}]
  /\ rules \subseteq Tools \X BOOLEAN
  /\ details \subseteq Card /\ older \subseteq details \X details /\ listed \subseteq details
  /\ parked \subseteq Runs /\ waiting \subseteq Runs
  /\ decision \in [Runs -> Decision \cup {None}]
  /\ once \subseteq Runs /\ cancelled \subseteq Runs
  /\ live \subseteq Runs /\ closing \subseteq live
  /\ given \in [Runs -> Nat] /\ granted \in [Runs -> Nat]
  /\ opened \in [Runs -> Nat] /\ vouched \subseteq Nodes

NodesOf(r) == {n \in Nodes : RunOf[n] = r}
Holder(r)  == {n \in NodesOf(r) : at[n] \in Held}     \* of the run's hitl_lock
CardOf(r, c) == RunOf[c[1]] = r

Init ==
  /\ tolerant \in Tolerances /\ headless \in SUBSET Runs
  /\ at = [n \in Nodes |-> "todo"] /\ seen = [n \in Nodes |-> "none"]
  /\ rules = {}            \* AddRule reaches what a file may have held
  /\ details = {} /\ older = {} /\ listed = {} /\ parked = {} /\ waiting = {}
  /\ decision = [r \in Runs |-> None] /\ once = {} /\ cancelled = {}
  /\ live = Runs /\ closing = {}
  /\ given = [r \in Runs |-> 0] /\ granted = [r \in Runs |-> 0]
  /\ opened = [r \in Runs |-> 0] /\ vouched = {}

----------------------------------------------------------------------------
(* PermissionManager.check.  The rules are read first; the audit hook is   *)
(* awaited; then the rules just read decide.  Gate tools ignore rules.     *)
mut_Verdict(tool) ==
  CASE <<tool, FALSE>> \in rules -> "deny"
    [] <<tool, FALSE>> \notin rules /\ <<tool, TRUE>> \in rules -> "allow"
    [] OTHER -> "none"

Verdict(tool) ==
  CASE tool \in GateTools -> "none"
    [] tool \notin GateTools /\ <<tool, FALSE>> \in rules -> "deny"
    [] tool \notin GateTools /\ <<tool, FALSE>> \notin rules
         /\ <<tool, TRUE>> \in rules -> "allow"
    [] OTHER -> "none"

Read(n)   == seen' = [seen EXCEPT ![n] = Verdict(ToolOf[n])]
Forget(n) == seen' = [seen EXCEPT ![n] = "none"]

Check(n) ==
  /\ at[n] = "todo" /\ RunOf[n] \in live \ closing /\ Holder(RunOf[n]) = {}
  /\ at' = [at EXCEPT ![n] = "checking"] /\ Read(n)
  /\ UNCHANGED <<setup, rules, queue, event, answer, cancelled, ends, counts>>

(* The check allows the node. *)
Allowed(n) ==
  /\ at[n] \in {"checking", "rechecking"} /\ seen[n] = "allow"
  /\ at' = [at EXCEPT ![n] = "passed"] /\ Forget(n)
  /\ UNCHANGED <<setup, rules, queue, event, answer, cancelled, ends, counts>>

(* A PERMISSION_REQUEST hook approves the node, a gate's too, unless a deny *)
(* rule was read.                                                          *)
Vouched(n) ==
  /\ at[n] \in {"checking", "rechecking"} /\ seen[n] # "deny"
  /\ at' = [at EXCEPT ![n] = "passed"] /\ Forget(n)
  /\ vouched' = vouched \cup {n}
  /\ UNCHANGED <<setup, rules, queue, event, answer, cancelled, ends, given, granted, opened>>

(* Without a verdict the check queues a card (_register_local_pending); a  *)
(* deny rule, or a hook that fails, denies without one.                    *)
Queue(n, kind) ==
  \/ /\ seen[n] = "none"
     /\ details' = details \cup {<<n, kind>>} /\ listed' = listed \cup {<<n, kind>>}
     /\ older' = older \cup (details \X {<<n, kind>>})
  \/ UNCHANGED queue

Waits(n) ==
  /\ n \notin tolerant /\ RunOf[n] \notin headless
  /\ \E c \in details' : CardOf(RunOf[n], c)   \* find_pending_by_execution

(* The check denies: the node waits when any card of its run is queued.    *)
Refused(n) ==
  /\ at[n] = "checking" /\ Queue(n, "check") /\ Forget(n)
  /\ at' = [at EXCEPT ![n] = IF Waits(n) THEN "notify" ELSE "denied"]
  /\ waiting' = IF Waits(n) THEN waiting \cup {RunOf[n]} ELSE waiting
  /\ UNCHANGED <<setup, rules, parked, answer, cancelled, ends, counts>>

RefusedAgain(n) ==
  /\ at[n] = "rechecking" /\ Queue(n, "recheck") /\ Forget(n)
  /\ at' = [at EXCEPT ![n] = "denied"]
  /\ UNCHANGED <<setup, rules, event, answer, cancelled, ends, counts>>

(* _hitl_await: after the notification hooks the event is cleared.         *)
Park(n) ==
  /\ at[n] = "notify"
  /\ parked' = parked \cup {RunOf[n]}
  /\ at' = [at EXCEPT ![n] = "waiting"]
  /\ UNCHANGED <<setup, seen, rules, queue, waiting, answer, cancelled, ends, counts>>

(* Cards leave the details, and the list.                                  *)
Drop(cards) ==
  /\ details' = details \ cards /\ listed' = listed \ cards
  /\ older' = {p \in older : p[1] \notin cards /\ p[2] \notin cards}

Discard(r) == Drop({c \in details : CardOf(r, c)})   \* discard_pending_by_execution

mut_Settled(r) == waiting
Settled(r) == waiting \ {r}

mut_Timeout(n) == FALSE /\ UNCHANGED vars

(* The wait times out; it may lose the race against an answer whose wakeup *)
(* is already scheduled.  The node is denied and its run's cards dropped.  *)
Timeout(n) ==
  /\ at[n] \in {"waiting", "woken"}
  /\ waiting' = Settled(RunOf[n])
  /\ Discard(RunOf[n])
  /\ at' = [at EXCEPT ![n] = "denied"]
  /\ UNCHANGED <<setup, seen, rules, parked, answer, cancelled, ends, counts>>

mut_Taken(r) == decision
Taken(r) == [decision EXCEPT ![r] = None]
Approved(r) == r \notin cancelled /\ decision[r] # None /\ decision[r].yes

(* The waiting node wakes without an approval: a rejection, a cancel or a  *)
(* resume that carries no decision.                                        *)
WakeDenied(n) ==
  LET r == RunOf[n] IN
  /\ at[n] = "woken" /\ ~Approved(r)
  /\ waiting' = Settled(r) /\ decision' = Taken(r)
  /\ at' = [at EXCEPT ![n] = "denied"]
  /\ UNCHANGED <<setup, seen, rules, queue, parked, once, cancelled, ends, counts>>

mut_Spent(r) == once
Spent(r) == once \ {r}

(* A once-grant opens the node; any other approval checks the rules again. *)
WakeApproved(n) ==
  LET r == RunOf[n] IN
  /\ at[n] = "woken" /\ Approved(r)
  /\ waiting' = Settled(r) /\ decision' = Taken(r)
  /\ opened' = [opened EXCEPT ![r] = @ + 1]
  /\ IF r \in once
       THEN /\ once' = Spent(r)
            /\ at' = [at EXCEPT ![n] = "passed"]
            /\ UNCHANGED seen
       ELSE /\ at' = [at EXCEPT ![n] = "rechecking"]
            /\ Read(n)
            /\ UNCHANGED once
  /\ UNCHANGED <<setup, rules, queue, parked, cancelled, ends, given, granted, vouched>>

----------------------------------------------------------------------------
(* Setting the event wakes the node that waits on it.                      *)
Set(r) ==
  /\ parked' = parked \ {r}
  /\ at' = [n \in Nodes |->
              IF at[n] = "waiting" /\ RunOf[n] = r THEN "woken" ELSE at[n]]

(* resolve_hitl: nothing happens for a run that has ended.                 *)
Resolve(r, yes, isOnce, about) ==
  IF r \notin live THEN UNCHANGED <<at, parked, answer, given, granted>>
  ELSE /\ yes => given[r] < MaxApprovals
       /\ decision' = [decision EXCEPT ![r] = [yes |-> yes, about |-> about]]
       /\ once' = IF yes /\ isOnce THEN once \cup {r} ELSE once
       /\ given' = IF yes THEN [given EXCEPT ![r] = @ + 1] ELSE given
       /\ granted' = IF yes /\ isOnce THEN [granted EXCEPT ![r] = @ + 1] ELSE granted
       /\ Set(r)

(* POST /permissions/pending/{id}/confirm with once: no rule is stored.    *)
(* A card that reset() took off the list loses its details, nothing else.  *)
ConfirmOnce(c, yes) ==
  /\ c \in details
  /\ Drop({c})
  /\ IF c \in listed THEN Resolve(RunOf[c[1]], yes, TRUE, c[1])
                     ELSE UNCHANGED <<at, parked, answer, given, granted>>
  /\ UNCHANGED <<setup, seen, rules, waiting, cancelled, ends, opened, vouched>>

(* confirm_guard of a card: a rule for its tool, unless it is a gate tool. *)
Ruled(c, yes) ==
  IF ToolOf[c[1]] \in GateTools THEN rules ELSE rules \cup {<<ToolOf[c[1]], yes>>}

Confirm(c, yes) ==
  /\ c \in listed
  /\ Drop({c}) /\ rules' = Ruled(c, yes)
  /\ Resolve(RunOf[c[1]], yes, FALSE, c[1])
  /\ UNCHANGED <<setup, seen, waiting, cancelled, ends, opened, vouched>>

(* The confirm of a takeover socket and of the desk RPC wakes no run.      *)
ConfirmElsewhere(c, yes) ==
  /\ c \in listed
  /\ Drop({c}) /\ rules' = Ruled(c, yes)
  /\ UNCHANGED <<setup, at, seen, event, answer, cancelled, ends, counts>>

(* POST /hooks/{run}: answers the oldest card of the run, once.            *)
Webhook(c, yes) ==
  /\ c \in details /\ \A d \in details : CardOf(RunOf[c[1]], d) => <<d, c>> \notin older
  /\ Drop({c})
  /\ IF c \in listed THEN Resolve(RunOf[c[1]], yes, TRUE, c[1])
                     ELSE UNCHANGED <<at, parked, answer, given, granted>>
  /\ UNCHANGED <<setup, seen, rules, waiting, cancelled, ends, opened, vouched>>

(* Rules set by hand; reset also empties the list, but not the details.    *)
AddRule(p) ==
  /\ rules' = rules \cup {p}
  /\ UNCHANGED <<setup, at, seen, queue, event, answer, cancelled, ends, counts>>

ResetRules(tools) ==
  /\ rules' = {p \in rules : p[1] \notin tools} /\ listed' = {}
  /\ UNCHANGED <<setup, at, seen, details, older, event, answer, cancelled, ends, counts>>

Pause(r) ==
  /\ r \in live /\ parked' = parked \cup {r}
  /\ UNCHANGED <<setup, at, seen, rules, queue, waiting, answer, cancelled, ends, counts>>

Resume(r) ==
  /\ r \in live \cap parked /\ Set(r)
  /\ UNCHANGED <<setup, seen, rules, queue, waiting, answer, cancelled, ends, counts>>

Cancel(r) ==
  /\ r \in live /\ cancelled' = cancelled \cup {r} /\ Set(r)
  /\ UNCHANGED <<setup, seen, rules, queue, waiting, answer, ends, counts>>

(* The run is over, by itself or by the cancellation of its task, which    *)
(* may come in any step of a node.  execute's finally awaits the end hooks.*)
Close(r) ==
  /\ r \in live \ closing /\ closing' = closing \cup {r}
  /\ at' = [n \in Nodes |-> IF RunOf[n] = r /\ at[n] \in Held \cup {"todo"}
                              THEN "aborted" ELSE at[n]]
  /\ seen' = [n \in Nodes |-> IF RunOf[n] = r THEN "none" ELSE seen[n]]
  /\ UNCHANGED <<setup, rules, queue, event, answer, cancelled, live, counts>>

(* ... and then clears up; a cancellation in those hooks skips it.  Stored *)
(* decisions and grants stay behind; cards are dropped only if the run is  *)
(* marked as waiting.                                                      *)
End(r) ==
  /\ r \in closing
  /\ live' = live \ {r} /\ closing' = closing \ {r}
  /\ cancelled' = cancelled \ {r} /\ parked' = parked \ {r} /\ waiting' = waiting \ {r}
  /\ IF r \in waiting THEN Discard(r) ELSE UNCHANGED queue
  /\ UNCHANGED <<setup, at, seen, rules, answer, counts>>

----------------------------------------------------------------------------
NodeStep(n) ==
  \/ Check(n) \/ Allowed(n) \/ Vouched(n) \/ Refused(n) \/ RefusedAgain(n) \/ Park(n)
  \/ Timeout(n) \/ WakeDenied(n) \/ WakeApproved(n)

Answers ==
  \E yes \in BOOLEAN, c \in Card :
    ConfirmOnce(c, yes) \/ Confirm(c, yes) \/ ConfirmElsewhere(c, yes) \/ Webhook(c, yes)

Controls ==
  \/ \E p \in HandRules : AddRule(p)
  \/ \E tool \in Tools : ResetRules({tool})
  \/ ResetRules(Tools)
  \/ \E r \in Runs : Pause(r) \/ Resume(r) \/ Cancel(r) \/ Close(r) \/ End(r)

Next == (\E n \in Nodes : NodeStep(n)) \/ Answers \/ Controls

(* The loop runs what is ready, and a wait ends by hitl_timeout.           *)
Fairness == \A n \in Nodes : WF_vars(NodeStep(n))

Spec == Init /\ [][Next]_vars /\ Fairness

----------------------------------------------------------------------------
(* An approval opens one wait: a run's waits that ended on an approval are *)
(* no more than the approvals it was given (resolve_hitl, _hitl_await).    *)
SpentOnce == \A r \in Runs : opened[r] <= given[r]

(* README (#340): a gate decision is for one evaluation, and no rule, however *)
(* it got there, opens a gate (HITL_GATE_TOOLS in check): the gate-tool nodes of *)
(* a run that passed, other than by a hook's approval, are no more than its *)
(* once-approvals.                                                         *)
GatesPassed(r) ==
  {n \in NodesOf(r) \ vouched : ToolOf[n] \in GateTools /\ at[n] = "passed"}
OnceForGates == \A r \in Runs : Cardinality(GatesPassed(r)) <= granted[r]

(* hitl_pending, by which the watchdog spares a run and the UI shows its   *)
(* countdown, is set while a node of the run waits; it outlives the wait   *)
(* only in the end hooks of a run whose task was cancelled.                *)
Asking(r) == \E n \in NodesOf(r) : at[n] \in {"notify", "waiting", "woken"}

PendingIsTrue ==
  \A r \in Runs : /\ Asking(r) => r \in waiting
                 /\ r \in waiting => Asking(r) \/ r \in closing

(* config-reference.md:52: a check ends, whatever happens to its card: the *)
(* lock that the checks of a run take in turn (hitl_lock) is always free   *)
(* again.                                                                  *)
ChecksEnd == \A r \in Runs : []<>(Holder(r) = {})

(* api-reference.md:43: a confirmed card wakes the paused run: no node is  *)
(* left waiting for the approval its run has stored.                       *)
ApprovalWakes ==
  \A n \in Nodes : at[n] = "waiting" =>
    decision[RunOf[n]] # [yes |-> TRUE, about |-> n]
=============================================================================
