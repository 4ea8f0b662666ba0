---------------------------- MODULE HitlGateProofs ----------------------------
(***************************************************************************)
(* Proofs about HitlGate, for all runs, nodes, tools and rules.            *)
(*                                                                         *)
(* The inductive invariant:                                                *)
(*   TypeOK;                                                               *)
(*   Spends   an approval that is stored and not yet consumed is one that  *)
(*            no wait has ended on;                                        *)
(*   Unlocks  a once-grant not yet consumed has let no gate node pass (nor *)
(*            has a hook that approved one);                               *)
(*   Unruled  no node of a gate tool has read an allow rule;               *)
(*   Alone    one node of a run at a time is in its check (hitl_lock);     *)
(*   Ended    a run in its closing hooks has no node in a check;           *)
(*   PendingIsTrue, which needs Alone: the mark is kept for a run, the     *)
(*            wait is a node's.                                            *)
(***************************************************************************)
EXTENDS HitlGate, FiniteSetTheorems, TLAPS

Yes(r) == decision[r] # None /\ decision[r].yes

Spends == \A r \in Runs :
  /\ opened[r] <= given[r]
  /\ Yes(r) => opened[r] < given[r]

Unlocks == \A r \in Runs :
  /\ Cardinality(GatesPassed(r)) <= granted[r]
  /\ r \in once => Cardinality(GatesPassed(r)) < granted[r]

Unruled == \A n \in Nodes : ToolOf[n] \in GateTools => seen[n] # "allow"

Alone == \A m, n \in Nodes :
  RunOf[m] = RunOf[n] /\ at[m] \in Held /\ at[n] \in Held => m = n

Ended == \A n \in Nodes : RunOf[n] \in closing => at[n] \notin Held

IInv == TypeOK /\ Spends /\ Unlocks /\ Unruled /\ Alone /\ Ended /\ PendingIsTrue

----------------------------------------------------------------------------
LEMMA InitInv == Init => IInv
<1> SUFFICES ASSUME Init PROVE IInv
  OBVIOUS
<1> USE HitlAssumption DEF Init
<1>1. TypeOK
  BY DEF TypeOK, Places
<1>2. Spends /\ Unlocks
  <2>1. \A r \in Runs : GatesPassed(r) = {}
    BY DEF GatesPassed, NodesOf
  <2>2. Cardinality({}) = 0
    BY FS_EmptySet
  <2>3. \A r \in Runs : Cardinality(GatesPassed(r)) = 0
    BY <2>1, <2>2
  <2>4. QED
    BY <2>3 DEF Spends, Unlocks, Yes
<1>3. Unruled /\ Alone /\ Ended
  BY DEF Unruled, Alone, Ended, Held
<1>4. PendingIsTrue
  BY DEF PendingIsTrue, Asking, NodesOf
<1>5. QED
  BY <1>1, <1>2, <1>3, <1>4 DEF IInv

(* The gate nodes of a run that passed are finitely many. *)
LEMMA PassedCount ==
  \A r : IsFiniteSet(GatesPassed(r)) /\ Cardinality(GatesPassed(r)) \in Nat
<1> SUFFICES ASSUME NEW r PROVE IsFiniteSet(GatesPassed(r)) /\ Cardinality(GatesPassed(r)) \in Nat
  OBVIOUS
<1>1. GatesPassed(r) \subseteq Nodes
  BY DEF GatesPassed, NodesOf
<1>2. QED
  BY <1>1, HitlAssumption, FS_Subset, FS_CardinalityType

(* No gate node passes but by a hook, and a grant is a once-approval counted. *)
LEMMA UnlocksKept ==
  ASSUME TypeOK, TypeOK', Unlocks,
         vouched \subseteq vouched',
         \A n \in Nodes \ vouched' :
           ToolOf[n] \in GateTools /\ at'[n] = "passed" => at[n] = "passed",
         \A r \in Runs : /\ granted'[r] >= granted[r]
                         /\ r \in once' => r \in once \/ granted'[r] > granted[r]
  PROVE  Unlocks'
<1> SUFFICES ASSUME NEW r \in Runs
             PROVE  /\ Cardinality(GatesPassed(r)') <= granted'[r]
                    /\ r \in once' => Cardinality(GatesPassed(r)') < granted'[r]
  BY DEF Unlocks
<1>1. GatesPassed(r)' \subseteq GatesPassed(r)
  BY DEF GatesPassed, NodesOf
<1>2. /\ Cardinality(GatesPassed(r)') <= Cardinality(GatesPassed(r))
      /\ Cardinality(GatesPassed(r)') \in Nat /\ Cardinality(GatesPassed(r)) \in Nat
  BY <1>1, PassedCount, FS_Subset, FS_CardinalityType
<1>3. granted[r] \in Nat /\ granted'[r] \in Nat
  BY DEF TypeOK
<1>4. QED
  BY <1>2, <1>3 DEF Unlocks

(* Cards that leave leave the type of the queue as it is. *)
LEMMA DropTypes ==
  ASSUME TypeOK, NEW cards, Drop(cards)
  PROVE  details' \subseteq Card /\ older' \subseteq details' \X details' /\ listed' \subseteq details'
BY DEF TypeOK, Drop

(* An answer that is stored, the effect of every route that answers a card.*)
LEMMA ResolveInv ==
  ASSUME IInv, NEW r \in Runs, NEW yes \in BOOLEAN, NEW isOnce \in BOOLEAN, NEW about \in Nodes,
         \/ Resolve(r, yes, isOnce, about)
         \/ UNCHANGED <<at, parked, answer, given, granted>>,
         UNCHANGED <<setup, seen, waiting, cancelled, ends, opened, vouched>>,
         rules' \subseteq Tools \X BOOLEAN, details' \subseteq Card,
         older' \subseteq details' \X details', listed' \subseteq details'
  PROVE  IInv'
<1> USE HitlAssumption DEF IInv, answer, setup, ends
<1>1. CASE UNCHANGED <<at, parked, answer, given, granted>>
  BY <1>1 DEF TypeOK, Spends, Unlocks, GatesPassed, NodesOf, Yes, Unruled, Alone, Ended, PendingIsTrue, Asking
<1>2. CASE Resolve(r, yes, isOnce, about) /\ r \in live
  <2> USE <1>2 DEF Resolve, Set
  <2>1. TypeOK'
    <3>1. at' \in [Nodes -> Places] /\ parked' \subseteq Runs
      BY DEF TypeOK, Places
    <3>2. decision' \in [Runs -> Decision \cup {None}] /\ once' \subseteq Runs
      BY DEF TypeOK, Decision
    <3>3. given' \in [Runs -> Nat] /\ granted' \in [Runs -> Nat]
      BY DEF TypeOK
    <3>4. QED
      BY <3>1, <3>2, <3>3 DEF TypeOK
  <2>2. Spends'
    BY DEF TypeOK, Spends, Yes
  <2>3. Unlocks'
    <3>1. \A n \in Nodes : at'[n] = "passed" => at[n] = "passed"
      BY DEF TypeOK
    <3>2. \A q \in Runs : /\ granted'[q] >= granted[q]
                          /\ q \in once' => q \in once \/ granted'[q] > granted[q]
      BY DEF TypeOK
    <3>3. QED
      BY <2>1, <3>1, <3>2, UnlocksKept
  <2>4. Unruled'
    BY DEF Unruled
  <2>5. Alone' /\ Ended'
    BY DEF TypeOK, Alone, Ended, Held
  <2>6. PendingIsTrue'
    BY DEF TypeOK, PendingIsTrue, Asking, NodesOf
  <2>7. QED
    BY <2>1, <2>2, <2>3, <2>4, <2>5, <2>6
<1>3. QED
  BY <1>1, <1>2 DEF Resolve

(* The event of a run is set or not, and no answer is stored. *)
LEMMA SetInv ==
  ASSUME IInv, NEW r \in Runs, Set(r) \/ UNCHANGED <<at, parked>>,
         UNCHANGED <<setup, seen, waiting, ends, answer, counts>>,
         rules' \subseteq Tools \X BOOLEAN, details' \subseteq Card, cancelled' \subseteq Runs,
         older' \subseteq details' \X details', listed' \subseteq details'
  PROVE  IInv'
<1> USE HitlAssumption DEF IInv, answer, counts, ends, setup, Set
<1>1. TypeOK'
  BY DEF TypeOK, Places
<1>2. Spends' /\ Unruled'
  BY DEF Spends, Yes, Unruled
<1>3. Unlocks'
  <2>1. \A n \in Nodes : at'[n] = "passed" => at[n] = "passed"
    BY DEF TypeOK
  <2>2. \A q \in Runs : granted[q] \in Nat
    BY DEF TypeOK
  <2>3. QED
    BY <1>1, <2>1, <2>2, UnlocksKept
<1>4. Alone' /\ Ended'
  BY DEF TypeOK, Alone, Ended, Held
<1>5. PendingIsTrue'
  BY DEF TypeOK, PendingIsTrue, Asking, NodesOf
<1>6. QED
  BY <1>1, <1>2, <1>3, <1>4, <1>5

(* No rule counts for a gate tool. *)
LEMMA GateVerdict ==
  /\ \A tool : Verdict(tool) \in {"none", "allow", "deny"}
  /\ \A tool \in GateTools : Verdict(tool) = "none"
BY DEF Verdict

(* One node goes on, and is no gate node that passes. *)
LEMMA NodeUnlocks ==
  ASSUME TypeOK, TypeOK', Unlocks, NEW n \in Nodes, NEW p,
         at' = [at EXCEPT ![n] = p], p # "passed" \/ ToolOf[n] \notin GateTools,
         granted' = granted, once' \subseteq once, vouched' = vouched
  PROVE  Unlocks'
<1>1. \A m \in Nodes : ToolOf[m] \in GateTools /\ at'[m] = "passed" => at[m] = "passed"
  BY DEF TypeOK
<1>2. \A r \in Runs : granted[r] \in Nat
  BY DEF TypeOK
<1>3. QED
  BY <1>1, <1>2, UnlocksKept

LEMMA NodeStepInv ==
  ASSUME IInv, NEW n \in Nodes, NodeStep(n)
  PROVE  IInv'
<1> USE HitlAssumption DEF IInv
<1>1. CASE Check(n)
  <2> USE <1>1, GateVerdict DEF Check, Read, setup, queue, event, answer, counts, ends
  <2>1. TypeOK'
    BY DEF TypeOK, Places
  <2>2. Spends' /\ Unruled'
    BY DEF TypeOK, Spends, Yes, Unruled
  <2>3. Unlocks'
    BY <2>1, NodeUnlocks
  <2>4. Alone' /\ Ended'
    BY DEF TypeOK, Alone, Ended, Held, Holder, NodesOf
  <2>5. PendingIsTrue'
    BY DEF TypeOK, PendingIsTrue, Asking, NodesOf
  <2>6. QED
    BY <2>1, <2>2, <2>3, <2>4, <2>5
<1>2. CASE Allowed(n)
  <2> USE <1>2 DEF Allowed, Forget, setup, queue, event, answer, counts, ends
  <2>1. TypeOK'
    BY DEF TypeOK, Places
  <2>2. Spends' /\ Unruled'
    BY DEF TypeOK, Spends, Yes, Unruled
  <2>3. Unlocks'
    BY <2>1, NodeUnlocks DEF Unruled
  <2>4. Alone' /\ Ended'
    BY DEF TypeOK, Alone, Ended, Held
  <2>5. PendingIsTrue'
    BY DEF TypeOK, PendingIsTrue, Asking, NodesOf
  <2>6. QED
    BY <2>1, <2>2, <2>3, <2>4, <2>5
<1>3. CASE Refused(n)
  <2> USE <1>3 DEF Refused, Forget, setup, answer, counts, ends
  <2>1. TypeOK'
    <3>1. details' \subseteq Card /\ older' \subseteq details' \X details' /\ listed' \subseteq details'
      BY DEF TypeOK, Queue, queue, Card
    <3>2. at' \in [Nodes -> Places] /\ seen' \in [Nodes -> {"none", "allow", "deny"}]
      BY DEF TypeOK, Places
    <3>3. QED
      BY <3>1, <3>2 DEF TypeOK
  <2>2. Spends' /\ Unruled'
    BY DEF TypeOK, Spends, Yes, Unruled
  <2>3. Unlocks'
    BY <2>1, NodeUnlocks
  <2>4. Alone' /\ Ended'
    BY DEF TypeOK, Alone, Ended, Held
  <2>5. PendingIsTrue'
    BY DEF TypeOK, PendingIsTrue, Asking, NodesOf
  <2>6. QED
    BY <2>1, <2>2, <2>3, <2>4, <2>5
<1>4. CASE RefusedAgain(n)
  <2> USE <1>4 DEF RefusedAgain, Forget, setup, event, answer, counts, ends
  <2>1. TypeOK'
    <3>1. details' \subseteq Card /\ older' \subseteq details' \X details' /\ listed' \subseteq details'
      BY DEF TypeOK, Queue, queue, Card
    <3>2. at' \in [Nodes -> Places] /\ seen' \in [Nodes -> {"none", "allow", "deny"}]
      BY DEF TypeOK, Places
    <3>3. QED
      BY <3>1, <3>2 DEF TypeOK
  <2>2. Spends' /\ Unruled'
    BY DEF TypeOK, Spends, Yes, Unruled
  <2>3. Unlocks'
    BY <2>1, NodeUnlocks
  <2>4. Alone' /\ Ended'
    BY DEF TypeOK, Alone, Ended, Held
  <2>5. PendingIsTrue'
    BY DEF TypeOK, PendingIsTrue, Asking, NodesOf
  <2>6. QED
    BY <2>1, <2>2, <2>3, <2>4, <2>5
<1>5. CASE Park(n)
  <2> USE <1>5 DEF Park, setup, queue, answer, counts, ends
  <2>1. TypeOK'
    BY DEF TypeOK, Places
  <2>2. Spends' /\ Unruled'
    BY DEF TypeOK, Spends, Yes, Unruled
  <2>3. Unlocks'
    BY <2>1, NodeUnlocks
  <2>4. Alone' /\ Ended'
    BY DEF TypeOK, Alone, Ended, Held
  <2>5. PendingIsTrue'
    BY DEF TypeOK, PendingIsTrue, Asking, NodesOf
  <2>6. QED
    BY <2>1, <2>2, <2>3, <2>4, <2>5
<1>6. CASE Timeout(n)
  <2> USE <1>6 DEF Timeout, Settled, setup, answer, counts, ends
  <2>1. TypeOK'
    <3>1. details' \subseteq Card /\ older' \subseteq details' \X details' /\ listed' \subseteq details'
      BY DropTypes DEF Discard
    <3>2. QED
      BY <3>1 DEF TypeOK, Places
  <2>2. Spends' /\ Unruled'
    BY DEF TypeOK, Spends, Yes, Unruled
  <2>3. Unlocks'
    BY <2>1, NodeUnlocks
  <2>4. Alone' /\ Ended'
    BY DEF TypeOK, Alone, Ended, Held
  <2>5. PendingIsTrue'
    BY DEF TypeOK, PendingIsTrue, Asking, NodesOf, Alone, Held
  <2>6. QED
    BY <2>1, <2>2, <2>3, <2>4, <2>5
<1>7. CASE WakeDenied(n)
  <2> USE <1>7 DEF WakeDenied, Settled, Taken, setup, queue, counts, ends
  <2>1. TypeOK'
    BY DEF TypeOK, Places
  <2>2. Spends'
    BY DEF TypeOK, Spends, Yes
  <2>3. Unruled'
    BY DEF TypeOK, Unruled
  <2>4. Unlocks'
    BY <2>1, NodeUnlocks
  <2>5. Alone' /\ Ended'
    BY DEF TypeOK, Alone, Ended, Held
  <2>6. PendingIsTrue'
    BY DEF TypeOK, PendingIsTrue, Asking, NodesOf, Alone, Held
  <2>7. QED
    BY <2>1, <2>2, <2>3, <2>4, <2>5, <2>6
<1>8. CASE WakeApproved(n)
  <2> USE <1>8, GateVerdict DEF WakeApproved, Settled, Taken, Spent, Read, setup, queue, ends
  <2>0. RunOf[n] \in Runs
    OBVIOUS
  <2>1. TypeOK'
    <3>1. at' \in [Nodes -> Places] /\ seen' \in [Nodes -> {"none", "allow", "deny"}]
      BY DEF TypeOK, Places
    <3>2. decision' \in [Runs -> Decision \cup {None}]
      BY DEF TypeOK
    <3>3. once' \subseteq Runs /\ waiting' \subseteq Runs /\ opened' \in [Runs -> Nat]
      BY <2>0 DEF TypeOK
    <3>4. QED
      BY <3>1, <3>2, <3>3 DEF TypeOK
  <2>2. Spends'
    BY DEF TypeOK, Spends, Yes, Approved
  <2>3. Unlocks'
    <3>1. CASE RunOf[n] \notin once
      <4>1. at' = [at EXCEPT ![n] = "rechecking"] /\ once' \subseteq once
        BY <3>1
      <4>2. QED
        BY <4>1, <2>1, NodeUnlocks
    <3>2. CASE RunOf[n] \in once
      <4>1. at' = [at EXCEPT ![n] = "passed"] /\ once' = once \ {RunOf[n]}
        BY <3>2
      <4> SUFFICES ASSUME NEW r \in Runs
                   PROVE  /\ Cardinality(GatesPassed(r)') <= granted[r]
                          /\ r \in once' => Cardinality(GatesPassed(r)') < granted[r]
        BY DEF Unlocks
      <4>2. granted[r] \in Nat
        BY DEF TypeOK
      <4>3. CASE r # RunOf[n]
        <5>1. GatesPassed(r)' = GatesPassed(r)
          BY <4>1, <4>3 DEF GatesPassed, NodesOf, TypeOK
        <5>2. QED
          BY <5>1, <4>1 DEF Unlocks
      <4>4. CASE r = RunOf[n]
        <5>1. GatesPassed(r)' \subseteq GatesPassed(r) \cup {n}
          BY <4>1 DEF GatesPassed, NodesOf, TypeOK
        <5>2. IsFiniteSet(GatesPassed(r) \cup {n}) /\ Cardinality(GatesPassed(r)) \in Nat
          BY PassedCount, FS_AddElement
        <5>3. /\ Cardinality(GatesPassed(r)') <= Cardinality(GatesPassed(r) \cup {n})
              /\ Cardinality(GatesPassed(r)') \in Nat /\ Cardinality(GatesPassed(r) \cup {n}) \in Nat
          BY <5>1, <5>2, FS_Subset, FS_CardinalityType
        <5>4. \/ Cardinality(GatesPassed(r) \cup {n}) = Cardinality(GatesPassed(r))
              \/ Cardinality(GatesPassed(r) \cup {n}) = Cardinality(GatesPassed(r)) + 1
          BY PassedCount, FS_AddElement
        <5>5. Cardinality(GatesPassed(r)) < granted[r]
          BY <3>2, <4>4 DEF Unlocks
        <5>6. QED
          BY <5>2, <5>3, <5>4, <5>5, <4>1, <4>2, <4>4
      <4>5. QED
        BY <4>3, <4>4
    <3>3. QED
      BY <3>1, <3>2
  <2>4. Unruled'
    BY DEF TypeOK, Unruled
  <2>5. Alone' /\ Ended'
    BY DEF TypeOK, Alone, Ended, Held
  <2>6. PendingIsTrue'
    BY DEF TypeOK, PendingIsTrue, Asking, NodesOf, Alone, Held
  <2>7. QED
    BY <2>1, <2>2, <2>3, <2>4, <2>5, <2>6
<1>9. CASE Vouched(n)
  <2> USE <1>9 DEF Vouched, Forget, setup, queue, event, answer, ends
  <2>1. TypeOK'
    BY DEF TypeOK, Places
  <2>2. Spends' /\ Unruled'
    BY DEF TypeOK, Spends, Yes, Unruled
  <2>3. Unlocks'
    <3>1. /\ vouched \subseteq vouched'
          /\ \A m \in Nodes \ vouched' : at'[m] = "passed" => at[m] = "passed"
      BY DEF TypeOK
    <3>2. \A q \in Runs : granted[q] \in Nat
      BY DEF TypeOK
    <3>3. QED
      BY <2>1, <3>1, <3>2, UnlocksKept
  <2>4. Alone' /\ Ended'
    BY DEF TypeOK, Alone, Ended, Held
  <2>5. PendingIsTrue'
    BY DEF TypeOK, PendingIsTrue, Asking, NodesOf
  <2>6. QED
    BY <2>1, <2>2, <2>3, <2>4, <2>5
<1>10. QED
  BY <1>1, <1>2, <1>3, <1>4, <1>5, <1>6, <1>7, <1>8, <1>9 DEF NodeStep

LEMMA AnswersInv ==
  ASSUME IInv, Answers
  PROVE  IInv'
<1> USE DEF IInv
<1>0. PICK yes \in BOOLEAN, c \in Card :
        ConfirmOnce(c, yes) \/ Confirm(c, yes) \/ ConfirmElsewhere(c, yes) \/ Webhook(c, yes)
  BY DEF Answers
<1>1. RunOf[c[1]] \in Runs /\ c[1] \in Nodes
  BY HitlAssumption DEF Card
<1>2. rules \subseteq Tools \X BOOLEAN /\ Ruled(c, yes) \subseteq Tools \X BOOLEAN
  BY <1>1, HitlAssumption DEF TypeOK, Ruled
<1>3. Drop({c})
  BY <1>0 DEF ConfirmOnce, Confirm, ConfirmElsewhere, Webhook
<1>4. details' \subseteq Card /\ older' \subseteq details' \X details' /\ listed' \subseteq details'
  BY <1>3, DropTypes
<1>5. CASE ConfirmOnce(c, yes) \/ Webhook(c, yes)
  <2>1. \/ Resolve(RunOf[c[1]], yes, TRUE, c[1])
        \/ UNCHANGED <<at, parked, answer, given, granted>>
    BY <1>5 DEF ConfirmOnce, Webhook
  <2>2. UNCHANGED <<setup, seen, rules, waiting, cancelled, ends, opened, vouched>>
    BY <1>5 DEF ConfirmOnce, Webhook
  <2>3. QED
    BY <2>1, <2>2, <1>1, <1>2, <1>4, ResolveInv
<1>6. CASE Confirm(c, yes)
  <2>1. Resolve(RunOf[c[1]], yes, FALSE, c[1]) /\ rules' = Ruled(c, yes)
    BY <1>6 DEF Confirm
  <2>2. UNCHANGED <<setup, seen, waiting, cancelled, ends, opened, vouched>>
    BY <1>6 DEF Confirm
  <2>3. QED
    BY <2>1, <2>2, <1>1, <1>2, <1>4, ResolveInv
<1>7. CASE ConfirmElsewhere(c, yes)
  <2>1. UNCHANGED <<setup, at, seen, parked, waiting, answer, cancelled, ends, counts>>
        /\ rules' = Ruled(c, yes)
    BY <1>7 DEF ConfirmElsewhere, event
  <2>2. cancelled' \subseteq Runs
    BY <2>1 DEF TypeOK
  <2>3. QED
    BY <2>1, <2>2, <1>1, <1>2, <1>4, SetInv
<1>8. QED
  BY <1>0, <1>5, <1>6, <1>7

LEMMA ControlsInv ==
  ASSUME IInv, Controls
  PROVE  IInv'
<1> USE DEF IInv
<1>1. CASE (\E p \in HandRules : AddRule(p)) \/ (\E tool \in Tools : ResetRules({tool}))
             \/ ResetRules(Tools)
  <2>1. UNCHANGED <<setup, at, seen, details, older, event, answer, cancelled, ends, counts>>
    BY <1>1 DEF AddRule, ResetRules, queue
  <2>2. rules' \subseteq Tools \X BOOLEAN /\ listed' \subseteq listed
    BY <1>1, HitlAssumption DEF AddRule, ResetRules, queue, TypeOK
  <2>3. TypeOK'
    BY <2>1, <2>2 DEF TypeOK, setup, event, answer, counts, ends
  <2>4. QED
    BY <2>1, <2>3 DEF event, answer, counts, ends, Spends, Unlocks, GatesPassed, NodesOf, Yes,
                      Unruled, Alone, Ended, PendingIsTrue, Asking
<1>2. ASSUME NEW r \in Runs, Pause(r) PROVE IInv'
  <2>1. TypeOK'
    BY <1>2 DEF Pause, TypeOK, setup, queue, answer, counts, ends
  <2>2. QED
    BY <1>2, <2>1 DEF Pause, answer, counts, ends, Spends, Unlocks, GatesPassed, NodesOf, Yes,
                      Unruled, Alone, Ended, PendingIsTrue, Asking
<1>3. ASSUME NEW r \in Runs, Resume(r) \/ Cancel(r) PROVE IInv'
  <2>1. Set(r) /\ UNCHANGED <<setup, seen, rules, queue, waiting, answer, ends, counts>>
    BY <1>3 DEF Resume, Cancel
  <2>2. /\ cancelled' \subseteq Runs /\ rules' \subseteq Tools \X BOOLEAN /\ details' \subseteq Card
        /\ older' \subseteq details' \X details' /\ listed' \subseteq details'
    BY <1>3, <2>1 DEF Resume, Cancel, TypeOK, queue
  <2>3. QED
    BY <2>1, <2>2, SetInv
<1>4. ASSUME NEW r \in Runs, Close(r) PROVE IInv'
  <2> USE HitlAssumption, <1>4 DEF Close, queue, event, answer, counts, setup
  <2>1. TypeOK'
    BY DEF TypeOK, Places
  <2>2. Spends' /\ Unruled'
    BY DEF TypeOK, Spends, Yes, Unruled
  <2>3. Unlocks'
    <3>1. \A n \in Nodes : at'[n] = "passed" => at[n] = "passed"
      BY DEF TypeOK
    <3>2. \A q \in Runs : granted[q] \in Nat
      BY DEF TypeOK
    <3>3. QED
      BY <2>1, <3>1, <3>2, UnlocksKept
  <2>4. Alone' /\ Ended'
    BY DEF TypeOK, Alone, Ended, Held
  <2>5. PendingIsTrue'
    BY DEF TypeOK, PendingIsTrue, Asking, NodesOf, Held
  <2>6. QED
    BY <2>1, <2>2, <2>3, <2>4, <2>5
<1>5. ASSUME NEW r \in Runs, End(r) PROVE IInv'
  <2> USE HitlAssumption, <1>5 DEF End, answer, counts, setup
  <2>1. TypeOK'
    <3>1. details' \subseteq Card /\ older' \subseteq details' \X details' /\ listed' \subseteq details'
      BY DropTypes DEF Discard, queue, TypeOK
    <3>2. QED
      BY <3>1 DEF TypeOK
  <2>2. Spends' /\ Unruled'
    BY DEF TypeOK, Spends, Yes, Unruled
  <2>3. Unlocks'
    <3>1. \A q \in Runs : granted[q] \in Nat
      BY DEF TypeOK
    <3>2. QED
      BY <2>1, <3>1, UnlocksKept
  <2>4. Alone' /\ Ended'
    BY DEF TypeOK, Alone, Ended, Held
  <2>5. PendingIsTrue'
    BY DEF TypeOK, PendingIsTrue, Asking, NodesOf, Ended, Held
  <2>6. QED
    BY <2>1, <2>2, <2>3, <2>4, <2>5
<1>6. QED
  BY <1>1, <1>2, <1>3, <1>4, <1>5 DEF Controls

LEMMA StepInv == IInv /\ [Next]_vars => IInv'
<1>1. ASSUME IInv, UNCHANGED vars PROVE IInv'
  BY <1>1 DEF vars, setup, queue, event, answer, counts, ends, IInv, TypeOK,
              Spends, Unlocks, GatesPassed, NodesOf, Yes, Unruled, Alone, Ended, PendingIsTrue, Asking
<1>2. QED
  BY <1>1, NodeStepInv, AnswersInv, ControlsInv DEF Next

----------------------------------------------------------------------------
(* Checks, cards, answers and counts keep their types, and a listed card has *)
(* its details.                                                            *)
THEOREM TypeCorrect == Spec => []TypeOK
<1>1. IInv => TypeOK
  BY DEF IInv
<1>2. QED
  BY InitInv, StepInv, <1>1, PTL DEF Spec

(* The waits of a run that ended on an approval are no more than the       *)
(* approvals it was given: none opens two waits (resolve_hitl stores one,  *)
(* _hitl_await pops it).                                                   *)
THEOREM ApprovalsSpentOnce == Spec => []SpentOnce
<1>1. IInv => SpentOnce
  BY DEF IInv, Spends, SpentOnce
<1>2. QED
  BY InitInv, StepInv, <1>1, PTL DEF Spec

(* The gate nodes of a run that passed, other than by a hook's approval,   *)
(* are no more than its once-approvals (_hitl_once_grants), whatever rules *)
(* are stored.                                                             *)
THEOREM GatesUnlockedOnce == Spec => []OnceForGates
<1>1. IInv => OnceForGates
  BY DEF IInv, Unlocks, OnceForGates
<1>2. QED
  BY InitInv, StepInv, <1>1, PTL DEF Spec

(* _hitl_waiting holds a run while one of its nodes waits, and after that  *)
(* only in the end hooks of the run.                                       *)
THEOREM PendingMatchesWait == Spec => []PendingIsTrue
<1>1. IInv => PendingIsTrue
  BY DEF IInv
<1>2. QED
  BY InitInv, StepInv, <1>1, PTL DEF Spec
=============================================================================
