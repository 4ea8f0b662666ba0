------------------------- MODULE PlanExecutionProofs -------------------------
(***************************************************************************)
(* Proofs about PlanExecution, for every plan, every assignment of         *)
(* resource keys and every bound: the types, the exclusion on resource     *)
(* keys, that a wave builds on successes only, that a completed or partial *)
(* plan is reported as what it is, and that a task is skipped only behind  *)
(* a failure.                                                              *)
(***************************************************************************)
EXTENDS PlanExecution, TLAPS

USE PlanAssumption

-----------------------------------------------------------------------------
(* Types.                                                                  *)

\* A reopened run that is queued or under way was counted when it was opened.
Budget == \A t \in Tasks : queued[t] + redoing[t] <= redos

LEMMA InitTypes == Init => TypeOK /\ Budget
<1>1. SUFFICES ASSUME Init PROVE TypeOK /\ Budget
  OBVIOUS
<1>2. result \in [Tasks -> {"ok", "failed", None}] /\ owner \in [Resources -> Tasks \cup {None}]
  BY <1>1 DEF Init
<1>3. queued \in [Tasks -> 0..MaxRedo] /\ redoing \in [Tasks -> 0..MaxRedo] /\ Budget
  BY <1>1 DEF Init, Budget
<1>4. acc \in [Tasks -> {"none", "pending", "accepted", "rejected"}]
  BY <1>1 DEF Init
<1>5. executed \subseteq Tasks /\ wave \subseteq Tasks /\ step \in [Tasks -> {"idle", "lock", "exec", "ok", "bad"}]
  BY <1>1 DEF Init
<1>6. status \in [Tasks -> {"pending", "running", "completed", "failed", "skipped"}]
  BY <1>1 DEF Init
<1>7. attended \in BOOLEAN /\ gated \in BOOLEAN /\ rejected \in BOOLEAN
  BY <1>1 DEF Init
<1>8. starts \in 0..MaxStarts /\ votes \in 0..MaxVotes /\ redos \in 0..MaxRedo
  BY <1>1 DEF Init
<1>9. plan = "pending" /\ loop = "off"
  BY <1>1 DEF Init
<1>10. QED
  BY <1>2, <1>3, <1>4, <1>5, <1>6, <1>7, <1>8, <1>9 DEF TypeOK

\* Whatever the executor does, the coroutine has an end to report.
LEMMA ReturnReports ==
  ASSUME TypeOK, NEW t \in Tasks, Return(t)
  PROVE  /\ \E end \in {"ok", "bad"} : step' = [step EXCEPT ![t] = end]
         /\ \E s \in {status[t], "failed"} : status' = [status EXCEPT ![t] = s]
         /\ owner' = [k \in Resources |-> IF owner[k] = t THEN None ELSE owner[k]]
         /\ step[t] = "exec"
         /\ UNCHANGED <<book, acc, wave, redo, hist>>
BY DEF Return, TypeOK

LEMMA StepTypes == TypeOK /\ Budget /\ [Next]_vars => TypeOK' /\ Budget'
<1>1. SUFFICES ASSUME TypeOK, Budget, [Next]_vars PROVE TypeOK' /\ Budget'
  OBVIOUS
<1>2. CASE Start
  <2>1. result' \in [Tasks -> {"ok", "failed", None}] /\ starts' \in 0..MaxStarts
    BY <1>1, <1>2 DEF Start, TypeOK
  <2>2. QED
    BY <1>1, <1>2, <2>1 DEF Start, TypeOK, Budget, vars, work, redo, hist
<1>3. CASE Launch
  BY <1>1, <1>3 DEF Launch, Turn, Gather, GatedAcc, Ready, TypeOK, Budget, redo, hist
<1>4. CASE Wait
  BY <1>1, <1>4 DEF Wait, Turn, GatedAcc, TypeOK, Budget, work, redo, hist
<1>5. CASE Wake
  BY <1>1, <1>5 DEF Wake, TypeOK, Budget, work, redo, hist
<1>6. CASE Skip
  BY <1>1, <1>6
  DEF Skip, Turn, Gather, GatedAcc, Blocked, Still, Verdict, TypeOK, Budget, redo, hist
<1>7. CASE Stuck
  BY <1>1, <1>7 DEF Stuck, Turn, GatedAcc, TypeOK, Budget, work, redo, hist
<1>8. CASE Collect
  BY <1>1, <1>8 DEF Collect, TypeOK, Budget, redo, hist
<1>9. CASE Finish
  BY <1>1, <1>9 DEF Finish, Verdict, TypeOK, Budget, work, redo, hist
<1>10. ASSUME NEW t \in Tasks, NEW k \in Resources, Acquire(t, k) PROVE  TypeOK' /\ Budget'
  BY <1>1, <1>10 DEF Acquire, NextKey, Held, TypeOK, Budget, book, redo, hist
<1>11. ASSUME NEW t \in Tasks, Begin(t) PROVE  TypeOK' /\ Budget'
  BY <1>1, <1>11 DEF Begin, TypeOK, Budget, book, redo, hist
<1>12. ASSUME NEW t \in Tasks, Return(t) PROVE  TypeOK' /\ Budget'
  <2>1. PICK end \in {"ok", "bad"} : step' = [step EXCEPT ![t] = end]
    BY <1>1, <1>12, ReturnReports
  <2>2. PICK s \in {status[t], "failed"} : status' = [status EXCEPT ![t] = s]
    BY <1>1, <1>12, ReturnReports
  <2>3. step' \in [Tasks -> {"idle", "lock", "exec", "ok", "bad"}]
    BY <1>1, <2>1 DEF TypeOK
  <2>4. status' \in [Tasks -> {"pending", "running", "completed", "failed", "skipped"}]
    BY <1>1, <2>2 DEF TypeOK
  <2>5. owner' \in [Resources -> Tasks \cup {None}]
    BY <1>1, <1>12 DEF TypeOK, Return
  <2>6. UNCHANGED <<book, acc, wave, redo, hist>>
    BY <1>12 DEF Return
  <2>7. QED
    BY <1>1, <2>3, <2>4, <2>5, <2>6 DEF TypeOK, Budget, book, redo, hist
<1>13. ASSUME NEW t \in Tasks, NoAgent(t) PROVE  TypeOK' /\ Budget'
  BY <1>1, <1>13 DEF NoAgent, TypeOK, Budget, book, redo, hist
<1>14. ASSUME NEW t \in Tasks, RequestAcceptance(t) PROVE  TypeOK' /\ Budget'
  BY <1>1, <1>14 DEF RequestAcceptance, Vote, TypeOK, Budget, book, work, redo
<1>15. ASSUME NEW t \in Tasks, Accept(t) PROVE  TypeOK' /\ Budget'
  BY <1>1, <1>15 DEF Accept, Vote, TypeOK, Budget, book, work, redo
<1>16. ASSUME NEW t \in Tasks, Reopen(t) PROVE  TypeOK' /\ Budget'
  BY <1>1, <1>16 DEF Reopen, Requeue, TypeOK, Budget, book, work, hist
<1>17. ASSUME NEW t \in Tasks, RedoBegin(t) PROVE  TypeOK' /\ Budget'
  BY <1>1, <1>17 DEF RedoBegin, TypeOK, Budget, book, work, hist
<1>18. ASSUME NEW t \in Tasks, RedoEnd(t) PROVE  TypeOK' /\ Budget'
  BY <1>1, <1>18 DEF RedoEnd, TypeOK, Budget, book, work, hist
<1>19. ASSUME NEW t \in Tasks, NEW rerun \in BOOLEAN, Reject(t, rerun) PROVE  TypeOK' /\ Budget'
  BY <1>1, <1>19 DEF Reject, Vote, Requeue, TypeOK, Budget, book, work, redo
<1>20. CASE UNCHANGED vars
  BY <1>1, <1>20 DEF TypeOK, Budget, vars, book, work, redo, hist
<1>21. QED
  BY <1>1, <1>2, <1>3, <1>4, <1>5, <1>6, <1>7, <1>8, <1>9, <1>10, <1>11, <1>12, <1>13, <1>14, <1>15, <1>16, <1>17, <1>18, <1>19, <1>20
  DEF Next, LoopTurn, Desk, TaskStep, Redo

\* The variables keep their types; the bounds on reopened runs hold because
\* each is counted when it is asked for.
THEOREM TypeCorrect == Spec => [](TypeOK /\ Budget)
<1>1. Init => TypeOK /\ Budget
  BY InitTypes
<1>2. TypeOK /\ Budget /\ [Next]_vars => (TypeOK /\ Budget)'
  BY StepTypes
<1>3. QED
  BY <1>1, <1>2, PTL DEF Spec

-----------------------------------------------------------------------------
(* Locks.                                                                  *)

\* What executes holds all its locks.
Locked == \A t \in Tasks : step[t] = "exec" => \A k \in Keys[t] : owner[k] = t

LEMMA StepLocked == TypeOK /\ Locked /\ [Next]_vars => Locked'
<1>1. SUFFICES ASSUME TypeOK, Locked, [Next]_vars PROVE Locked'
  OBVIOUS
<1>2. CASE Start
  BY <1>1, <1>2 DEF Start, TypeOK, Locked, Held, work, redo, hist
<1>3. CASE Launch
  BY <1>1, <1>3
  DEF Launch, Turn, Gather, GatedAcc, Ready, TypeOK, Locked, Held, redo, hist
<1>4. CASE Wait
  BY <1>1, <1>4 DEF Wait, Turn, GatedAcc, TypeOK, Locked, Held, work, redo, hist
<1>5. CASE Wake
  BY <1>1, <1>5 DEF Wake, TypeOK, Locked, Held, work, redo, hist
<1>6. CASE Skip
  BY <1>1, <1>6
  DEF Skip, Turn, Gather, GatedAcc, Blocked, Still, Verdict, TypeOK, Locked, Held, redo,
      hist
<1>7. CASE Stuck
  BY <1>1, <1>7 DEF Stuck, Turn, GatedAcc, TypeOK, Locked, Held, work, redo, hist
<1>8. CASE Collect
  BY <1>1, <1>8 DEF Collect, TypeOK, Locked, Held, redo, hist
<1>9. CASE Finish
  BY <1>1, <1>9 DEF Finish, Verdict, TypeOK, Locked, Held, work, redo, hist
<1>10. ASSUME NEW t \in Tasks, NEW k \in Resources, Acquire(t, k) PROVE  Locked'
  BY <1>1, <1>10 DEF Acquire, NextKey, TypeOK, Locked, Held, book, redo, hist
<1>11. ASSUME NEW t \in Tasks, Begin(t) PROVE  Locked'
  BY <1>1, <1>11 DEF Begin, TypeOK, Locked, Held, book, redo, hist
<1>12. ASSUME NEW t \in Tasks, Return(t) PROVE  Locked'
  <2>1. PICK end \in {"ok", "bad"} : step' = [step EXCEPT ![t] = end]
    BY <1>1, <1>12, ReturnReports
  <2>2. \A u \in Tasks : step'[u] = "exec" => u # t /\ step[u] = "exec"
    BY <1>1, <1>12, <2>1 DEF TypeOK
  <2>3. \A k \in Resources : owner[k] # t => owner'[k] = owner[k]
    BY <1>1, <1>12, ReturnReports
  <2>4. QED
    BY <1>1, <2>2, <2>3 DEF TypeOK, Locked
<1>13. ASSUME NEW t \in Tasks, NoAgent(t) PROVE  Locked'
  BY <1>1, <1>13 DEF NoAgent, TypeOK, Locked, Held, book, redo, hist
<1>14. ASSUME NEW t \in Tasks, RequestAcceptance(t) PROVE  Locked'
  BY <1>1, <1>14 DEF RequestAcceptance, Vote, TypeOK, Locked, Held, book, work, redo
<1>15. ASSUME NEW t \in Tasks, Accept(t) PROVE  Locked'
  BY <1>1, <1>15 DEF Accept, Vote, TypeOK, Locked, Held, book, work, redo
<1>16. ASSUME NEW t \in Tasks, Reopen(t) PROVE  Locked'
  BY <1>1, <1>16 DEF Reopen, Requeue, TypeOK, Locked, Held, book, work, hist
<1>17. ASSUME NEW t \in Tasks, RedoBegin(t) PROVE  Locked'
  BY <1>1, <1>17 DEF RedoBegin, TypeOK, Locked, Held, book, work, hist
<1>18. ASSUME NEW t \in Tasks, RedoEnd(t) PROVE  Locked'
  BY <1>1, <1>18 DEF RedoEnd, TypeOK, Locked, Held, book, work, hist
<1>19. ASSUME NEW t \in Tasks, NEW rerun \in BOOLEAN, Reject(t, rerun) PROVE  Locked'
  BY <1>1, <1>19 DEF Reject, Vote, Requeue, TypeOK, Locked, Held, book, work, redo
<1>20. CASE UNCHANGED vars
  BY <1>1, <1>20 DEF TypeOK, Locked, Held, vars, book, work, redo, hist
<1>21. QED
  BY <1>1, <1>2, <1>3, <1>4, <1>5, <1>6, <1>7, <1>8, <1>9, <1>10, <1>11, <1>12, <1>13, <1>14, <1>15, <1>16, <1>17, <1>18, <1>19, <1>20
  DEF Next, LoopTurn, Desk, TaskStep, Redo

\* Tasks with a resource in common never execute at the same time, whatever the
\* keys and however many tasks a wave has: each key has one owner, and a task
\* that executes owns all of its own.
THEOREM KeysStayApart == Spec => []KeysApart
<1>1. Init => Locked
  BY DEF Init, Locked
<1>2. Locked => KeysApart
  BY DEF Locked, KeysApart
<1>3. QED
  BY <1>1, <1>2, TypeCorrect, StepLocked, PTL DEF Spec

-----------------------------------------------------------------------------
(* Waves.                                                                  *)

\* There is a wave only while one is gathered, and only its tasks have a
\* coroutine.
Gathered ==
  /\ loop # "gather" => wave = {}
  /\ \A t \in Tasks : step[t] # "idle" => t \in wave

\* The loop is through with a task only when it has a result.
Settled == \A t \in executed : result[t] # None

Waves == Gathered /\ Settled /\ BuildsOnSuccess

LEMMA StepWaves == TypeOK /\ Waves /\ [Next]_vars => Waves'
<1>1. SUFFICES ASSUME TypeOK, Waves, [Next]_vars PROVE Waves'
  OBVIOUS
<1>2. CASE Start
  BY <1>1, <1>2
  DEF Start, TypeOK, Waves, Gathered, Settled, BuildsOnSuccess, Failed, work, redo, hist
<1>3. CASE Launch
  BY <1>1, <1>3
  DEF Launch, Turn, Gather, GatedAcc, Ready, TypeOK, Waves, Gathered, Settled,
      BuildsOnSuccess, Failed, redo, hist
<1>4. CASE Wait
  <2>1. wave = {} /\ UNCHANGED <<wave, step, executed>>
    BY <1>1, <1>4 DEF Wait, Turn, work, Waves, Gathered
  <2>2. \A t \in Tasks : result'[t] = result[t] \/ result'[t] = "failed"
    BY <1>1, <1>4 DEF Wait, TypeOK
  <2>3. Settled'
    BY <1>1, <2>1, <2>2 DEF TypeOK, Waves, Settled
  <2>4. QED
    BY <1>1, <2>1, <2>3 DEF Waves, Gathered, BuildsOnSuccess
<1>5. CASE Wake
  BY <1>1, <1>5
  DEF Wake, TypeOK, Waves, Gathered, Settled, BuildsOnSuccess, Failed, work, redo, hist
<1>6. CASE Skip
  <2>1. wave = {} /\ loop = "think" /\ executed' = executed \cup Blocked
    BY <1>1, <1>6 DEF Skip, Turn, Waves, Gathered
  <2>2. \A t \in Tasks : result'[t] = IF t \in Blocked THEN "failed" ELSE result[t]
    BY <1>1, <1>6 DEF Skip, TypeOK
  <2>3. Settled'
    BY <1>1, <2>1, <2>2 DEF TypeOK, Waves, Settled, Blocked
  <2>4. CASE Gather(Still)
    <3>1. \A t \in Still : \A d \in Deps[t] : d \in executed' /\ result'[d] = "ok"
      BY <1>1, <2>1, <2>2 DEF Still, Blocked, Failed, TypeOK, Waves, Settled
    <3>2. QED
      BY <1>1, <2>1, <2>3, <2>4, <3>1
      DEF Gather, Still, TypeOK, Waves, Gathered, BuildsOnSuccess
  <2>5. CASE UNCHANGED <<wave, step>>
    BY <1>1, <2>1, <2>3, <2>5 DEF Waves, Gathered, BuildsOnSuccess
  <2>6. QED
    BY <1>6, <2>4, <2>5 DEF Skip
<1>7. CASE Stuck
  BY <1>1, <1>7
  DEF Stuck, Turn, GatedAcc, TypeOK, Waves, Gathered, Settled, BuildsOnSuccess, Failed,
      work, redo, hist
<1>8. CASE Collect
  <2>1. wave' = {} /\ Gathered'
    BY <1>1, <1>8 DEF Collect, TypeOK, Waves, Gathered
  <2>2. Settled'
    BY <1>1, <1>8 DEF Collect, TypeOK, Waves, Settled
  <2>3. QED
    BY <2>1, <2>2 DEF Waves, BuildsOnSuccess
<1>9. CASE Finish
  BY <1>1, <1>9
  DEF Finish, Verdict, TypeOK, Waves, Gathered, Settled, BuildsOnSuccess, Failed, work,
      redo, hist
<1>10. ASSUME NEW t \in Tasks, NEW k \in Resources, Acquire(t, k) PROVE  Waves'
  BY <1>1, <1>10
  DEF Acquire, NextKey, Held, TypeOK, Waves, Gathered, Settled, BuildsOnSuccess, Failed,
      book, redo, hist
<1>11. ASSUME NEW t \in Tasks, Begin(t) PROVE  Waves'
  BY <1>1, <1>11
  DEF Begin, TypeOK, Waves, Gathered, Settled, BuildsOnSuccess, Failed, book, redo, hist
<1>12. ASSUME NEW t \in Tasks, Return(t) PROVE  Waves'
  <2>1. PICK end \in {"ok", "bad"} : step' = [step EXCEPT ![t] = end]
    BY <1>1, <1>12, ReturnReports
  <2>2. QED
    BY <1>1, <1>12, <2>1, ReturnReports
    DEF TypeOK, Waves, Gathered, Settled, BuildsOnSuccess, book, redo, hist
<1>13. ASSUME NEW t \in Tasks, NoAgent(t) PROVE  Waves'
  BY <1>1, <1>13
  DEF NoAgent, TypeOK, Waves, Gathered, Settled, BuildsOnSuccess, Failed, book, redo,
      hist
<1>14. ASSUME NEW t \in Tasks, RequestAcceptance(t) PROVE  Waves'
  BY <1>1, <1>14
  DEF RequestAcceptance, Vote, TypeOK, Waves, Gathered, Settled, BuildsOnSuccess,
      Failed, book, work, redo
<1>15. ASSUME NEW t \in Tasks, Accept(t) PROVE  Waves'
  BY <1>1, <1>15
  DEF Accept, Vote, TypeOK, Waves, Gathered, Settled, BuildsOnSuccess, Failed, book,
      work, redo
<1>16. ASSUME NEW t \in Tasks, Reopen(t) PROVE  Waves'
  BY <1>1, <1>16
  DEF Reopen, Requeue, TypeOK, Waves, Gathered, Settled, BuildsOnSuccess, Failed, book,
      work, hist
<1>17. ASSUME NEW t \in Tasks, RedoBegin(t) PROVE  Waves'
  BY <1>1, <1>17
  DEF RedoBegin, TypeOK, Waves, Gathered, Settled, BuildsOnSuccess, Failed, book, work,
      hist
<1>18. ASSUME NEW t \in Tasks, RedoEnd(t) PROVE  Waves'
  BY <1>1, <1>18
  DEF RedoEnd, TypeOK, Waves, Gathered, Settled, BuildsOnSuccess, Failed, book, work,
      hist
<1>19. ASSUME NEW t \in Tasks, NEW rerun \in BOOLEAN, Reject(t, rerun) PROVE  Waves'
  BY <1>1, <1>19
  DEF Reject, Vote, Requeue, TypeOK, Waves, Gathered, Settled, BuildsOnSuccess, Failed,
      book, work, redo
<1>20. CASE UNCHANGED vars
  BY <1>1, <1>20
  DEF TypeOK, Waves, Gathered, Settled, BuildsOnSuccess, Failed, vars, book, work, redo,
      hist
<1>21. QED
  BY <1>1, <1>2, <1>3, <1>4, <1>5, <1>6, <1>7, <1>8, <1>9, <1>10, <1>11, <1>12, <1>13, <1>14, <1>15, <1>16, <1>17, <1>18, <1>19, <1>20
  DEF Next, LoopTurn, Desk, TaskStep, Redo

\* A wave is built on results of which none is a failure.  That a verdict may
\* fail a task while the loop waits does not disturb it: there is no wave then.
THEOREM WavesBuildOnSuccess == Spec => [](Waves /\ BuildsOnSuccess)
<1>1. Init => Waves
  BY DEF Init, Waves, Gathered, Settled, BuildsOnSuccess
<1>2. Waves => BuildsOnSuccess
  BY DEF Waves
<1>3. QED
  BY <1>1, <1>2, TypeCorrect, StepWaves, PTL DEF Spec

-----------------------------------------------------------------------------
(* The reported status.                                                    *)

\* A terminal status is that of a loop that has ended.
Over == plan # "running" => loop = "off"

\* Without a rejection no task is marked rejected.
Calm == ~rejected => \A t \in Tasks : acc[t] # "rejected"

\* Without rework, the status of a task the loop is through with is its result.
Agree ==
  ~rejected /\ redos = 0 =>
    \A t \in executed : \/ result[t] = "ok" /\ status[t] = "completed"
                        \/ result[t] = "failed" /\ status[t] \in {"failed", "skipped"}

Honest == Over /\ Calm /\ Agree /\ EndIsHonest

LEMMA StepHonest ==
  TypeOK /\ Budget /\ Waves /\ Honest /\ [Next]_vars => Honest'
<1>1. SUFFICES ASSUME TypeOK, Budget, Waves, Honest, [Next]_vars PROVE Honest'
  OBVIOUS
<1>2. CASE Start
  BY <1>1, <1>2
  DEF Start, TypeOK, Budget, Waves, Gathered, BuildsOnSuccess, Honest, Over, Calm,
      Agree, EndIsHonest, work, redo, hist
<1>3. CASE Launch
  BY <1>1, <1>3
  DEF Launch, Turn, Gather, GatedAcc, Ready, TypeOK, Budget, Waves, Gathered,
      BuildsOnSuccess, Honest, Over, Calm, Agree, EndIsHonest, redo, hist
<1>4. CASE Wait
  BY <1>1, <1>4
  DEF Wait, Turn, GatedAcc, TypeOK, Budget, Waves, Gathered, BuildsOnSuccess, Honest,
      Over, Calm, Agree, EndIsHonest, work, redo, hist
<1>5. CASE Wake
  BY <1>1, <1>5
  DEF Wake, TypeOK, Budget, Waves, Gathered, BuildsOnSuccess, Honest, Over, Calm, Agree,
      EndIsHonest, work, redo, hist
<1>6. CASE Skip
  BY <1>1, <1>6
  DEF Skip, Turn, Gather, GatedAcc, Blocked, Still, Verdict, TypeOK, Budget, Waves,
      Gathered, BuildsOnSuccess, Honest, Over, Calm, Agree, EndIsHonest, redo, hist
<1>7. CASE Stuck
  BY <1>1, <1>7
  DEF Stuck, Turn, GatedAcc, TypeOK, Budget, Waves, Gathered, BuildsOnSuccess, Honest,
      Over, Calm, Agree, EndIsHonest, work, redo, hist
<1>8. CASE Collect
  BY <1>1, <1>8
  DEF Collect, TypeOK, Budget, Waves, Gathered, BuildsOnSuccess, Honest, Over, Calm,
      Agree, EndIsHonest, redo, hist
<1>9. CASE Finish
  BY <1>1, <1>9
  DEF Finish, Verdict, TypeOK, Budget, Waves, Gathered, BuildsOnSuccess, Honest, Over,
      Calm, Agree, EndIsHonest, work, redo, hist
<1>10. ASSUME NEW t \in Tasks, NEW k \in Resources, Acquire(t, k) PROVE  Honest'
  BY <1>1, <1>10
  DEF Acquire, NextKey, Held, TypeOK, Budget, Waves, Gathered, BuildsOnSuccess, Honest,
      Over, Calm, Agree, EndIsHonest, book, redo, hist
<1>11. ASSUME NEW t \in Tasks, Begin(t) PROVE  Honest'
  BY <1>1, <1>11
  DEF Begin, TypeOK, Budget, Waves, Gathered, BuildsOnSuccess, Honest, Over, Calm,
      Agree, EndIsHonest, book, redo, hist
<1>12. ASSUME NEW t \in Tasks, Return(t) PROVE  Honest'
  BY <1>1, <1>12
  DEF Return, TypeOK, Budget, Waves, Gathered, BuildsOnSuccess, Honest, Over, Calm,
      Agree, EndIsHonest, book, redo, hist
<1>13. ASSUME NEW t \in Tasks, NoAgent(t) PROVE  Honest'
  BY <1>1, <1>13
  DEF NoAgent, TypeOK, Budget, Waves, Gathered, BuildsOnSuccess, Honest, Over, Calm,
      Agree, EndIsHonest, book, redo, hist
<1>14. ASSUME NEW t \in Tasks, RequestAcceptance(t) PROVE  Honest'
  BY <1>1, <1>14
  DEF RequestAcceptance, Vote, TypeOK, Budget, Waves, Gathered, BuildsOnSuccess, Honest,
      Over, Calm, Agree, EndIsHonest, book, work, redo
<1>15. ASSUME NEW t \in Tasks, Accept(t) PROVE  Honest'
  BY <1>1, <1>15
  DEF Accept, Vote, TypeOK, Budget, Waves, Gathered, BuildsOnSuccess, Honest, Over,
      Calm, Agree, EndIsHonest, book, work, redo
<1>16. ASSUME NEW t \in Tasks, Reopen(t) PROVE  Honest'
  BY <1>1, <1>16
  DEF Reopen, Requeue, TypeOK, Budget, Waves, Gathered, BuildsOnSuccess, Honest, Over,
      Calm, Agree, EndIsHonest, book, work, hist
<1>17. ASSUME NEW t \in Tasks, RedoBegin(t) PROVE  Honest'
  BY <1>1, <1>17
  DEF RedoBegin, TypeOK, Budget, Waves, Gathered, BuildsOnSuccess, Honest, Over, Calm,
      Agree, EndIsHonest, book, work, hist
<1>18. ASSUME NEW t \in Tasks, RedoEnd(t) PROVE  Honest'
  BY <1>1, <1>18
  DEF RedoEnd, TypeOK, Budget, Waves, Gathered, BuildsOnSuccess, Honest, Over, Calm,
      Agree, EndIsHonest, book, work, hist
<1>19. ASSUME NEW t \in Tasks, NEW rerun \in BOOLEAN, Reject(t, rerun) PROVE  Honest'
  BY <1>1, <1>19
  DEF Reject, Vote, Requeue, TypeOK, Budget, Waves, Gathered, BuildsOnSuccess, Honest,
      Over, Calm, Agree, EndIsHonest, book, work, redo
<1>20. CASE UNCHANGED vars
  BY <1>1, <1>20
  DEF TypeOK, Budget, Waves, Gathered, BuildsOnSuccess, Honest, Over, Calm, Agree,
      EndIsHonest, vars, book, work, redo, hist
<1>21. QED
  BY <1>1, <1>2, <1>3, <1>4, <1>5, <1>6, <1>7, <1>8, <1>9, <1>10, <1>11, <1>12, <1>13, <1>14, <1>15, <1>16, <1>17, <1>18, <1>19, <1>20
  DEF Next, LoopTurn, Desk, TaskStep, Redo

\* A plan that ends completed has only successes, one that ends partial has some
\* and not only: for plans without rework, which changes the statuses of tasks
\* behind the loop's back.
THEOREM EndsHonestly == Spec => []EndIsHonest
<1>1. Init => Honest
  BY DEF Init, Honest, Over, Calm, Agree, EndIsHonest
<1>2. Honest => EndIsHonest
  BY DEF Honest
<1>3. QED
  BY <1>1, <1>2, TypeCorrect, WavesBuildOnSuccess, StepHonest, PTL DEF Spec
-----------------------------------------------------------------------------
(* Skips.                                                                  *)

\* A task that the loop is not through with has failed only by a verdict, while
\* the loop of a gated plan waited.
ByVerdict == \A d \in Tasks : result[d] = "failed" => d \in executed \/ gated

\* The failure a task was skipped behind is one that no wave overwrites: the
\* loop is through with it, or has ended.
Behind ==
  \A t \in executed : status[t] = "skipped" =>
    \E d \in Deps[t] : result[d] = "failed" /\ (d \in executed \/ loop = "off")

\* Of the statuses, none becomes "skipped" but by Skip.
LEMMA SkippedFrame ==
  ASSUME TypeOK, ByVerdict, Behind, UNCHANGED <<executed, result, gated>>,
         loop' \in {loop, "off"} \/ loop # "off",
         \A t \in Tasks : status'[t] = "skipped" => status[t] = "skipped"
  PROVE  ByVerdict' /\ Behind'
BY DEF TypeOK, ByVerdict, Behind

\* A gated plan that skips has nothing left that is ready: it ends in this turn.
LEMMA GatedSkipEnds ==
  ASSUME TypeOK, Skip, gated
  PROVE  loop' = "off"
<1>1. \A t \in Tasks : GatedAcc[t] = acc[t]
  BY DEF GatedAcc, AtGate, TypeOK
<1>2. Still = {}
  <2>1. SUFFICES ASSUME NEW t \in Still PROVE FALSE
    OBVIOUS
  <2>2. t \in Tasks \ executed /\ Deps[t] \subseteq Tasks
        /\ \A d \in Deps[t] : d \in executed /\ ~Failed(d)
    BY <2>1 DEF Still
  <2>3. PICK d \in Deps[t] : Awaiting(acc, d)
    BY <2>2 DEF Skip, Ready
  <2>4. Awaiting(GatedAcc, d)
    BY <1>1, <2>2, <2>3 DEF Awaiting
  <2>5. QED
    BY <2>2, <2>4 DEF Skip, Patient
<1>3. QED
  BY <1>2 DEF Skip

LEMMA StepSkips ==
  TypeOK /\ Waves /\ ByVerdict /\ Behind /\ [Next]_vars => ByVerdict' /\ Behind'
<1>1. SUFFICES ASSUME TypeOK, Waves, ByVerdict, Behind, [Next]_vars PROVE ByVerdict' /\ Behind'
  OBVIOUS
<1>2. CASE Start
  BY <1>2 DEF Start, ByVerdict, Behind
<1>3. CASE Launch
  <2>1. loop = "think" /\ UNCHANGED <<executed, result, status>> /\ (gated => gated')
    BY <1>3 DEF Launch, Turn
  <2>2. QED
    BY <1>1, <2>1 DEF ByVerdict, Behind, TypeOK
<1>4. CASE Wait
  <2>1. gated' /\ loop = "think" /\ UNCHANGED executed
    BY <1>1, <1>4 DEF Wait, Turn, Patient, TypeOK
  <2>2. \A t \in Tasks : /\ status'[t] = "skipped" => status[t] = "skipped"
                         /\ result[t] = "failed" => result'[t] = "failed"
    BY <1>1, <1>4 DEF Wait, TypeOK
  <2>3. QED
    BY <1>1, <2>1, <2>2 DEF ByVerdict, Behind, TypeOK
<1>5. CASE Wake
  BY <1>1, <1>5, SkippedFrame DEF Wake
<1>6. CASE Skip
  <2>1. /\ loop = "think" /\ executed' = executed \cup Blocked /\ (gated => gated')
        /\ \A t \in Tasks : /\ status'[t] = IF t \in Blocked THEN "skipped" ELSE status[t]
                            /\ result'[t] = IF t \in Blocked THEN "failed" ELSE result[t]
    BY <1>1, <1>6 DEF Skip, Turn, TypeOK
  <2>2. ByVerdict'
    BY <1>1, <2>1 DEF ByVerdict
  <2>3. \A d \in Tasks : result[d] = "failed" => d \in executed \/ loop' = "off"
    BY <1>1, <1>6, GatedSkipEnds DEF ByVerdict
  <2>4. ASSUME NEW t \in executed', status'[t] = "skipped"
        PROVE  \E d \in Deps[t] : result[d] = "failed"
    <3>1. CASE t \in Blocked
      BY <3>1 DEF Blocked, Failed
    <3>2. CASE t \notin Blocked
      BY <1>1, <2>1, <2>4, <3>2 DEF Behind, TypeOK
    <3>3. QED
      BY <3>1, <3>2
  <2>5. executed' \subseteq Tasks
    BY <1>1, <2>1 DEF TypeOK, Blocked
  <2>6. Behind'
    BY <2>1, <2>3, <2>4, <2>5 DEF Behind
  <2>7. QED
    BY <2>2, <2>6
<1>7. CASE Stuck
  <2>1. loop' = "off" /\ UNCHANGED <<executed, result, status>> /\ (gated => gated')
    BY <1>7 DEF Stuck, Turn
  <2>2. QED
    BY <1>1, <2>1 DEF ByVerdict, Behind, TypeOK
<1>8. CASE Collect
  <2>1. /\ loop = "gather" /\ executed' = executed \cup wave /\ UNCHANGED gated
        /\ \A t \in Tasks \ wave : result'[t] = result[t] /\ status'[t] = status[t]
        /\ \A t \in wave : status'[t] # "skipped"
    BY <1>1, <1>8 DEF Collect, TypeOK
  <2>2. wave \cap executed = {} /\ wave \subseteq Tasks /\ executed \subseteq Tasks
    BY <1>1 DEF Waves, BuildsOnSuccess, TypeOK
  <2>3. ByVerdict'
    BY <1>1, <2>1, <2>2 DEF ByVerdict
  <2>4. Behind'
    BY <1>1, <2>1, <2>2 DEF Behind
  <2>5. QED
    BY <2>3, <2>4
<1>9. CASE Finish
  BY <1>1, <1>9, SkippedFrame DEF Finish
<1>10. ASSUME NEW t \in Tasks, TaskStep(t) PROVE ByVerdict' /\ Behind'
  <2>1. UNCHANGED book
    BY <1>10 DEF TaskStep, Acquire, Begin, Return, NoAgent
  <2>2. \A u \in Tasks : status'[u] = "skipped" => status[u] = "skipped"
    BY <1>1, <1>10 DEF TaskStep, Acquire, Begin, Return, NoAgent, TypeOK
  <2>3. QED
    BY <1>1, <2>1, <2>2, SkippedFrame DEF book
<1>11. ASSUME NEW t \in Tasks, Redo(t) PROVE ByVerdict' /\ Behind'
  <2>1. UNCHANGED book
    BY <1>11 DEF Redo, RedoBegin, RedoEnd
  <2>2. \A u \in Tasks : status'[u] = "skipped" => status[u] = "skipped"
    BY <1>1, <1>11 DEF Redo, RedoBegin, RedoEnd, TypeOK
  <2>3. QED
    BY <1>1, <2>1, <2>2, SkippedFrame DEF book
<1>12. ASSUME NEW t \in Tasks, NEW rerun \in BOOLEAN,
              RequestAcceptance(t) \/ Accept(t) \/ Reopen(t) \/ Reject(t, rerun)
       PROVE  ByVerdict' /\ Behind'
  <2>1. UNCHANGED book
    BY <1>12 DEF RequestAcceptance, Accept, Reopen, Reject
  <2>2. \A u \in Tasks : status'[u] = "skipped" => status[u] = "skipped"
    BY <1>1, <1>12 DEF RequestAcceptance, Accept, Reopen, Reject, TypeOK
  <2>3. QED
    BY <1>1, <2>1, <2>2, SkippedFrame DEF book
<1>13. CASE UNCHANGED vars
  BY <1>1, <1>13, SkippedFrame DEF vars, book
<1>14. QED
  BY <1>1, <1>2, <1>3, <1>4, <1>5, <1>6, <1>7, <1>8, <1>9, <1>10, <1>11, <1>12, <1>13
  DEF Next, LoopTurn, Desk

\* A task is skipped only behind a failure, and the failure stays one: a verdict
\* may fail a task that has not run and could run later, but a plan that skips
\* behind such a task ends in the same turn.
THEOREM SkippedBehindFailure == Spec => []SkipsBehindFailure
<1>1. Init => ByVerdict /\ Behind
  BY DEF Init, ByVerdict, Behind
<1>2. ByVerdict /\ Behind => SkipsBehindFailure
  BY DEF Behind, SkipsBehindFailure
<1>3. QED
  BY <1>1, <1>2, TypeCorrect, WavesBuildOnSuccess, StepSkips, PTL DEF Spec
=============================================================================
