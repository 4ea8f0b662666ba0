------------------------ MODULE TaskSubmissionProofs ------------------------
(***************************************************************************)
(* Proofs about TaskSubmission, for every bound: delegation ends, a busy   *)
(* agent has a run, and a task that ended leaves nothing behind.           *)
(*                                                                         *)
(* Every step is of one of six kinds: a new task, another run of a known   *)
(* task, a run that begins, one that never begins, one that finishes, and  *)
(* quiet steps, in which no run changes its place in the life of its task. *)
(***************************************************************************)
EXTENDS TaskSubmission, SequenceTheorems, TLAPS

\* Tasks and runs that were not created yet are nowhere.
Fresh ==
  /\ \A t \in Ids : t > used => /\ by[t] = 0 /\ depth[t] = 0 /\ handle[t] = 0
                                /\ ~Known(t) /\ t \notin entered
  /\ \A r \in Runs : /\ run[r].pc # "none" <=> r <= begun
                     /\ r <= begun => run[r].task \in 1..used

\* A handle is a run of its task.
Handles == \A t \in Ids : handle[t] # 0 => handle[t] <= begun /\ run[handle[t]].task = t

Base == TypeOK /\ Len(archive) <= ArchiveMax /\ Fresh /\ Handles

\* A task that began stays in _tasks until one of its runs finishes; from then on a
\* handle is of a run that nobody can cancel, and the task is in the archive, unless
\* that is full.
Leaves ==
  \A t \in 1..used :
    IF t \in live
    THEN t \in entered => \E r \in Runs : run[r].task = t /\ Inside(r)
    ELSE /\ handle[t] # 0 => Active(handle[t]) /\ ~run[handle[t]].cancel
         /\ Known(t) \/ Len(archive) = ArchiveMax

IInv == Base /\ DelegationEnds /\ BusyIsTrue /\ Leaves

-----------------------------------------------------------------------------
(* The kinds of steps.                                                      *)

\* No run begins or ends; only the handle of a task of _tasks is cancelled.
Quiet ==
  /\ UNCHANGED <<inputs, live, archive, handle, begun, current, entered>>
  /\ rejects' \in 0..MaxRejects
  /\ status' \in [Ids -> {"none", "pending", "running"} \cup Ended]
  /\ run' \in [Runs -> Run]
  /\ \A r \in Runs :
       /\ run'[r].task = run[r].task
       /\ run'[r].pc \in {"exec", "wait"} <=> run[r].pc \in {"exec", "wait"}
       /\ run'[r].pc = "ready" <=> run[r].pc = "ready"
       /\ run'[r].pc = "none" <=> run[r].pc = "none"
       /\ run'[r].cancel => run[r].cancel \/ \E t \in live : handle[t] = r

\* A run of t is created, which becomes its handle.
Another(t) ==
  /\ begun < MaxRuns /\ begun' = begun + 1
  /\ handle' = [handle EXCEPT ![t] = begun + 1]
  /\ run' \in [Runs -> Run]
  /\ run'[begun + 1] = RunOf(t, "ready")
  /\ \A r \in Runs \ {begun + 1} :
       /\ run'[r].task = run[r].task
       /\ run'[r].pc \in {"exec", "wait"} <=> run[r].pc \in {"exec", "wait"}
       /\ run'[r].pc = "ready" <=> run[r].pc = "ready"
       /\ run'[r].pc = "none" <=> run[r].pc = "none"
       /\ run'[r].cancel = run[r].cancel
  /\ UNCHANGED <<archive, current, entered>>

Again(t) ==
  /\ Another(t) /\ Known(t)
  /\ rejects' \in 0..MaxRejects
  /\ status' \in [Ids -> {"none", "pending", "running"} \cup Ended]
  /\ UNCHANGED <<inputs, live>>

New(s, d, t) ==
  /\ used < MaxTasks /\ used' = used + 1
  /\ s \in AllShapes /\ d \in Nat /\ t \in 0..MaxTasks
  /\ shape' = [shape EXCEPT ![used + 1] = s]
  /\ depth' = [depth EXCEPT ![used + 1] = d]
  /\ by' = [by EXCEPT ![used + 1] = t]
  /\ status' = [status EXCEPT ![used + 1] = "pending"]
  /\ live' = live \cup {used + 1}
  /\ Another(used + 1) /\ UNCHANGED rejects

Ends(r) == \E s \in Ended : Inside(r) /\ Finish(r, s)

Step ==
  \/ Quiet
  \/ \E t \in Ids : Again(t)
  \/ \E s \in AllShapes : New(s, 0, 0)
  \/ \E r \in Runs : LET t == run[r].task IN
       /\ run[r].pc = "exec" /\ shape[t] = "prompt" /\ ~TooDeep(t) /\ New("prompt", depth[t] + 1, t)
  \/ \E r \in Runs : Begin(r) \/ Never(r) \/ Ends(r)

\* What cancelling a run leaves alone.
LEMMA SetCancel ==
  ASSUME NEW R \in Run, NEW b \in BOOLEAN
  PROVE  /\ [R EXCEPT !.cancel = b] \in Run
         /\ [R EXCEPT !.cancel = b].task = R.task /\ [R EXCEPT !.cancel = b].pc = R.pc
         /\ [R EXCEPT !.cancel = b].cancel = b
BY DEF Run

LEMMA AskedQuiet ==
  ASSUME Base, NEW t \in live, NEW R \in [Runs -> Run],
         \A r \in Runs : /\ R[r].task = run[r].task /\ R[r].cancel = run[r].cancel
                         /\ R[r].pc \in {"exec", "wait"} <=> run[r].pc \in {"exec", "wait"}
                         /\ R[r].pc = "ready" <=> run[r].pc = "ready"
                         /\ R[r].pc = "none" <=> run[r].pc = "none",
         run' = Asked(t, R), status' = [status EXCEPT ![t] = "cancelled"],
         UNCHANGED <<inputs, live, archive, handle, begun, current, entered, rejects>>
  PROVE  Quiet
<1> DEFINE C(r) == R[r].cancel \/ (r = handle[t] /\ Active(r))
<1>1. \A r \in Runs : C(r) \in BOOLEAN /\ run'[r] = [R[r] EXCEPT !.cancel = C(r)]
  BY DEF Asked, Active, Inside
<1>2. ASSUME NEW r \in Runs
      PROVE  /\ run'[r] \in Run
             /\ run'[r].task = R[r].task /\ run'[r].pc = R[r].pc
             /\ run'[r].cancel => R[r].cancel \/ handle[t] = r
  <2>1. PICK b \in BOOLEAN : /\ run'[r] = [R[r] EXCEPT !.cancel = b]
                             /\ b => R[r].cancel \/ handle[t] = r
    BY <1>1
  <2> QED
    BY <2>1, SetCancel
<1>3. run' \in [Runs -> Run]
  BY <1>2 DEF Asked
<1>4. status' \in [Ids -> {"none", "pending", "running"} \cup Ended] /\ rejects' \in 0..MaxRejects
  BY DEF Base, TypeOK, Ended
<1> QED
  BY <1>2, <1>3, <1>4 DEF Quiet

LEMMA LaunchAnother ==
  ASSUME Base, NEW t \in Ids, NEW R \in [Runs -> Run],
         \A r \in Runs : /\ R[r].task = run[r].task /\ R[r].cancel = run[r].cancel
                         /\ R[r].pc \in {"exec", "wait"} <=> run[r].pc \in {"exec", "wait"}
                         /\ R[r].pc = "ready" <=> run[r].pc = "ready"
                         /\ R[r].pc = "none" <=> run[r].pc = "none",
         Launch(t, R), UNCHANGED <<archive, current, entered>>
  PROVE  Another(t)
<1>1. begun + 1 \in Runs /\ RunOf(t, "ready") \in Run
  <2>1. begun + 1 \in Runs
    BY SubmissionAssumption DEF Launch, Base, TypeOK, Runs
  <2>2. t \in 0..MaxTasks /\ 0 \in 0..MaxRuns
    BY SubmissionAssumption DEF Ids
  <2> QED
    BY <2>1, <2>2 DEF Run, RunOf
<1>2. run' \in [Runs -> Run] /\ run'[begun + 1] = RunOf(t, "ready")
      /\ \A r \in Runs \ {begun + 1} : run'[r] = R[r]
  BY <1>1 DEF Launch
<1> QED
  BY <1>2 DEF Launch, Another

LEMMA NextIsStep == Base /\ [Next]_vars => Step
<1> SUFFICES ASSUME Base, [Next]_vars PROVE Step
  OBVIOUS
<1> USE SubmissionAssumption DEF Base
<1>0. run \in [Runs -> Run] /\ \A r \in Runs : run[r] \in Run
  BY DEF TypeOK
<1>1. ASSUME NEW s \in Shapes, Submit(s) PROVE New(s, 0, 0)
  <2>1. used + 1 \in Ids
    BY <1>1 DEF Submit, NewTask, TypeOK, Ids
  <2> QED
    BY <1>0, <1>1, <2>1, LaunchAnother DEF Submit, NewTask, New
<1>2. ASSUME NEW t \in Ids, Reopen(t) PROVE Again(t)
  BY <1>0, <1>2, LaunchAnother DEF Reopen, Again, TypeOK
<1>3. ASSUME NEW t \in Ids, Reject(t) PROVE Step
  <2>1. /\ status' \in [Ids -> {"none", "pending", "running"} \cup Ended]
        /\ rejects' \in 0..MaxRejects
    BY <1>3 DEF Reject, TypeOK
  <2>2. CASE Launch(t, run)
    BY <1>0, <1>3, <2>1, <2>2, LaunchAnother DEF Reject, Again, Step
  <2>3. CASE UNCHANGED <<begun, run, handle>>
    BY <1>0, <1>3, <2>1, <2>3 DEF Reject, Quiet, Step
  <2> QED
    BY <1>3, <2>2, <2>3 DEF Reject
<1>4. ASSUME NEW t \in Ids, Cancel(t) PROVE Quiet
  BY <1>0, <1>4, AskedQuiet DEF Cancel, Cancellable
<1>5. ASSUME NEW r \in Runs, Return(r) PROVE Quiet
  <2>1. PICK ret \in {"completed", "failed"} : run' = [run EXCEPT ![r].ret = ret]
    BY <1>5 DEF Return
  <2>2. run' \in [Runs -> Run] /\ \A x \in Runs : /\ run'[x].task = run[x].task
                                                  /\ run'[x].pc = run[x].pc
                                                  /\ run'[x].cancel = run[x].cancel
    BY <1>0, <2>1 DEF Run
  <2> QED
    BY <1>5, <2>2 DEF Return, Quiet, TypeOK
<1>6. ASSUME NEW r \in Runs, Resume(r) PROVE Ends(r)
  <2>1. run[r].ret \in Ended
    BY <1>0, <1>6 DEF Resume, Run, Ended
  <2> QED
    BY <1>6, <2>1 DEF Resume, Ends, Inside
<1>7. ASSUME NEW r \in Runs, Interrupt(r) PROVE Ends(r)
  BY <1>7 DEF Interrupt, Ends, Ended
<1>8. ASSUME NEW r \in Runs, Expire(r) PROVE Ends(r)
  BY <1>8 DEF Expire, Ends, Ended
<1>9. ASSUME NEW r \in Runs, Delegate(r) PROVE Step
  <2> DEFINE t == run[r].task
  <2>1. CASE TooDeep(t) /\ run' = [run EXCEPT ![r].ret = "failed"]
               /\ UNCHANGED <<inputs, status, live, handle, begun>>
    <3>1. run' \in [Runs -> Run] /\ \A x \in Runs : /\ run'[x].task = run[x].task
                                                    /\ run'[x].pc = run[x].pc
                                                    /\ run'[x].cancel = run[x].cancel
      BY <1>0, <2>1 DEF Run
    <3> QED
      BY <1>9, <2>1, <3>1 DEF Delegate, Quiet, TypeOK, Step
  <2>2. CASE ~TooDeep(t) /\ NewTask("prompt", Deeper(t), t,
                   [run EXCEPT ![r].pc = "wait", ![r].child = begun + 1])
    <3> DEFINE R == [run EXCEPT ![r].pc = "wait", ![r].child = begun + 1]
    <3>0. run[r].pc = "exec" /\ shape[t] = "prompt" /\ r <= begun /\ t \in Ids /\ t \in 1..used
      BY <1>9 DEF Delegate, Fresh, TypeOK, Runs, Ids
    <3>1. begun + 1 \in 0..MaxRuns /\ used + 1 \in Ids
      BY <2>2 DEF NewTask, Launch, TypeOK, Ids
    <3>2. R \in [Runs -> Run]
      BY <1>0, <3>1 DEF Run
    <3>3. \A x \in Runs : /\ R[x].task = run[x].task /\ R[x].cancel = run[x].cancel
                          /\ R[x].pc = IF x = r THEN "wait" ELSE run[x].pc
      BY <1>0, <3>1 DEF Run
    <3>4. Launch(used + 1, R) /\ UNCHANGED <<archive, current, entered>>
      BY <1>9, <2>2 DEF NewTask, Delegate
    <3>5. Another(used + 1)
      <4>1. \A x \in Runs : /\ R[x].task = run[x].task /\ R[x].cancel = run[x].cancel
                            /\ R[x].pc \in {"exec", "wait"} <=> run[x].pc \in {"exec", "wait"}
                            /\ R[x].pc = "ready" <=> run[x].pc = "ready"
                            /\ R[x].pc = "none" <=> run[x].pc = "none"
        <5> HIDE DEF R
        <5> QED
          BY <3>0, <3>3
      <4> HIDE DEF R
      <4> QED
        BY <3>1, <3>2, <3>4, <4>1, LaunchAnother
    <3>6. depth[t] + 1 \in Nat /\ t \in 0..MaxTasks
      <4>1. depth \in [Ids -> Nat]
        BY DEF TypeOK
      <4> QED
        BY <3>0, <4>1 DEF Ids
    <3>7. New("prompt", depth[t] + 1, t)
      BY <1>9, <2>2, <3>5, <3>6 DEF NewTask, Delegate, Deeper, New, AllShapes
    <3> QED
      BY <2>2, <3>0, <3>7 DEF Step
  <2> QED
    BY <1>9, <2>1, <2>2 DEF Delegate
<1>10. ASSUME NEW r \in Runs, Wake(r) PROVE Quiet
  <2>1. PICK ret \in {"completed", "failed"} :
          run' = [run EXCEPT ![r].pc = "exec", ![r].ret = ret]
    BY <1>10 DEF Wake
  <2>2. run' \in [Runs -> Run] /\ \A x \in Runs : /\ run'[x].task = run[x].task
                                                  /\ run'[x].pc = IF x = r THEN "exec" ELSE run[x].pc
                                                  /\ run'[x].cancel = run[x].cancel
    <3>1. \A x \in Runs : run'[x] = IF x = r THEN [run[r] EXCEPT !.pc = "exec", !.ret = ret]
                                             ELSE run[x]
      BY <1>0, <2>1
    <3>2. run' = [x \in Runs |-> run'[x]]
      BY <1>0, <2>1
    <3>3. ASSUME NEW x \in Runs
          PROVE  /\ run'[x] \in Run /\ run'[x].task = run[x].task
                 /\ run'[x].pc = IF x = r THEN "exec" ELSE run[x].pc
                 /\ run'[x].cancel = run[x].cancel
      <4>1. CASE x = r
        BY <1>0, <3>1, <4>1 DEF Run
      <4>2. CASE x # r
        BY <1>0, <3>1, <4>2
      <4> QED
        BY <4>1, <4>2
    <3> QED
      BY <3>2, <3>3
  <2> QED
    BY <1>10, <2>2 DEF Wake, Quiet, TypeOK
<1>11. ASSUME NEW r \in Runs, GiveUp(r) PROVE Quiet
  <2> DEFINE mine == [run EXCEPT ![r].pc = "exec", ![r].ret = "failed"]
  <2>1. mine \in [Runs -> Run] /\ \A x \in Runs : /\ mine[x].task = run[x].task
                                                  /\ mine[x].pc = IF x = r THEN "exec" ELSE run[x].pc
                                                  /\ mine[x].cancel = run[x].cancel
    <3>1. \A x \in Runs : mine[x] = IF x = r THEN [run[r] EXCEPT !.pc = "exec", !.ret = "failed"]
                                             ELSE run[x]
      BY <1>0
    <3>2. mine = [x \in Runs |-> mine[x]]
      BY <1>0
    <3> HIDE DEF mine
    <3>3. ASSUME NEW x \in Runs
          PROVE  /\ mine[x] \in Run /\ mine[x].task = run[x].task
                 /\ mine[x].pc = IF x = r THEN "exec" ELSE run[x].pc
                 /\ mine[x].cancel = run[x].cancel
      <4>1. CASE x = r
        BY <1>0, <3>1, <4>1 DEF Run
      <4>2. CASE x # r
        BY <1>0, <3>1, <4>2
      <4> QED
        BY <4>1, <4>2
    <3> QED
      BY <3>2, <3>3
  <2>2. run[r].pc = "wait"
    BY <1>11 DEF GiveUp
  <2>3. \A x \in Runs : /\ mine[x].task = run[x].task /\ mine[x].cancel = run[x].cancel
                        /\ mine[x].pc \in {"exec", "wait"} <=> run[x].pc \in {"exec", "wait"}
                        /\ mine[x].pc = "ready" <=> run[x].pc = "ready"
                        /\ mine[x].pc = "none" <=> run[x].pc = "none"
    <3> HIDE DEF mine
    <3> QED
      BY <2>1, <2>2
  <2>4. CASE Cancellable(Child(r))
    <3>1. /\ run' = Asked(Child(r), mine) /\ status' = [status EXCEPT ![Child(r)] = "cancelled"]
          /\ UNCHANGED <<inputs, live, archive, handle, begun, current, entered, rejects>>
          /\ Child(r) \in live
      BY <1>11, <2>4 DEF GiveUp, Cancellable
    <3> HIDE DEF mine
    <3> QED
      BY <2>1, <2>3, <3>1, AskedQuiet
  <2>5. CASE ~Cancellable(Child(r))
    <3>1. /\ run' = mine
          /\ UNCHANGED <<inputs, status, live, archive, handle, begun, current, entered, rejects>>
      BY <1>11, <2>5 DEF GiveUp
    <3> HIDE DEF mine
    <3> QED
      BY <2>1, <2>3, <3>1 DEF Quiet, TypeOK
  <2> QED
    BY <2>4, <2>5
<1>12. CASE UNCHANGED vars
  BY <1>0, <1>12 DEF vars, inputs, Quiet, TypeOK, Step
<1> QED
  BY <1>1, <1>2, <1>3, <1>4, <1>5, <1>6, <1>7, <1>8, <1>9, <1>10, <1>11, <1>12
     DEF Next, Due, Step

-----------------------------------------------------------------------------
(* The archive, and the base of the invariant.                              *)

LEMMA ArchivedKeeps ==
  ASSUME Base, NEW t \in Ids
  PROVE  /\ Archived(t) \in Seq(Ids)
         /\ Len(Archived(t)) <= ArchiveMax
         /\ \E i \in DOMAIN Archived(t) : Archived(t)[i] = t
         /\ Len(archive) = ArchiveMax => Len(Archived(t)) = ArchiveMax
         /\ \A i \in DOMAIN archive :
              \/ Len(Archived(t)) = ArchiveMax
              \/ \E j \in DOMAIN Archived(t) : Archived(t)[j] = archive[i]
         /\ \A j \in DOMAIN Archived(t) :
              Archived(t)[j] = t \/ \E i \in DOMAIN archive : archive[i] = Archived(t)[j]
<1>0. archive \in Seq(Ids) /\ ArchiveMax \in Nat \ {0} /\ Len(archive) \in Nat
  BY SubmissionAssumption DEF Base, TypeOK
<1>1. CASE Places(t) = {}
  <2>1. Without(t) = archive
    BY <1>1 DEF Without
  <2>2. CASE Len(archive) < ArchiveMax
    <3>1. Archived(t) = Append(archive, t)
      BY <1>0, <2>1, <2>2 DEF Archived
    <3> QED
      BY <1>0, <2>2, <3>1
  <2>3. CASE Len(archive) = ArchiveMax
    <3>1. Archived(t) = Tail(Append(archive, t))
      BY <1>0, <2>1, <2>3 DEF Archived
    <3>2. Len(Archived(t)) = ArchiveMax /\ Archived(t) \in Seq(Ids)
      BY <1>0, <2>3, <3>1
    <3>3. \A j \in 1..ArchiveMax : Archived(t)[j] = Append(archive, t)[j + 1]
      BY <1>0, <2>3, <3>1
    <3>4. Archived(t)[ArchiveMax] = t
      BY <1>0, <2>3, <3>3
    <3>5. \A j \in 1..ArchiveMax : j < ArchiveMax => Archived(t)[j] = archive[j + 1]
      BY <1>0, <2>3, <3>3
    <3> QED
      BY <1>0, <2>3, <3>2, <3>4, <3>5
  <2> QED
    BY <1>0, <2>2, <2>3 DEF Base
<1>2. CASE Places(t) # {}
  <2> DEFINE p == CHOOSE i \in Places(t) : TRUE
  <2>1. p \in 1..Len(archive) /\ archive[p] = t
    BY <1>0, <1>2 DEF Places
  <2>2. Without(t) = SubSeq(archive, 1, p - 1) \o SubSeq(archive, p + 1, Len(archive))
    BY <1>2 DEF Without, RemoveAt
  <2> HIDE DEF p
  <2>3. /\ Without(t) \in Seq(Ids) /\ Len(Without(t)) = Len(archive) - 1
        /\ \A i \in 1..Len(archive) - 1 :
             Without(t)[i] = IF i < p THEN archive[i] ELSE archive[i + 1]
    <3> DEFINE a == SubSeq(archive, 1, p - 1)
               b == SubSeq(archive, p + 1, Len(archive))
    <3>1. /\ a \in Seq(Ids) /\ Len(a) = p - 1
          /\ \A i \in 1..p - 1 : a[i] = archive[i]
      BY <1>0, <2>1
    <3>2. /\ b \in Seq(Ids) /\ Len(b) = Len(archive) - p
          /\ \A i \in 1..Len(archive) - p : b[i] = archive[p + i]
      BY <1>0, <2>1
    <3> HIDE DEF a, b
    <3>3. /\ a \o b \in Seq(Ids) /\ Len(a \o b) = Len(archive) - 1
          /\ \A i \in 1..Len(archive) - 1 :
               (a \o b)[i] = IF i < p THEN a[i] ELSE b[i - (p - 1)]
      <4>1. /\ a \o b \in Seq(Ids) /\ Len(a \o b) = Len(a) + Len(b)
            /\ \A i \in 1..Len(a) + Len(b) :
                 (a \o b)[i] = IF i <= Len(a) THEN a[i] ELSE b[i - Len(a)]
        BY <3>1, <3>2, ConcatProperties
      <4>2. Len(a) + Len(b) = Len(archive) - 1
        BY <1>0, <2>1, <3>1, <3>2
      <4>3. \A i \in 1..Len(archive) - 1 : i <= Len(a) <=> i < p
        BY <1>0, <2>1, <3>1
      <4> QED
        BY <3>1, <4>1, <4>2, <4>3
    <3>4. \A i \in 1..Len(archive) - 1 :
            (a \o b)[i] = IF i < p THEN archive[i] ELSE archive[i + 1]
      <4> TAKE i \in 1..Len(archive) - 1
      <4>1. CASE i < p
        BY <1>0, <2>1, <3>1, <3>3, <4>1
      <4>2. CASE ~(i < p)
        <5>1. i - (p - 1) \in 1..Len(archive) - p /\ p + (i - (p - 1)) = i + 1
          BY <1>0, <2>1, <4>2
        <5> QED
          BY <3>2, <3>3, <4>2, <5>1
      <4> QED
        BY <4>1, <4>2
    <3> QED
      BY <2>2, <3>3, <3>4 DEF a, b
  <2>4. Archived(t) = Append(Without(t), t)
    BY <1>0, <2>3 DEF Archived, Base
  <2>5. /\ Archived(t) \in Seq(Ids) /\ Len(Archived(t)) = Len(archive)
        /\ Archived(t)[Len(archive)] = t
        /\ \A i \in 1..Len(archive) - 1 :
             Archived(t)[i] = IF i < p THEN archive[i] ELSE archive[i + 1]
    BY <1>0, <2>3, <2>4
  <2>6. \A i \in 1..Len(archive) :
          \E j \in 1..Len(archive) : Archived(t)[j] = archive[i]
    <3> TAKE i \in 1..Len(archive)
    <3>1. CASE i < p
      BY <1>0, <2>1, <2>5, <3>1
    <3>2. CASE i = p
      BY <1>0, <2>1, <2>5, <3>2
    <3>3. CASE i > p
      <4>1. /\ i - 1 \in 1..Len(archive) - 1 /\ ~(i - 1 < p) /\ i - 1 + 1 = i
            /\ i - 1 \in 1..Len(archive)
        BY <1>0, <2>1, <3>3
      <4>2. Archived(t)[i - 1] = archive[i - 1 + 1]
        BY <2>5, <4>1
      <4> QED
        BY <4>1, <4>2
    <3> QED
      BY <1>0, <2>1, <3>1, <3>2, <3>3
  <2>7. \A j \in 1..Len(archive) :
          \E i \in 1..Len(archive) : archive[i] = Archived(t)[j]
    BY <1>0, <2>1, <2>5
  <2>8. DOMAIN archive = 1..Len(archive) /\ DOMAIN Archived(t) = 1..Len(archive)
    BY <1>0, <2>5
  <2>9. Len(archive) \in 1..Len(archive)
    BY <1>0, <2>1
  <2> QED
    BY <2>5, <2>6, <2>7, <2>8, <2>9 DEF Base
<1> QED
  BY <1>1, <1>2

LEMMA AgentType == ASSUME Base, NEW t \in Ids PROVE Agent(t) \in Agents
<1>1. shape[t] \in AllShapes
  BY DEF Base, TypeOK
<1> QED
  BY <1>1 DEF Agent, Agents, AllShapes

LEMMA InitBase == Init => Base
<1> SUFFICES ASSUME Init PROVE Base
  OBVIOUS
<1> USE SubmissionAssumption DEF Init
<1>1. RunOf(0, "none") \in Run /\ RunOf(0, "none").pc = "none"
  BY DEF RunOf, Run
<1>2. TypeOK
  BY <1>1 DEF TypeOK, AllShapes, Agents
<1>3. Fresh /\ Handles
  BY <1>1 DEF Fresh, Handles, Runs, Known, Places
<1> QED
  BY <1>2, <1>3 DEF Base

LEMMA QuietBase == Base /\ Quiet => Base'
<1> SUFFICES ASSUME Base, Quiet PROVE Base'
  OBVIOUS
<1>1. TypeOK'
  BY DEF Base, TypeOK, Quiet, inputs
<1>2. Fresh'
  BY DEF Base, Fresh, Quiet, inputs, Known, Places
<1>3. Handles'
  <2>1. handle \in [Ids -> 0..MaxRuns] /\ handle' = handle /\ MaxRuns \in Nat
    BY SubmissionAssumption DEF Base, TypeOK, Quiet
  <2> QED
    BY <2>1 DEF Base, Handles, Quiet, Runs
<1> QED
  BY <1>1, <1>2, <1>3 DEF Base, Quiet

\* What another run of t changes.
LEMMA AnotherFacts ==
  ASSUME Base, NEW t \in Ids, Another(t)
  PROVE  /\ begun + 1 \in Runs /\ begun' \in 0..MaxRuns
         /\ run'[begun + 1].task = t /\ run'[begun + 1].pc = "ready" /\ ~run'[begun + 1].cancel
         /\ handle' \in [Ids -> 0..MaxRuns] /\ handle'[t] = begun + 1
         /\ \A u \in Ids \ {t} : handle'[u] = handle[u]
         /\ Handles'
<1>1. begun + 1 \in Runs /\ begun' \in 0..MaxRuns /\ begun' = begun + 1 /\ begun \in Nat
  BY SubmissionAssumption DEF Another, Base, TypeOK, Runs
<1>2. run'[begun + 1] = RunOf(t, "ready")
  BY DEF Another
<1>3. /\ run'[begun + 1].task = t /\ run'[begun + 1].pc = "ready" /\ ~run'[begun + 1].cancel
  BY <1>2 DEF RunOf
<1>4. /\ handle \in [Ids -> 0..MaxRuns] /\ handle' \in [Ids -> 0..MaxRuns]
      /\ handle'[t] = begun + 1 /\ \A u \in Ids \ {t} : handle'[u] = handle[u]
  BY <1>1 DEF Another, Base, TypeOK, Runs
<1>5. \A u \in Ids : handle'[u] # 0 => handle'[u] <= begun' /\ run'[handle'[u]].task = u
  <2> TAKE u \in Ids
  <2>1. CASE u = t
    BY <1>1, <1>3, <1>4, <2>1
  <2>2. CASE u # t
    <3>1. handle'[u] # 0 => handle[u] \in Runs \ {begun + 1}
      BY <1>1, <1>4, <2>2 DEF Base, Handles, Runs
    <3> QED
      BY <1>1, <1>4, <2>2, <3>1 DEF Base, Handles, Another, Runs
  <2> QED
    BY <2>1, <2>2
<1> QED
  BY <1>1, <1>3, <1>4, <1>5 DEF Handles

LEMMA AgainBase == ASSUME Base, NEW t \in Ids, Again(t) PROVE Base' /\ t \in 1..used
<1> USE DEF Again
<1>0. t \in 1..used
  BY DEF Base, Fresh, TypeOK, Ids
<1>1. TypeOK'
  BY AnotherFacts DEF Base, TypeOK, Another, inputs
<1>2. Fresh'
  <2>1. ASSUME NEW u \in Ids, u > used'
        PROVE  by'[u] = 0 /\ depth'[u] = 0 /\ handle'[u] = 0 /\ ~Known(u)' /\ u \notin entered'
    BY <1>0, <2>1, AnotherFacts DEF Base, Fresh, Another, inputs, Known, Places
  <2>2. ASSUME NEW r \in Runs
        PROVE  /\ run'[r].pc # "none" <=> r <= begun'
               /\ r <= begun' => run'[r].task \in 1..used'
    <3>0. begun' = begun + 1 /\ used' = used /\ begun \in Nat /\ r \in Nat
      BY SubmissionAssumption DEF Another, inputs, Base, TypeOK, Runs
    <3>1. CASE r = begun + 1
      BY <1>0, <3>0, <3>1, AnotherFacts
    <3>2. CASE r # begun + 1
      BY <3>0, <3>2 DEF Base, Fresh, Another
    <3> QED
      BY <3>1, <3>2
  <2> QED
    BY <2>1, <2>2 DEF Fresh
<1>3. Len(archive') <= ArchiveMax /\ Handles'
  BY AnotherFacts DEF Base, Another
<1> QED
  BY <1>0, <1>1, <1>2, <1>3 DEF Base

LEMMA NewFacts ==
  ASSUME Base, NEW s, NEW d, NEW t, New(s, d, t)
  PROVE  /\ used + 1 \in Ids /\ used' \in 0..MaxTasks /\ used \in Nat
         /\ shape' \in [Ids -> AllShapes] /\ depth' \in [Ids -> Nat] /\ by' \in [Ids -> 0..MaxTasks]
         /\ shape'[used + 1] = s /\ depth'[used + 1] = d /\ by'[used + 1] = t
         /\ \A u \in Ids \ {used + 1} :
              shape'[u] = shape[u] /\ depth'[u] = depth[u] /\ by'[u] = by[u]
BY SubmissionAssumption DEF New, Base, TypeOK, Ids

LEMMA NewBase == ASSUME Base, NEW s, NEW d, NEW t, New(s, d, t) PROVE Base'
<1>1. TypeOK'
  <2>1. live' \subseteq Ids /\ status' \in [Ids -> {"none", "pending", "running"} \cup Ended]
    BY NewFacts DEF New, Base, TypeOK
  <2> QED
    BY <2>1, NewFacts, AnotherFacts DEF New, Another, Base, TypeOK
<1>2. Fresh'
  <2>1. ASSUME NEW u \in Ids, u > used'
        PROVE  by'[u] = 0 /\ depth'[u] = 0 /\ handle'[u] = 0 /\ ~Known(u)' /\ u \notin entered'
    <3>1. u > used /\ u # used + 1
      <4>1. used' = used + 1
        BY DEF New
      <4>2. used \in Nat
        BY SubmissionAssumption DEF Base, TypeOK
      <4>3. u \in Nat
        BY SubmissionAssumption DEF Ids
      <4> QED
        BY <2>1, <4>1, <4>2, <4>3
    <3> QED
      BY <3>1, NewFacts, AnotherFacts DEF Base, Fresh, New, Another, Known, Places
  <2>2. ASSUME NEW r \in Runs
        PROVE  /\ run'[r].pc # "none" <=> r <= begun'
               /\ r <= begun' => run'[r].task \in 1..used'
    <3>0. /\ begun' = begun + 1 /\ used' = used + 1 /\ used \in Nat
          /\ begun \in Nat /\ r \in Nat
      BY SubmissionAssumption, NewFacts DEF New, Another, Base, TypeOK, Runs
    <3>1. CASE r = begun + 1
      <4>1. used + 1 \in Ids /\ Another(used + 1)
        BY NewFacts DEF New
      <4>2. run'[r].task = used + 1 /\ run'[r].pc = "ready"
        BY <3>1, <4>1, AnotherFacts
      <4> QED
        BY <3>0, <3>1, <4>2
    <3>2. CASE r # begun + 1
      BY <3>0, <3>2 DEF Base, Fresh, New, Another
    <3> QED
      BY <3>1, <3>2
  <2> QED
    BY <2>1, <2>2 DEF Fresh
<1>3. Len(archive') <= ArchiveMax /\ Handles'
  BY NewFacts, AnotherFacts DEF Base, New, Another
<1> QED
  BY <1>1, <1>2, <1>3 DEF Base

\* What a step of run r from one place to another changes.
LEMMA MoveFacts ==
  ASSUME Base, NEW r \in Runs, NEW p \in {"exec", "done"}, run' = [run EXCEPT ![r].pc = p]
  PROVE  /\ run' \in [Runs -> Run]
         /\ run'[r].pc = p /\ \A x \in Runs \ {r} : run'[x] = run[x]
         /\ \A x \in Runs : run'[x].task = run[x].task /\ run'[x].cancel = run[x].cancel
<1>1. run \in [Runs -> Run]
  BY DEF Base, TypeOK
<1>2. run'[r] = [run[r] EXCEPT !.pc = p] /\ \A x \in Runs \ {r} : run'[x] = run[x]
  BY <1>1
<1>3. run'[r] \in Run /\ run'[r].pc = p /\ run'[r].task = run[r].task
      /\ run'[r].cancel = run[r].cancel
  BY <1>1, <1>2 DEF Run
<1> QED
  BY <1>1, <1>2, <1>3

LEMMA TaskOfRun == ASSUME Base, NEW r \in Runs, run[r].pc # "none"
                   PROVE  run[r].task \in Ids /\ run[r].task \in 1..used /\ r <= begun
BY SubmissionAssumption DEF Base, Fresh, TypeOK, Ids

\* The base, when run r moves on, its task may lose its handle, and leave _tasks for
\* the archive.
LEMMA MoveBase ==
  ASSUME Base, NEW r \in Runs, run[r].pc # "none", run'[r].pc # "none",
         run' \in [Runs -> Run],
         \A x \in Runs \ {r} : run'[x] = run[x],
         \A x \in Runs : run'[x].task = run[x].task,
         UNCHANGED <<inputs, begun, rejects>>,
         status' \in [Ids -> {"none", "pending", "running"} \cup Ended],
         current' \in [Agents -> 0..MaxTasks],
         live' \subseteq live, entered' \subseteq entered \cup {run[r].task},
         handle' \in [Ids -> 0..MaxRuns], \A t \in Ids : handle'[t] \in {handle[t], 0},
         archive' \in {archive, Archived(run[r].task)}
  PROVE  Base'
<1>0. run[r].task \in Ids /\ run[r].task \in 1..used
  BY TaskOfRun
<1>1. archive' \in Seq(Ids) /\ Len(archive') <= ArchiveMax
  BY <1>0, ArchivedKeeps DEF Base, TypeOK
<1>2. TypeOK'
  BY <1>0, <1>1 DEF Base, TypeOK, inputs
<1>3. \A u \in Ids : u > used => ~Known(u)'
  <2> SUFFICES ASSUME NEW u \in Ids, u > used PROVE ~Known(u)'
    OBVIOUS
  <2>1. u \notin live' /\ u # run[r].task /\ \A i \in DOMAIN archive : archive[i] # u
    BY <1>0 DEF Base, Fresh, Known, Places, TypeOK
  <2>2. \A i \in DOMAIN Archived(run[r].task) : Archived(run[r].task)[i] # u
    <3> TAKE i \in DOMAIN Archived(run[r].task)
    <3>1. \/ Archived(run[r].task)[i] = run[r].task
          \/ \E j \in DOMAIN archive : archive[j] = Archived(run[r].task)[i]
      BY <1>0, ArchivedKeeps
    <3> QED
      BY <2>1, <3>1
  <2>3. \A i \in DOMAIN archive' : archive'[i] # u
    <3>1. CASE archive' = archive
      BY <2>1, <3>1
    <3>2. CASE archive' = Archived(run[r].task)
      BY <2>2, <3>2
    <3> QED
      BY <3>1, <3>2
  <2> QED
    BY <2>1, <2>3 DEF Known, Places
<1>4. Fresh'
  <2>1. used' = used /\ by' = by /\ depth' = depth
    BY DEF inputs
  <2>2. \A u \in Ids : u > used => u # run[r].task
    BY <1>0 DEF Base, TypeOK, Ids
  <2>3. \A u \in Ids : u > used => /\ by'[u] = 0 /\ depth'[u] = 0 /\ handle'[u] = 0
                                   /\ u \notin entered'
    BY <2>1, <2>2 DEF Base, Fresh
  <2>4. \A x \in Runs : /\ run'[x].pc # "none" <=> x <= begun
                        /\ x <= begun => run'[x].task \in 1..used
    BY DEF Base, Fresh
  <2> QED
    BY <1>3, <2>1, <2>3, <2>4 DEF Fresh
<1>5. Handles'
  BY DEF Base, Handles, Runs
<1> QED
  BY <1>1, <1>2, <1>4, <1>5 DEF Base

-----------------------------------------------------------------------------
(* The invariant.                                                           *)

LEMMA InitInv == Init => IInv
<1> SUFFICES ASSUME Init PROVE IInv
  OBVIOUS
<1>1. Base
  BY InitBase
<1>2. DelegationEnds /\ BusyIsTrue /\ Leaves
  BY SubmissionAssumption DEF Init, DelegationEnds, BusyIsTrue, Leaves, Agents
<1> QED
  BY <1>1, <1>2 DEF IInv

LEMMA UsedIds == Base => 1..used \subseteq Ids /\ used \in Nat /\ begun \in Nat
BY SubmissionAssumption DEF Base, TypeOK, Ids

LEMMA QuietInv == IInv /\ Quiet => IInv'
<1> SUFFICES ASSUME IInv, Quiet PROVE IInv'
  OBVIOUS
<1> USE DEF IInv
<1>1. Base'
  BY QuietBase
<1>2. DelegationEnds'
  BY DEF DelegationEnds, Quiet, inputs
<1>3. \A r \in Runs : Inside(r)' = Inside(r) /\ Active(r)' = Active(r)
  BY DEF Quiet, Inside, Active
<1>4. BusyIsTrue'
  BY <1>3 DEF BusyIsTrue, Quiet, inputs, Agent
<1>5. ASSUME NEW t \in 1..used, t \notin live, handle[t] # 0
      PROVE  ~run'[handle[t]].cancel /\ handle[t] \in Runs
  <2>1. handle[t] \in Runs /\ run[handle[t]].task = t /\ ~run[handle[t]].cancel
    BY <1>5, UsedIds, SubmissionAssumption DEF Base, TypeOK, Handles, Leaves, Runs
  <2>2. \A u \in live : u \in Ids /\ (handle[u] = handle[t] => u = t)
    BY <1>5, <2>1 DEF Base, TypeOK, Handles
  <2> QED
    BY <1>5, <2>1, <2>2 DEF Quiet
<1>6. Leaves'
  <2> SUFFICES ASSUME NEW t \in 1..used
               PROVE  IF t \in live
                      THEN t \in entered => \E r \in Runs : run'[r].task = t /\ Inside(r)'
                      ELSE /\ handle[t] # 0 => Active(handle[t])' /\ ~run'[handle[t]].cancel
                           /\ Known(t)' \/ Len(archive) = ArchiveMax
    BY DEF Leaves, Quiet, inputs
  <2>1. CASE t \in live
    BY <1>3, <2>1 DEF Leaves, Quiet
  <2>2. CASE t \notin live
    BY <1>3, <1>5, <2>2 DEF Leaves, Quiet, Known, Places
  <2> QED
    BY <2>1, <2>2
<1> QED
  BY <1>1, <1>2, <1>4, <1>6

\* What other runs than the new one are, and where, does not change.
LEMMA AnotherRuns ==
  ASSUME Base, NEW t \in Ids, Another(t)
  PROVE  /\ \A r \in Runs : Inside(r) => Inside(r)' /\ run'[r].task = run[r].task
         /\ \A u \in Ids \ {t} : handle[u] # 0 =>
              /\ handle'[u] = handle[u] /\ (Active(handle[u]) => Active(handle[u])')
              /\ run'[handle[u]].cancel = run[handle[u]].cancel
<1>1. begun + 1 \in Runs /\ begun \in Nat
  BY AnotherFacts, UsedIds
<1>2. \A r \in Runs : run[r].pc # "none" => r \in Runs \ {begun + 1}
  BY <1>1 DEF Base, Fresh, Runs
<1>3. \A u \in Ids \ {t} : handle[u] # 0 => handle[u] \in Runs \ {begun + 1}
  BY <1>1, SubmissionAssumption DEF Base, TypeOK, Handles, Runs
<1>4. \A r \in Runs : Inside(r) => Inside(r)' /\ run'[r].task = run[r].task
  BY <1>2 DEF Another, Inside
<1>5. \A u \in Ids \ {t} : handle[u] # 0 =>
              /\ handle'[u] = handle[u] /\ (Active(handle[u]) => Active(handle[u])')
              /\ run'[handle[u]].cancel = run[handle[u]].cancel
  BY <1>3, AnotherFacts DEF Another, Active, Inside
<1> QED
  BY <1>4, <1>5

LEMMA AgainInv == ASSUME IInv, NEW t \in Ids, Again(t) PROVE IInv'
<1> USE DEF IInv
<1>1. Base' /\ t \in 1..used /\ Another(t)
  BY AgainBase DEF Again
<1>2. DelegationEnds'
  BY DEF DelegationEnds, Again, inputs
<1>3. BusyIsTrue'
  <2>1. current' = current /\ shape' = shape
    BY <1>1 DEF Again, Another, inputs
  <2>2. \A a \in Agents : Agent(current[a])' = Agent(current[a])
    BY <2>1 DEF Agent
  <2>3. ASSUME NEW a \in Agents, current[a] # 0
        PROVE  a = Agent(current[a]) /\ \E r \in Runs : run'[r].task = current[a] /\ Inside(r)'
    BY <1>1, <2>3, AnotherRuns DEF BusyIsTrue
  <2> QED
    BY <2>1, <2>2, <2>3 DEF BusyIsTrue
<1>4. ASSUME NEW u \in 1..used
      PROVE  IF u \in live
             THEN u \in entered => \E r \in Runs : run'[r].task = u /\ Inside(r)'
             ELSE /\ handle'[u] # 0 => Active(handle[u])' /\ ~run'[handle'[u]].cancel
                  /\ Known(u)' \/ Len(archive) = ArchiveMax
  <2>1. u \in Ids /\ live' = live /\ archive' = archive /\ entered' = entered
    BY UsedIds DEF Again, Another
  <2>2. CASE u \in live
    BY <1>1, <2>2, AnotherRuns DEF Leaves
  <2>3. CASE u \notin live
    <3>1. Known(u)' \/ Len(archive) = ArchiveMax
      BY <2>1, <2>3 DEF Leaves, Known, Places
    <3>2. CASE u = t
      <4>1. handle'[u] = begun + 1 /\ run'[begun + 1].pc = "ready" /\ ~run'[begun + 1].cancel
        BY <1>1, <3>2, AnotherFacts
      <4> QED
        BY <2>3, <3>1, <4>1 DEF Active
    <3>3. CASE u # t
      <4>1. handle'[u] = handle[u]
        BY <1>1, <2>1, <3>3, AnotherFacts
      <4>2. handle[u] # 0 => Active(handle[u])' /\ ~run'[handle[u]].cancel
        BY <1>1, <2>1, <2>3, <3>3, AnotherRuns DEF Leaves
      <4> QED
        BY <2>3, <3>1, <4>1, <4>2
    <3> QED
      BY <3>2, <3>3
  <2> QED
    BY <2>2, <2>3
<1>5. Leaves'
  <2>1. used' = used /\ live' = live /\ entered' = entered /\ archive' = archive
    BY DEF Again, Another, inputs
  <2> QED
    BY <1>4, <2>1 DEF Leaves
<1> QED
  BY <1>1, <1>2, <1>3, <1>5

\* A new task: from a caller, or from the coordinator of t.
LEMMA NewInv ==
  ASSUME IInv, NEW s \in AllShapes, NEW d \in Nat, NEW t \in 0..MaxTasks, New(s, d, t),
         t = 0 => d = 0,
         t # 0 => /\ t \in 1..used /\ shape[t] = "prompt"
                  /\ depth[t] <= MaxDepth /\ d = depth[t] + 1
  PROVE  IInv'
<1> USE DEF IInv
<1>1. /\ Base' /\ used + 1 \in Ids /\ Another(used + 1) /\ used' = used + 1 /\ used \in Nat
      /\ live' = live \cup {used + 1} /\ entered' = entered /\ archive' = archive
      /\ current' = current
  BY NewBase, NewFacts DEF New, Another
<1>2. DelegationEnds'
  <2> SUFFICES ASSUME NEW u \in Ids
               PROVE  /\ depth'[u] <= MaxDepth + 1
                      /\ by'[u] # 0 => /\ by'[u] < u /\ shape'[by'[u]] = "prompt"
                                       /\ depth'[u] = depth'[by'[u]] + 1
    BY DEF DelegationEnds
  <2>0. MaxDepth \in Nat /\ depth \in [Ids -> Nat] /\ 1..used \subseteq Ids
    BY SubmissionAssumption, UsedIds DEF Base, TypeOK
  <2>1. CASE u = used + 1
    <3>1. depth'[u] = d /\ by'[u] = t
      BY <2>1, NewFacts
    <3>2. t # 0 => t \in Ids \ {used + 1} /\ t < u
      BY <1>1, <2>0, <2>1
    <3>3. t # 0 => shape'[t] = shape[t] /\ depth'[t] = depth[t]
      BY <3>2, NewFacts
    <3> QED
      BY <2>0, <3>1, <3>2, <3>3
  <2>2. CASE u # used + 1
    <3>1. depth'[u] = depth[u] /\ by'[u] = by[u]
      BY <2>2, NewFacts
    <3>2. by[u] # 0 => by[u] \in Ids \ {used + 1}
      <4>1. u > used => by[u] = 0
        BY DEF Base, Fresh
      <4>2. by[u] # 0 => by[u] < u
        BY DEF DelegationEnds
      <4>3. by[u] \in 0..MaxTasks /\ u \in Nat
        BY DEF Base, TypeOK, Ids
      <4> QED
        BY <1>1, <4>1, <4>2, <4>3, SubmissionAssumption DEF Ids
    <3>3. by[u] # 0 => shape'[by[u]] = shape[by[u]] /\ depth'[by[u]] = depth[by[u]]
      BY <3>2, NewFacts
    <3> QED
      BY <3>1, <3>3 DEF DelegationEnds
  <2> QED
    BY <2>1, <2>2
<1>3. BusyIsTrue'
  <2> SUFFICES ASSUME NEW a \in Agents, current[a] # 0
               PROVE  /\ a = Agent(current[a])'
                      /\ \E r \in Runs : run'[r].task = current[a] /\ Inside(r)'
    BY <1>1 DEF BusyIsTrue
  <2>1. PICK r \in Runs : run[r].task = current[a] /\ Inside(r) /\ a = Agent(current[a])
    BY DEF BusyIsTrue
  <2>2. current[a] \in Ids \ {used + 1}
    BY <1>1, <2>1, TaskOfRun DEF Inside
  <2>3. Agent(current[a])' = Agent(current[a])
    BY <1>1, <2>2, NewFacts DEF Agent
  <2> QED
    BY <1>1, <2>1, <2>3, AnotherRuns
<1>4. Leaves'
  <2> SUFFICES ASSUME NEW u \in 1..used + 1
               PROVE  IF u \in live'
                      THEN u \in entered => \E r \in Runs : run'[r].task = u /\ Inside(r)'
                      ELSE /\ handle'[u] # 0 => Active(handle[u])' /\ ~run'[handle'[u]].cancel
                           /\ Known(u)' \/ Len(archive') = ArchiveMax
    BY <1>1 DEF Leaves
  <2>1. CASE u = used + 1
    <3>1. u \notin entered
      BY <1>1, <2>1 DEF Base, Fresh
    <3> QED
      BY <1>1, <2>1, <3>1
  <2>2. CASE u # used + 1
    <3>1. u \in 1..used /\ u \in Ids \ {used + 1}
      BY <1>1, <2>2, UsedIds
    <3>2. CASE u \in live
      BY <1>1, <3>1, <3>2, AnotherRuns DEF Leaves
    <3>3. CASE u \notin live
      <4>1. handle'[u] = handle[u]
        BY <1>1, <3>1, AnotherFacts
      <4>2. handle[u] # 0 => Active(handle[u])' /\ ~run'[handle[u]].cancel
        BY <1>1, <3>1, <3>3, AnotherRuns DEF Leaves
      <4>3. Known(u)' \/ Len(archive') = ArchiveMax
        BY <1>1, <3>1, <3>3 DEF Leaves, Known, Places
      <4>4. u \notin live'
        BY <1>1, <2>2, <3>3
      <4> QED
        BY <4>1, <4>2, <4>3, <4>4
    <3> QED
      BY <3>2, <3>3
  <2> QED
    BY <2>1, <2>2
<1> QED
  BY <1>1, <1>2, <1>3, <1>4

LEMMA BeginInv == ASSUME IInv, NEW r \in Runs, Begin(r) PROVE IInv'
<1> USE DEF IInv
<1> DEFINE t == run[r].task
<1>1. /\ run[r].pc = "ready" /\ run' = [run EXCEPT ![r].pc = "exec"]
      /\ current' = [current EXCEPT ![Agent(t)] = t] /\ entered' = entered \cup {t}
      /\ UNCHANGED <<inputs, live, archive, handle, begun, rejects>>
      /\ status' = [status EXCEPT ![t] = "running"]
  BY DEF Begin
<1>2. t \in Ids /\ Agent(t) \in Agents
  BY <1>1, TaskOfRun, AgentType
<1>3. /\ run' \in [Runs -> Run] /\ run'[r].pc = "exec"
      /\ \A x \in Runs \ {r} : run'[x] = run[x]
      /\ \A x \in Runs : run'[x].task = run[x].task /\ run'[x].cancel = run[x].cancel
  BY <1>1, MoveFacts
<1>4. Base'
  <2>1. /\ status' \in [Ids -> {"none", "pending", "running"} \cup Ended]
        /\ current' \in [Agents -> 0..MaxTasks] /\ handle \in [Ids -> 0..MaxRuns]
    BY <1>1, <1>2 DEF Base, TypeOK, Ids
  <2> QED
    BY <1>1, <1>3, <2>1, MoveBase
<1>5. DelegationEnds'
  BY <1>1 DEF DelegationEnds, inputs
<1>6. \A x \in Runs : (Inside(x) => Inside(x)') /\ (Active(x) => Active(x)')
  BY <1>1, <1>3 DEF Inside, Active
<1>7. Inside(r)'
  BY <1>3 DEF Inside
<1>8. BusyIsTrue'
  <2>1. current \in [Agents -> 0..MaxTasks] /\ \A u : Agent(u)' = Agent(u)
    BY <1>1 DEF Base, TypeOK, Agent, inputs
  <2>2. ASSUME NEW a \in Agents, current'[a] # 0
        PROVE  a = Agent(current'[a]) /\ \E x \in Runs : run'[x].task = current'[a] /\ Inside(x)'
    <3>1. CASE a = Agent(t)
      BY <1>1, <1>2, <1>3, <1>7, <2>1, <3>1
    <3>2. CASE a # Agent(t)
      BY <1>1, <1>3, <1>6, <2>1, <2>2, <3>2 DEF BusyIsTrue
    <3> QED
      BY <3>1, <3>2
  <2>3. \A a \in Agents : Agent(current[a])' = Agent(current'[a])
    BY <1>1 DEF Agent, inputs
  <2> QED
    BY <2>2, <2>3 DEF BusyIsTrue
<1>9. Leaves'
  <2> SUFFICES ASSUME NEW u \in 1..used
               PROVE  IF u \in live
                      THEN u \in entered' => \E x \in Runs : run'[x].task = u /\ Inside(x)'
                      ELSE /\ handle[u] # 0 => Active(handle[u])' /\ ~run'[handle[u]].cancel
                           /\ Known(u)' \/ Len(archive) = ArchiveMax
    BY <1>1 DEF Leaves, inputs
  <2>1. CASE u \in live
    BY <1>1, <1>3, <1>6, <1>7, <2>1 DEF Leaves
  <2>2. CASE u \notin live
    <3>1. handle[u] \in 0..MaxRuns /\ handle' = handle
      BY <1>1, UsedIds DEF Base, TypeOK
    <3>2. handle[u] # 0 => handle[u] \in Runs
      BY <3>1, SubmissionAssumption DEF Runs
    <3>3. handle[u] # 0 => Active(handle[u])' /\ ~run'[handle[u]].cancel
      BY <1>3, <1>6, <2>2, <3>1, <3>2 DEF Leaves, Active, Inside
    <3> QED
      BY <1>1, <2>2, <3>3 DEF Leaves, Known, Places
  <2> QED
    BY <2>1, <2>2
<1> QED
  BY <1>4, <1>5, <1>8, <1>9

LEMMA NeverInv == ASSUME IInv, NEW r \in Runs, Never(r) PROVE IInv'
<1> USE DEF IInv
<1>1. /\ run[r].pc = "ready" /\ run[r].cancel /\ run' = [run EXCEPT ![r].pc = "done"]
      /\ UNCHANGED <<inputs, status, live, archive, handle, begun, current, entered, rejects>>
  BY DEF Never
<1>2. /\ run' \in [Runs -> Run] /\ run'[r].pc = "done"
      /\ \A x \in Runs \ {r} : run'[x] = run[x]
      /\ \A x \in Runs : run'[x].task = run[x].task /\ run'[x].cancel = run[x].cancel
  BY <1>1, MoveFacts
<1>3. Base'
  <2>1. /\ status \in [Ids -> {"none", "pending", "running"} \cup Ended]
        /\ current \in [Agents -> 0..MaxTasks] /\ handle \in [Ids -> 0..MaxRuns]
    BY DEF Base, TypeOK
  <2> QED
    BY <1>1, <1>2, <2>1, MoveBase
<1>4. DelegationEnds'
  BY <1>1 DEF DelegationEnds, inputs
<1>5. \A x \in Runs : /\ Inside(x) => Inside(x)'
                      /\ x # r /\ Active(x) => Active(x)'
  BY <1>1, <1>2 DEF Inside, Active
<1>6. BusyIsTrue'
  <2>1. \A a \in Agents : Agent(current[a])' = Agent(current[a])
    BY <1>1 DEF Agent, inputs
  <2> QED
    BY <1>1, <1>2, <1>5, <2>1 DEF BusyIsTrue
<1>7. Leaves'
  <2> SUFFICES ASSUME NEW u \in 1..used
               PROVE  IF u \in live
                      THEN u \in entered => \E x \in Runs : run'[x].task = u /\ Inside(x)'
                      ELSE /\ handle[u] # 0 => Active(handle[u])' /\ ~run'[handle[u]].cancel
                           /\ Known(u)' \/ Len(archive) = ArchiveMax
    BY <1>1 DEF Leaves, inputs
  <2>1. CASE u \in live
    BY <1>2, <1>5, <2>1 DEF Leaves
  <2>2. CASE u \notin live
    <3>1. handle[u] \in 0..MaxRuns /\ handle' = handle
      BY <1>1, UsedIds DEF Base, TypeOK
    <3>2. handle[u] # 0 => handle[u] \in Runs /\ handle[u] # r
      BY <1>1, <2>2, <3>1, SubmissionAssumption DEF Runs, Leaves
    <3>3. handle[u] # 0 => Active(handle[u])' /\ ~run'[handle[u]].cancel
      BY <1>2, <1>5, <2>2, <3>1, <3>2 DEF Leaves, Active, Inside
    <3> QED
      BY <1>1, <2>2, <3>3 DEF Leaves, Known, Places
  <2> QED
    BY <2>1, <2>2
<1> QED
  BY <1>3, <1>4, <1>6, <1>7

LEMMA EndsInv == ASSUME IInv, NEW r \in Runs, Ends(r) PROVE IInv'
<1> USE DEF IInv
<1> DEFINE t == run[r].task
<1>1. PICK s \in Ended : Inside(r) /\ Finish(r, s)
  BY DEF Ends
<1>2. /\ run' = [run EXCEPT ![r].pc = "done"] /\ status' = [status EXCEPT ![t] = s]
      /\ handle' = [handle EXCEPT ![t] = 0] /\ current' = [current EXCEPT ![Agent(t)] = 0]
      /\ live' = live \ {t} /\ archive' = Archived(t)
      /\ UNCHANGED <<inputs, begun, entered, rejects>>
  BY <1>1 DEF Finish
<1>3. run[r].pc # "none" /\ t \in Ids /\ t \in 1..used /\ Agent(t) \in Agents
  BY <1>1, TaskOfRun, AgentType DEF Inside
<1>4. /\ run' \in [Runs -> Run] /\ run'[r].pc = "done"
      /\ \A x \in Runs \ {r} : run'[x] = run[x]
      /\ \A x \in Runs : run'[x].task = run[x].task /\ run'[x].cancel = run[x].cancel
  BY <1>2, MoveFacts
<1>5. /\ handle \in [Ids -> 0..MaxRuns] /\ handle' \in [Ids -> 0..MaxRuns] /\ handle'[t] = 0
      /\ \A u \in Ids \ {t} : handle'[u] = handle[u]
  BY <1>2, <1>3, SubmissionAssumption DEF Base, TypeOK
<1>6. Base'
  <2>1. /\ status' \in [Ids -> {"none", "pending", "running"} \cup Ended]
        /\ current' \in [Agents -> 0..MaxTasks]
    BY <1>2, <1>3, SubmissionAssumption DEF Base, TypeOK
  <2>2. \A u \in Ids : handle'[u] \in {handle[u], 0}
    BY <1>5
  <2>3. live' \subseteq live
    BY <1>2
  <2> QED
    BY <1>2, <1>3, <1>4, <1>5, <2>1, <2>2, <2>3, MoveBase
<1>7. DelegationEnds'
  BY <1>2 DEF DelegationEnds, inputs
<1>8. \A x \in Runs : run[x].task # t => /\ Inside(x) => Inside(x)'
                                         /\ Active(x) => Active(x)'
  BY <1>4 DEF Inside, Active
<1>9. BusyIsTrue'
  <2>1. /\ current \in [Agents -> 0..MaxTasks]
        /\ \A a \in Agents : Agent(current'[a]) = Agent(current[a])' \/ current'[a] = 0
    BY <1>2, <1>3 DEF Base, TypeOK, Agent, inputs
  <2>2. ASSUME NEW a \in Agents, current'[a] # 0
        PROVE  /\ current'[a] = current[a] /\ a = Agent(current[a])
               /\ \E x \in Runs : run'[x].task = current[a] /\ Inside(x)'
    <3>1. a # Agent(t) /\ current'[a] = current[a]
      BY <1>2, <1>3, <2>1, <2>2
    <3>2. a = Agent(current[a]) /\ current[a] # t
      BY <2>2, <3>1 DEF BusyIsTrue
    <3> QED
      BY <1>4, <1>8, <2>2, <3>1, <3>2 DEF BusyIsTrue
  <2>3. \A a \in Agents : Agent(current[a])' = Agent(current'[a])
    BY <1>2 DEF Agent, inputs
  <2> QED
    BY <2>2, <2>3 DEF BusyIsTrue
<1>10. Leaves'
  <2> SUFFICES ASSUME NEW u \in 1..used
               PROVE  IF u \in live'
                      THEN u \in entered => \E x \in Runs : run'[x].task = u /\ Inside(x)'
                      ELSE /\ handle'[u] # 0 => Active(handle[u])' /\ ~run'[handle'[u]].cancel
                           /\ Known(u)' \/ Len(archive') = ArchiveMax
    BY <1>2 DEF Leaves, inputs
  <2>1. u \in Ids
    BY UsedIds
  <2>2. CASE u = t
    <3>1. \E i \in DOMAIN archive' : archive'[i] = u
      BY <1>2, <1>3, <2>2, ArchivedKeeps
    <3> QED
      BY <1>2, <1>5, <2>2, <3>1 DEF Known, Places
  <2>3. CASE u # t
    <3>1. u \in live' <=> u \in live
      BY <1>2, <2>3
    <3>2. CASE u \in live
      BY <1>4, <1>8, <2>3, <3>1, <3>2 DEF Leaves
    <3>3. CASE u \notin live
      <4>1. handle'[u] = handle[u] /\ handle[u] \in 0..MaxRuns
        BY <1>5, <2>1, <2>3
      <4>2. handle[u] # 0 => handle[u] \in Runs /\ run[handle[u]].task # t
        BY <2>1, <2>3, <4>1, SubmissionAssumption DEF Base, Handles, Runs
      <4>3. handle[u] # 0 => Active(handle[u])' /\ ~run'[handle'[u]].cancel
        BY <1>4, <1>8, <3>3, <4>1, <4>2 DEF Leaves, Active, Inside
      <4>4. Known(u)' \/ Len(archive') = ArchiveMax
        <5>1. Len(archive) = ArchiveMax \/ \E i \in DOMAIN archive : archive[i] = u
          BY <3>3 DEF Leaves, Known, Places
        <5>2. Len(archive') = ArchiveMax \/ \E j \in DOMAIN archive' : archive'[j] = u
          BY <1>2, <1>3, <5>1, ArchivedKeeps
        <5> QED
          BY <5>2 DEF Known, Places
      <4> QED
        BY <3>1, <3>3, <4>1, <4>3, <4>4
    <3> QED
      BY <3>2, <3>3
  <2> QED
    BY <2>2, <2>3
<1> QED
  BY <1>6, <1>7, <1>9, <1>10

LEMMA StepInv == IInv /\ [Next]_vars => IInv'
<1> SUFFICES ASSUME IInv, [Next]_vars PROVE IInv'
  OBVIOUS
<1>1. Step
  BY NextIsStep DEF IInv
<1>2. CASE Quiet
  BY <1>2, QuietInv
<1>3. ASSUME NEW t \in Ids, Again(t) PROVE IInv'
  BY <1>3, AgainInv
<1>4. ASSUME NEW s \in AllShapes, New(s, 0, 0) PROVE IInv'
  BY <1>4, NewInv, SubmissionAssumption
<1>5. ASSUME NEW r \in Runs, run[r].pc = "exec", shape[run[r].task] = "prompt",
             ~TooDeep(run[r].task), New("prompt", depth[run[r].task] + 1, run[r].task)
      PROVE  IInv'
  <2>1. run[r].task \in 1..used /\ run[r].task \in Ids /\ run[r].task \in 0..MaxTasks
    BY <1>5, TaskOfRun DEF IInv, Ids
  <2>2. depth[run[r].task] \in Nat /\ MaxDepth \in Nat
    BY <2>1, SubmissionAssumption DEF IInv, Base, TypeOK
  <2>3. depth[run[r].task] <= MaxDepth /\ depth[run[r].task] + 1 \in Nat
    BY <1>5, <2>2 DEF TooDeep
  <2>4. "prompt" \in AllShapes
    BY DEF AllShapes
  <2> QED
    BY <1>5, <2>1, <2>3, <2>4, NewInv
<1>6. ASSUME NEW r \in Runs, Begin(r) \/ Never(r) \/ Ends(r) PROVE IInv'
  BY <1>6, BeginInv, NeverInv, EndsInv
<1> QED
  BY <1>1, <1>2, <1>3, <1>4, <1>5, <1>6 DEF Step

\* The inductive invariant holds in every state that TaskSubmission reaches.
THEOREM Invariance == Spec => []IInv
BY InitInv, StepInv, PTL DEF Spec

\* The variables keep their types.
THEOREM TypeCorrect == Spec => []TypeOK
<1>1. IInv => TypeOK
  BY DEF IInv, Base
<1> QED
  BY <1>1, Invariance, PTL

\* However coordinators delegate to coordinators, no chain is longer than MAX_DEPTH.
THEOREM DelegationIsBounded == Spec => []DelegationEnds
<1>1. IInv => DelegationEnds
  BY DEF IInv
<1> QED
  BY <1>1, Invariance, PTL

\* An agent that the dashboard shows busy executes the task it shows.
THEOREM BusyAgentsExecute == Spec => []BusyIsTrue
<1>1. IInv => BusyIsTrue
  BY DEF IInv
<1> QED
  BY <1>1, Invariance, PTL

\* A task that began and has no run under way has left _tasks, holds no handle, and is
\* in the archive unless that is full.
THEOREM NothingLeftBehind == Spec => []EndedIsArchived
<1>1. IInv => EndedIsArchived
  <2> SUFFICES ASSUME IInv, NEW t \in entered,
                      ~\E r \in Runs : run[r].task = t /\ Active(r)
               PROVE  t \notin live /\ handle[t] = 0 /\ (Known(t) \/ Len(archive) = ArchiveMax)
    BY DEF EndedIsArchived
  <2>1. t \in 1..used
    BY SubmissionAssumption DEF IInv, Base, TypeOK, Fresh, Ids
  <2>2. t \notin live
    BY <2>1 DEF IInv, Leaves, Active
  <2>3. handle[t] # 0 => handle[t] \in Runs /\ run[handle[t]].task = t /\ Active(handle[t])
    BY <2>1, <2>2, UsedIds, SubmissionAssumption DEF IInv, Leaves, Base, Handles, TypeOK, Runs
  <2> QED
    BY <2>1, <2>2, <2>3 DEF IInv, Leaves
<1> QED
  BY <1>1, Invariance, PTL
=============================================================================
