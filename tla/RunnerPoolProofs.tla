--------------------------- MODULE RunnerPoolProofs ---------------------------
(***************************************************************************)
(* What holds of the mailbox and the pool for any number of agents, rows,  *)
(* runs, loops, failed calls and crashes.  TypeCorrect, NothingLost and    *)
(* RepliesComing make no assumption on start and stop; DispatchedOnce,     *)
(* RepliedOnce and NoWakeSwallowed hold when their requests do not overlap *)
(* (Serial), which is what leaves at most one loop alive.                  *)
(***************************************************************************)
EXTENDS RunnerPool, TLAPS

(* Everything the memory of the pool refers to is in the mailbox.           *)
Known ==
  /\ \A m \in unread : mail[m] # None
  /\ \A r \in Runs : runOf[r] # None => mail[runOf[r]] # None
  /\ \A r \in Runs : status[r] # "none" => runOf[r] # None
  /\ \A l \in Loops : \A m \in batch[l] : mail[m] # None

(* While a loop waits for a thread, or a thread works, there is a run it is
   about; and the thread does what the loop waits for.                      *)
Busy == \A l \in Loops :
  pc[l] \in {"ack", "reply"} \/ thread[l] \in {"ack", "send"}
    => /\ cur[l] \in Runs /\ runOf[cur[l]] # None
       /\ pc[l] = "ack" => thread[l] \in {"ack", "ok", "error"}
       /\ pc[l] = "reply" => thread[l] \in {"send", "ok", "error"}

Base == TypeOK /\ Known /\ Busy

-----------------------------------------------------------------------------
(* Initially.                                                              *)
LEMMA BaseInit == Init => Base
<1> SUFFICES ASSUME Init PROVE Base
  OBVIOUS
<1> USE PoolAssumption DEF Init
<1>1. BoxOK /\ RegistryOK
  BY DEF BoxOK, RegistryOK
<1>2. PoolOK /\ LoopOK
  BY DEF PoolOK, LoopOK
<1>3. TickOK
  BY DEF TickOK
<1>4. BudgetOK /\ HistoryOK
  BY DEF BudgetOK, HistoryOK
<1>5. Known /\ Busy
  BY DEF Known, Busy
<1>6. QED
  BY <1>1, <1>2, <1>3, <1>4, <1>5 DEF Base, TypeOK

(* A new row leaves the others as they are. *)
LEMMA InsertRow ==
  ASSUME BoxOK, NEW m \in Ids, mail[m] = None,
         NEW from \in Parties, NEW to \in Parties, NEW re \in Runs \cup {None},
         Insert(m, from, to, re)
  PROVE  /\ BoxOK'
         /\ mail'[m] = [from |-> from, to |-> to, re |-> re] /\ mail'[m] # None
         /\ \A k \in Ids \ {m} : mail'[k] = mail[k]
<1>1. [from |-> from, to |-> to, re |-> re] \in Row
  BY DEF Row
<1>2. mail'[m] = [from |-> from, to |-> to, re |-> re]
  BY DEF Insert, BoxOK
<1>3. QED
  BY <1>1, <1>2, PoolAssumption DEF Insert, BoxOK

(* A reply is a row of its own that names the run. *)
LEMMA ReplyRow ==
  ASSUME BoxOK, NEW m \in Ids, mail[m] = None, NEW r \in Runs, mail[runOf[r]] \in Row,
         Insert(m, mail[runOf[r]].to, mail[runOf[r]].from, r)
  PROVE  /\ mail'[m] # None /\ mail'[m].re = r
         /\ \A k \in Ids \ {m} : mail'[k] = mail[k]
<1>1. mail[runOf[r]].to \in Parties /\ mail[runOf[r]].from \in Parties
  BY DEF Row
<1>2. /\ mail'[m] = [from |-> mail[runOf[r]].to, to |-> mail[runOf[r]].from, re |-> r]
      /\ mail'[m] # None /\ \A k \in Ids \ {m} : mail'[k] = mail[k]
  BY <1>1, InsertRow
<1>3. QED
  BY <1>2

(* Users, peers, the registry and the life of the pool keep the types.     *)
LEMMA BaseUsers ==
  ASSUME Base, Outside
  PROVE  Base'
<1> USE PoolAssumption DEF Base, box, registry, pool, memory, tick, trouble,
           TypeOK, BoxOK, RegistryOK, PoolOK, LoopOK, TickOK, BudgetOK, HistoryOK
<1>1. ASSUME NEW m \in Ids, NEW from \in Parties, NEW to \in Agents, NEW here \in BOOLEAN,
             Send(m, from, to, here)
      PROVE  Base'
  <2> USE <1>1 DEF Send
  <2>1. mail[m] = None
    BY DEF First, FreeIds
  <2>2. BoxOK' /\ mail'[m] # None /\ \A k \in Ids \ {m} : mail'[k] = mail[k]
    BY <2>1, InsertRow DEF TypeOK, Parties
  <2>3. RegistryOK' /\ PoolOK'
    BY DEF TypeOK, RegistryOK, PoolOK
  <2>4. LoopOK' /\ TickOK'
    BY DEF TypeOK, LoopOK, TickOK
  <2>5. BudgetOK' /\ HistoryOK'
    BY DEF TypeOK, BudgetOK, HistoryOK
  <2>6. Known'
    BY <2>2 DEF Insert, TypeOK, BoxOK, RegistryOK, TickOK, Known
  <2>7. Busy'
    BY DEF Busy
  <2>8. QED
    BY <2>2, <2>3, <2>4, <2>5, <2>6, <2>7 DEF TypeOK
<1>2. ASSUME NEW a \in Agents, NEW here \in BOOLEAN, Register(a, here)
      PROVE  Base'
  <2> USE <1>2 DEF Register, Inbox
  <2>1. TypeOK'
    OBVIOUS
  <2>2. Known' /\ Busy'
    BY DEF Known, Busy
  <2>3. QED
    BY <2>1, <2>2
<1>3. ASSUME NEW a \in Agents, Remove(a)
      PROVE  Base'
  <2> USE <1>3 DEF Remove
  <2>1. TypeOK'
    OBVIOUS
  <2>2. Known' /\ Busy'
    BY DEF Known, Busy
  <2>3. QED
    BY <2>1, <2>2
<1>4. ASSUME NEW r \in Runs, NEW s \in {"success", "failed"}, RunEnds(r, s)
      PROVE  Base'
  <2> USE <1>4 DEF RunEnds
  <2>1. TypeOK'
    OBVIOUS
  <2>2. Known' /\ Busy'
    BY DEF Known, Busy
  <2>3. QED
    BY <2>1, <2>2
<1>5. ASSUME NEW r \in Runs, Forget(r)
      PROVE  Base'
  <2> USE <1>5 DEF Forget
  <2>1. TypeOK'
    OBVIOUS
  <2>2. Known' /\ Busy'
    BY DEF Known, Busy
  <2>3. QED
    BY <2>1, <2>2
<1>6. CASE Notify
  <2> USE <1>6 DEF Notify
  <2>1. TypeOK'
    OBVIOUS
  <2>2. Known' /\ Busy'
    BY DEF Known, Busy
  <2>3. QED
    BY <2>1, <2>2
<1>7. CASE Stop
  <2> USE <1>7 DEF Stop
  <2>1. TypeOK'
    OBVIOUS
  <2>2. Known' /\ Busy'
    BY DEF Known, Busy
  <2>3. QED
    BY <2>1, <2>2
<1>8. CASE Crash
  <2> USE <1>8 DEF Crash
  <2>1. BoxOK' /\ RegistryOK'
    OBVIOUS
  <2>2. PoolOK'
    OBVIOUS
  <2>3. LoopOK' /\ TickOK'
    OBVIOUS
  <2>4. BudgetOK'
    OBVIOUS
  <2>5. HistoryOK'
    OBVIOUS
  <2>6. Known' /\ Busy'
    BY DEF Known, Busy
  <2>7. QED
    BY <2>1, <2>2, <2>3, <2>4, <2>5, <2>6
<1>9. ASSUME NEW l \in Loops, Start(l)
      PROVE  Base'
  <2> USE <1>9 DEF Start, First
  <2>1. TypeOK'
    OBVIOUS
  <2>2. Known' /\ Busy'
    BY DEF Known, Busy
  <2>3. QED
    BY <2>1, <2>2
<1>10. QED
  BY <1>1, <1>2, <1>3, <1>4, <1>5, <1>6, <1>7, <1>8, <1>9 DEF Outside

(* Every step of a loop and of its thread keeps the types.                 *)
LEMMA BaseLoop ==
  ASSUME Base, NEW l \in Loops, LoopStep(l)
  PROVE  Base'
<1> USE PoolAssumption DEF Base, box, registry, pool, memory, tick, trouble,
           TypeOK, BoxOK, RegistryOK, PoolOK, LoopOK, TickOK, BudgetOK, HistoryOK,
           At, To, Works, Fails
<1>1. CASE LoopTop(l)
  <2> USE <1>1 DEF LoopTop
  <2>1. BoxOK' /\ RegistryOK'
    OBVIOUS
  <2>2. PoolOK'
    OBVIOUS
  <2>3. LoopOK' /\ TickOK'
    OBVIOUS
  <2>4. BudgetOK'
    OBVIOUS
  <2>5. HistoryOK'
    OBVIOUS
  <2>6. Known' /\ Busy'
    BY DEF Known, Busy
  <2>7. QED
    BY <2>1, <2>2, <2>3, <2>4, <2>5, <2>6
<1>2. CASE ReadRoster(l)
  <2> USE <1>2 DEF ReadRoster, GiveUp
  <2>1. BoxOK' /\ RegistryOK'
    OBVIOUS
  <2>2. PoolOK'
    OBVIOUS
  <2>3. LoopOK' /\ TickOK'
    OBVIOUS
  <2>4. BudgetOK'
    OBVIOUS
  <2>5. HistoryOK'
    OBVIOUS
  <2>6. Known' /\ Busy'
    BY DEF Known, Busy
  <2>7. QED
    BY <2>1, <2>2, <2>3, <2>4, <2>5, <2>6
<1>3. CASE Acked(l)
  <2> USE <1>3 DEF Acked, GiveUp
  <2>1. TypeOK'
    BY DEF Busy
  <2>2. Known' /\ Busy'
    BY DEF Known, Busy
  <2>3. QED
    BY <2>1, <2>2
<1>4. CASE StartCollect(l)
  <2> USE <1>4 DEF StartCollect, AskAbout
  <2>1. TypeOK'
    OBVIOUS
  <2>2. Known' /\ Busy'
    BY DEF Known, Busy
  <2>3. QED
    BY <2>1, <2>2
<1>5. CASE Replied(l)
  <2> USE <1>5 DEF Replied, AskAbout
  <2>1. TypeOK'
    OBVIOUS
  <2>2. Known' /\ Busy'
    BY DEF Known, Busy
  <2>3. QED
    BY <2>1, <2>2
<1>6. CASE Cancelled(l)
  <2> USE <1>6 DEF Cancelled
  <2>1. TypeOK'
    OBVIOUS
  <2>2. Known' /\ Busy'
    BY DEF Known, Busy
  <2>3. QED
    BY <2>1, <2>2
<1>7. CASE AckThread(l)
  <2> USE <1>7 DEF AckThread
  <2>1. BoxOK' /\ RegistryOK'
    OBVIOUS
  <2>2. PoolOK'
    OBVIOUS
  <2>3. LoopOK' /\ TickOK'
    OBVIOUS
  <2>4. BudgetOK'
    OBVIOUS
  <2>5. HistoryOK'
    OBVIOUS
  <2>6. Known' /\ Busy'
    BY DEF Known, Busy
  <2>7. QED
    BY <2>1, <2>2, <2>3, <2>4, <2>5, <2>6
<1>8. CASE SendThread(l)
  <2> USE <1>8 DEF SendThread
  <2>1. cur[l] \in Runs /\ runOf[cur[l]] \in Ids /\ mail[runOf[cur[l]]] \in Row
    BY DEF Known, Busy, TypeOK, BoxOK, RegistryOK
  <2>2. RegistryOK' /\ PoolOK'
    BY DEF TypeOK, RegistryOK, PoolOK
  <2>3. LoopOK' /\ TickOK'
    BY DEF TypeOK, LoopOK, TickOK
  <2>4. BudgetOK'
    BY DEF TypeOK, BudgetOK
  <2>5. Busy'
    BY DEF TypeOK, LoopOK, Busy
  <2>6. ASSUME NEW m \in Ids, First(m, FreeIds), pushed' = pushed \cup {m},
               Insert(m, mail[runOf[cur[l]]].to, mail[runOf[cur[l]]].from, cur[l])
        PROVE  BoxOK' /\ HistoryOK' /\ Known'
    <3>1. mail[m] = None
      BY <2>6 DEF First, FreeIds
    <3>2. BoxOK' /\ mail'[m] # None /\ \A k \in Ids \ {m} : mail'[k] = mail[k]
      BY <2>1, <2>6, <3>1, InsertRow DEF TypeOK, Row
    <3>3. HistoryOK'
      BY <2>6 DEF TypeOK, HistoryOK
    <3>4. Known'
      BY <2>6, <3>2 DEF Insert, TypeOK, BoxOK, RegistryOK, TickOK, Known
    <3>5. QED
      BY <3>2, <3>3, <3>4
  <2>7. ASSUME UNCHANGED <<mail, unread, pushed>>, calm' \in {calm, FALSE}
        PROVE  BoxOK' /\ HistoryOK' /\ Known'
    <3>1. BoxOK' /\ Known'
      BY <2>7 DEF TypeOK, BoxOK, Known
    <3>2. HistoryOK'
      BY <2>7 DEF TypeOK, HistoryOK
    <3>3. QED
      BY <3>1, <3>2
  <2>8. BoxOK' /\ HistoryOK' /\ Known'
    <3>1. \/ \E m \in Ids : /\ First(m, FreeIds) /\ pushed' = pushed \cup {m}
                            /\ Insert(m, mail[runOf[cur[l]]].to, mail[runOf[cur[l]]].from, cur[l])
          \/ UNCHANGED <<mail, unread, pushed>> /\ calm' \in {calm, FALSE}
      OBVIOUS
    <3>2. QED
      BY <2>6, <2>7, <3>1
  <2>9. QED
    BY <2>2, <2>3, <2>4, <2>5, <2>8 DEF TypeOK
<1>9. CASE StopDone(l)
  <2> USE <1>9 DEF StopDone
  <2>1. TypeOK'
    OBVIOUS
  <2>2. Known' /\ Busy'
    BY DEF Known, Busy
  <2>3. QED
    BY <2>1, <2>2
<1>10. ASSUME NEW a \in Agents, ReadInbox(l, a)
       PROVE  Base'
  <2> USE <1>10 DEF ReadInbox
  <2>1. Oldest(Inbox(a)) \subseteq unread
    BY DEF Oldest, Inbox
  <2>2. BoxOK' /\ RegistryOK'
    BY <2>1
  <2>3. PoolOK'
    BY <2>1
  <2>4. LoopOK' /\ TickOK'
    BY <2>1
  <2>5. BudgetOK'
    BY <2>1
  <2>6. HistoryOK'
    BY <2>1
  <2>7. Known' /\ Busy'
    BY <2>1 DEF Known, Busy
  <2>8. QED
    BY <2>2, <2>3, <2>4, <2>5, <2>6, <2>7
<1>11. ASSUME NEW m \in Ids, Skip(l, m)
       PROVE  Base'
  <2> USE <1>11 DEF Skip, First
  <2>1. TypeOK'
    OBVIOUS
  <2>2. Known' /\ Busy'
    BY DEF Known, Busy
  <2>3. QED
    BY <2>1, <2>2
<1>12. ASSUME NEW m \in Ids, Refuse(l, m)
       PROVE  Base'
  <2> USE <1>12 DEF Refuse, First
  <2>1. BoxOK' /\ RegistryOK'
    OBVIOUS
  <2>2. PoolOK'
    OBVIOUS
  <2>3. LoopOK' /\ TickOK'
    OBVIOUS
  <2>4. BudgetOK'
    OBVIOUS
  <2>5. HistoryOK'
    OBVIOUS
  <2>6. Known' /\ Busy'
    BY DEF Known, Busy
  <2>7. QED
    BY <2>1, <2>2, <2>3, <2>4, <2>5, <2>6
<1>13. ASSUME NEW m \in Ids, NEW r \in Runs, Dispatch(l, m, r)
       PROVE  Base'
  <2> USE <1>13 DEF Dispatch, First, FreeRuns
  <2>1. TypeOK'
    OBVIOUS
  <2>2. Known' /\ Busy'
    BY DEF Known, Busy
  <2>3. QED
    BY <2>1, <2>2
<1>14. ASSUME NEW r \in Runs, Collect(l, r)
       PROVE  Base'
  <2> USE <1>14 DEF Collect, AskAbout, First
  <2>1. TypeOK'
    OBVIOUS
  <2>2. Known' /\ Busy'
    BY DEF Known, Busy
  <2>3. QED
    BY <2>1, <2>2
<1>15. QED
  BY <1>1, <1>2, <1>3, <1>4, <1>5, <1>6, <1>7, <1>8, <1>9, <1>10, <1>11, <1>12, <1>13, <1>14
     DEF LoopStep

-----------------------------------------------------------------------------
(* When start and stop do not overlap only the loop in task is alive, and
   once _running is reset some stop() waits for its end.                    *)
OneLoop ==
  /\ stopping \subseteq {task}
  /\ \A l \in Loops : pc[l] # "off" => l = task /\ (running \/ l \in stopping)

(* A loop holds messages and runs only in the phase that works on them.    *)
Idle == \A l \in Loops :
  /\ pc[l] \notin {"agents", "ack"} => batch[l] = {}
  /\ pc[l] \notin {"collect", "reply"} => asked[l] = {}

(* No run comes from a life of the daemon that is yet to be.               *)
Born == \A r \in Runs : born[r] <= crashes

(* Why a message is not dispatched again in the life that dispatched it: it
   is in flight, or acknowledged and in no loop's hands.                    *)
Shield == \A r \in Runs : runOf[r] # None /\ born[r] = crashes =>
  \/ runOf[r] \in inFlight
  \/ runOf[r] \notin unread /\ \A l \in Loops : runOf[r] \notin batch[l]

(* Only runs whose reply is still owed are asked about.                    *)
Asking == \A l \in Loops : asked[l] \subseteq pending

(* The message of a pending run, and one just acknowledged, is not unread:
   so _forget may take it out of flight.                                    *)
Settled ==
  /\ \A r \in pending : runOf[r] # None /\ runOf[r] \notin unread
  /\ \A l \in Loops : pc[l] = "ack" /\ thread[l] = "ok" => runOf[cur[l]] \notin unread

Once == OneLoop /\ Idle /\ Born /\ Shield /\ Asking /\ Settled /\ NoDoubleDispatch

(* Initially.                                                              *)
LEMMA OnceInit == Init => Once
  BY PoolAssumption DEF Init, Once, OneLoop, Idle, Born, Shield, Asking, Settled, NoDoubleDispatch

(* What Once does not speak of may change. *)
LEMMA OnceFrame ==
  ASSUME Once, UNCHANGED <<unread, runOf, born, running, task, stopping, inFlight, pending, pc,
                           batch, asked, cur, thread, crashes>>
  PROVE  Once'
  BY DEF Once, OneLoop, Idle, Born, Shield, Asking, Settled, NoDoubleDispatch

(* Steps outside the loops: Start finds no other loop, a crash opens a new life. *)
LEMMA OnceUsers ==
  ASSUME Serial, Base, Once, Outside
  PROVE  Once'
<1> USE PoolAssumption DEF Base, Once, box, registry, pool, memory, tick, trouble,
           TypeOK, BoxOK, RegistryOK, PoolOK, LoopOK, TickOK, BudgetOK, HistoryOK
<1>1. ASSUME NEW m \in Ids, NEW from \in Parties, NEW to \in Agents, NEW here \in BOOLEAN,
             Send(m, from, to, here)
      PROVE  Once'
  <2> USE <1>1 DEF Send, Insert
  <2>1. \A r \in Runs : runOf[r] # m
    BY DEF First, FreeIds, Known
  <2>2. OneLoop' /\ Idle'
    BY DEF OneLoop, Idle
  <2>3. Born' /\ NoDoubleDispatch'
    BY DEF Born, NoDoubleDispatch
  <2>4. Shield'
    BY <2>1 DEF Shield
  <2>5. Asking'
    BY DEF Asking
  <2>6. Settled'
    BY <2>1 DEF Known, Busy, Settled
  <2>7. QED
    BY <2>1, <2>2, <2>3, <2>4, <2>5, <2>6
<1>2. ASSUME NEW a \in Agents, NEW here \in BOOLEAN, Register(a, here)
      PROVE  Once'
  BY OnceFrame, <1>2 DEF Register
<1>3. ASSUME NEW a \in Agents, Remove(a)
      PROVE  Once'
  BY OnceFrame, <1>3 DEF Remove
<1>4. ASSUME NEW r \in Runs, NEW s \in {"success", "failed"}, RunEnds(r, s)
      PROVE  Once'
  BY OnceFrame, <1>4 DEF RunEnds
<1>5. ASSUME NEW r \in Runs, Forget(r)
      PROVE  Once'
  BY OnceFrame, <1>5 DEF Forget
<1>6. CASE Notify
  BY OnceFrame, <1>6 DEF Notify
<1>7. CASE Stop
  <2> USE <1>7 DEF Stop
  <2>1. OneLoop' /\ Idle'
    BY DEF OneLoop, Idle
  <2>2. Born' /\ NoDoubleDispatch'
    BY DEF Born, NoDoubleDispatch
  <2>3. Shield' /\ Asking' /\ Settled'
    BY DEF Known, Busy, Shield, Asking, Settled
  <2>4. QED
    BY <2>1, <2>2, <2>3
<1>8. CASE Crash
  <2> USE <1>8 DEF Crash
  <2>1. OneLoop' /\ Idle'
    BY DEF OneLoop, Idle
  <2>2. Born' /\ NoDoubleDispatch'
    BY DEF Born, NoDoubleDispatch
  <2>3. Shield'
    BY DEF Born, Shield
  <2>4. Asking' /\ Settled'
    BY DEF Known, Busy, Asking, Settled
  <2>5. QED
    BY <2>1, <2>2, <2>3, <2>4
<1>9. ASSUME NEW l \in Loops, Start(l)
      PROVE  Once'
  <2> USE <1>9 DEF Start, First
  <2>1. OneLoop' /\ Idle'
    BY DEF OneLoop, Idle
  <2>2. Born' /\ NoDoubleDispatch'
    BY DEF Born, NoDoubleDispatch
  <2>3. Shield'
    BY DEF Known, Busy, Shield
  <2>4. Asking' /\ Settled'
    BY DEF Known, Busy, Asking, Settled
  <2>5. QED
    BY <2>1, <2>2, <2>3, <2>4
<1>10. QED
  BY <1>1, <1>2, <1>3, <1>4, <1>5, <1>6, <1>7, <1>8, <1>9 DEF Outside

(* Steps of the loops: Dispatch needs Shield, Collect needs Settled.        *)
LEMMA OnceLoop ==
  ASSUME Serial, Base, Once, NEW l \in Loops, LoopStep(l)
  PROVE  Once'
<1> USE PoolAssumption DEF Base, Once, box, registry, pool, memory, tick, trouble,
           TypeOK, BoxOK, RegistryOK, PoolOK, LoopOK, TickOK, BudgetOK, HistoryOK,
           At, To, Works, Fails
<1>1. CASE LoopTop(l)
  <2> USE <1>1 DEF LoopTop
  <2>1. OneLoop' /\ Idle'
    BY DEF OneLoop, Idle
  <2>2. Born' /\ NoDoubleDispatch'
    BY DEF Born, NoDoubleDispatch
  <2>3. Shield'
    BY DEF Known, Busy, Shield
  <2>4. Asking' /\ Settled'
    BY DEF Known, Busy, Asking, Settled
  <2>5. QED
    BY <2>1, <2>2, <2>3, <2>4
<1>2. CASE ReadRoster(l)
  <2> USE <1>2 DEF ReadRoster, GiveUp
  <2>1. OneLoop' /\ Idle'
    BY DEF OneLoop, Idle
  <2>2. Born' /\ NoDoubleDispatch'
    BY DEF Born, NoDoubleDispatch
  <2>3. Shield'
    BY DEF Known, Busy, Shield
  <2>4. Asking' /\ Settled'
    BY DEF Known, Busy, Asking, Settled
  <2>5. QED
    BY <2>1, <2>2, <2>3, <2>4
<1>3. CASE Acked(l)
  <2> USE <1>3 DEF Acked, GiveUp
  <2>1. OneLoop' /\ Idle'
    BY DEF OneLoop, Idle
  <2>2. Born' /\ NoDoubleDispatch'
    BY DEF Born, NoDoubleDispatch
  <2>3. Shield'
    BY DEF Known, Busy, Shield
  <2>4. Asking' /\ Settled'
    BY DEF Known, Busy, Asking, Settled
  <2>5. QED
    BY <2>1, <2>2, <2>3, <2>4
<1>4. CASE StartCollect(l)
  <2> USE <1>4 DEF StartCollect, AskAbout
  <2>1. OneLoop' /\ Idle'
    BY DEF OneLoop, Idle
  <2>2. Born' /\ NoDoubleDispatch'
    BY DEF Born, NoDoubleDispatch
  <2>3. Shield'
    BY DEF Known, Busy, Shield
  <2>4. Asking' /\ Settled'
    BY DEF Known, Busy, Asking, Settled
  <2>5. QED
    BY <2>1, <2>2, <2>3, <2>4
<1>5. CASE Replied(l)
  <2> USE <1>5 DEF Replied, AskAbout
  <2>1. OneLoop' /\ Idle'
    BY DEF OneLoop, Idle
  <2>2. Born' /\ NoDoubleDispatch'
    BY DEF Born, NoDoubleDispatch
  <2>3. Shield'
    BY DEF Known, Busy, Shield
  <2>4. Asking' /\ Settled'
    BY DEF Known, Busy, Asking, Settled
  <2>5. QED
    BY <2>1, <2>2, <2>3, <2>4
<1>6. CASE Cancelled(l)
  <2> USE <1>6 DEF Cancelled
  <2>1. OneLoop' /\ Idle'
    BY DEF OneLoop, Idle
  <2>2. Born' /\ NoDoubleDispatch'
    BY DEF Born, NoDoubleDispatch
  <2>3. Shield'
    BY DEF Known, Busy, Shield
  <2>4. Asking' /\ Settled'
    BY DEF Known, Busy, Asking, Settled
  <2>5. QED
    BY <2>1, <2>2, <2>3, <2>4
<1>7. CASE AckThread(l)
  <2> USE <1>7 DEF AckThread
  <2>1. OneLoop' /\ Idle'
    BY DEF OneLoop, Idle
  <2>2. Born' /\ NoDoubleDispatch'
    BY DEF Born, NoDoubleDispatch
  <2>3. Shield'
    BY DEF Known, Busy, Shield
  <2>4. Asking' /\ Settled'
    BY DEF Known, Busy, Asking, Settled
  <2>5. QED
    BY <2>1, <2>2, <2>3, <2>4
<1>8. CASE SendThread(l)
  <2> USE <1>8 DEF SendThread, Insert
  <2>1. \A m \in Ids : First(m, FreeIds) => \A r \in Runs : runOf[r] # m
    BY DEF First, FreeIds, Known
  <2>2. OneLoop' /\ Idle'
    BY DEF OneLoop, Idle
  <2>3. Born' /\ NoDoubleDispatch'
    BY DEF Born, NoDoubleDispatch
  <2>4. Shield'
    BY <2>1 DEF Shield
  <2>5. Asking'
    BY DEF Asking
  <2>6. Settled'
    BY <2>1 DEF Busy, Settled
  <2>7. QED
    BY <2>1, <2>2, <2>3, <2>4, <2>5, <2>6
<1>9. CASE StopDone(l)
  <2> USE <1>9 DEF StopDone
  <2>1. OneLoop' /\ Idle'
    BY DEF OneLoop, Idle
  <2>2. Born' /\ NoDoubleDispatch'
    BY DEF Born, NoDoubleDispatch
  <2>3. Shield'
    BY DEF Known, Busy, Shield
  <2>4. Asking' /\ Settled'
    BY DEF Known, Busy, Asking, Settled
  <2>5. QED
    BY <2>1, <2>2, <2>3, <2>4
<1>10. ASSUME NEW a \in Agents, ReadInbox(l, a)
       PROVE  Once'
  <2> USE <1>10 DEF ReadInbox
  <2>1. Oldest(Inbox(a)) \subseteq unread
    BY DEF Oldest, Inbox
  <2>2. OneLoop' /\ Idle'
    BY DEF OneLoop, Idle
  <2>3. Born' /\ NoDoubleDispatch'
    BY DEF Born, NoDoubleDispatch
  <2>4. Shield'
    BY <2>1 DEF Shield
  <2>5. Asking' /\ Settled'
    BY DEF Known, Busy, Asking, Settled
  <2>6. QED
    BY <2>1, <2>2, <2>3, <2>4, <2>5
<1>11. ASSUME NEW m \in Ids, Skip(l, m)
       PROVE  Once'
  <2> USE <1>11 DEF Skip, First
  <2>1. OneLoop' /\ Idle'
    BY DEF OneLoop, Idle
  <2>2. Born' /\ NoDoubleDispatch'
    BY DEF Born, NoDoubleDispatch
  <2>3. Shield'
    BY DEF Known, Busy, Shield
  <2>4. Asking' /\ Settled'
    BY DEF Known, Busy, Asking, Settled
  <2>5. QED
    BY <2>1, <2>2, <2>3, <2>4
<1>12. ASSUME NEW m \in Ids, Refuse(l, m)
       PROVE  Once'
  <2> USE <1>12 DEF Refuse, First
  <2>1. OneLoop' /\ Idle'
    BY DEF OneLoop, Idle
  <2>2. Born' /\ NoDoubleDispatch'
    BY DEF Born, NoDoubleDispatch
  <2>3. Shield'
    BY DEF Known, Busy, Shield
  <2>4. Asking' /\ Settled'
    BY DEF Known, Busy, Asking, Settled
  <2>5. QED
    BY <2>1, <2>2, <2>3, <2>4
<1>13. ASSUME NEW m \in Ids, NEW r \in Runs, Dispatch(l, m, r)
       PROVE  Once'
  <2> USE <1>13 DEF Dispatch, First, FreeRuns
  <2>1. \A s \in pending : s # r /\ runOf'[s] = runOf[s]
    BY DEF TypeOK, RegistryOK, PoolOK, Settled
  <2>2. OneLoop' /\ Idle'
    BY DEF OneLoop, Idle
  <2>3. Born'
    BY DEF Born
  <2>4. Shield'
    BY DEF Known, Busy, Shield
  <2>5. Asking'
    BY DEF Asking
  <2>6. Settled'
    BY <2>1 DEF Known, Busy, Settled
  <2>7. NoDoubleDispatch'
    BY DEF Born, Shield, NoDoubleDispatch
  <2>8. QED
    BY <2>1, <2>2, <2>3, <2>4, <2>5, <2>6, <2>7
<1>14. ASSUME NEW r \in Runs, Collect(l, r)
       PROVE  Once'
  <2> USE <1>14 DEF Collect, AskAbout, First
  <2>1. /\ runOf[r] \notin unread
        /\ \A k \in Loops : batch[k] = {} /\ (k # l => asked[k] = {})
    BY DEF TypeOK, LoopOK, TickOK, OneLoop, Idle, Asking, Settled
  <2>2. OneLoop' /\ Idle'
    BY DEF OneLoop, Idle
  <2>3. Born' /\ NoDoubleDispatch'
    BY DEF Born, NoDoubleDispatch
  <2>4. Shield'
    BY <2>1 DEF Shield, Asking, Settled
  <2>5. Asking'
    BY <2>1 DEF Asking
  <2>6. Settled'
    BY DEF Known, Busy, Settled
  <2>7. QED
    BY <2>1, <2>2, <2>3, <2>4, <2>5, <2>6
<1>15. QED
  BY <1>1, <1>2, <1>3, <1>4, <1>5, <1>6, <1>7, <1>8, <1>9, <1>10, <1>11, <1>12, <1>13, <1>14
     DEF LoopStep

-----------------------------------------------------------------------------
(* m is the reply to run r.                                                *)
Answers(m, r) == mail[m] # None /\ mail[m].re = r

(* OneReply with what keeps it so: an answered run is not owed a reply.    *)
Answered ==
  \A m \in Ids, r \in Runs : Answers(m, r) =>
    /\ status[r] = "success" /\ runOf[r] # None /\ r \notin pending
    /\ mail[m].from = mail[runOf[r]].to /\ mail[m].to = mail[runOf[r]].from
    /\ \A k \in Ids : Answers(k, r) => k = m

(* A run whose reply is being sent, by the thread of a live or of a cancelled
   loop, is struck out, not answered, and sent by that thread alone.        *)
Sending ==
  \A l \in Loops : thread[l] = "send" =>
    /\ status[cur[l]] = "success" /\ cur[l] \notin pending
    /\ \A m \in Ids : ~Answers(m, cur[l])
    /\ \A k \in Loops : thread[k] = "send" /\ cur[k] = cur[l] => k = l

(* A run that waits for its ack has no reply, sent or on its way.          *)
Fresh ==
  \A l \in Loops : pc[l] = "ack" =>
    /\ cur[l] \notin pending
    /\ \A m \in Ids : ~Answers(m, cur[l])
    /\ \A k \in Loops : thread[k] = "send" => cur[k] # cur[l]

Mailed == Answered /\ Sending /\ Fresh

(* Initially.                                                              *)
LEMMA MailedInit == Init => Mailed
  BY PoolAssumption DEF Init, Mailed, Answers, Answered, Sending, Fresh

(* What Mailed does not speak of may change, and loops may leave their wait and
   threads finish.                                                          *)
LEMMA MailedFrame ==
  ASSUME Mailed, UNCHANGED <<mail, status, runOf, pending, cur>>,
         \A k \in Loops : pc'[k] = "ack" => pc[k] = "ack",
         \A k \in Loops : thread'[k] = "send" => thread[k] = "send"
  PROVE  Mailed'
  BY DEF Mailed, Answers, Answered, Sending, Fresh

(* A pending run alone may be forgotten by the registry, so an answered one is not. *)
LEMMA MailedUsers ==
  ASSUME Serial, Base, Mailed, Outside
  PROVE  Mailed'
<1> USE PoolAssumption DEF Base, Mailed, box, registry, pool, memory, tick, trouble,
           TypeOK, BoxOK, RegistryOK, PoolOK, LoopOK, TickOK, BudgetOK, HistoryOK
<1>1. ASSUME NEW m \in Ids, NEW from \in Parties, NEW to \in Agents, NEW here \in BOOLEAN,
             Send(m, from, to, here)
      PROVE  Mailed'
  <2> USE <1>1 DEF Send
  <2>1. mail[m] = None /\ mail'[m] # None /\ \A k \in Ids \ {m} : mail'[k] = mail[k]
    BY InsertRow DEF First, FreeIds, TypeOK, Parties
  <2>2. \A k \in Ids, r \in Runs : Answers(k, r)' <=> Answers(k, r)
    BY <2>1 DEF Insert, Answers, TypeOK, BoxOK
  <2>3. \A k \in Ids, r \in Runs : Answers(k, r) => k # m
    BY <2>1 DEF Answers
  <2>4. Answered'
    BY <2>1, <2>2, <2>3 DEF Known, Answered
  <2>5. Sending'
    BY <2>2 DEF Busy, Sending
  <2>6. Fresh'
    BY <2>2 DEF Busy, Fresh
  <2>7. QED
    BY <2>1, <2>2, <2>3, <2>4, <2>5, <2>6
<1>2. ASSUME NEW a \in Agents, NEW here \in BOOLEAN, Register(a, here)
      PROVE  Mailed'
  BY MailedFrame, <1>2 DEF Register
<1>3. ASSUME NEW a \in Agents, Remove(a)
      PROVE  Mailed'
  BY MailedFrame, <1>3 DEF Remove
<1>4. ASSUME NEW r \in Runs, NEW s \in {"success", "failed"}, RunEnds(r, s)
      PROVE  Mailed'
  <2> USE <1>4 DEF RunEnds
  <2>1. Answered'
    BY DEF Known, Answered, Answers
  <2>2. Sending'
    BY DEF Busy, Sending, Answers
  <2>3. Fresh'
    BY DEF Busy, Fresh, Answers
  <2>4. QED
    BY <2>1, <2>2, <2>3
<1>5. ASSUME NEW r \in Runs, Forget(r)
      PROVE  Mailed'
  <2> USE <1>5 DEF Forget
  <2>1. Answered'
    BY DEF Known, Answered, Answers
  <2>2. Sending'
    BY DEF Busy, Sending, Answers
  <2>3. Fresh'
    BY DEF Busy, Fresh, Answers
  <2>4. QED
    BY <2>1, <2>2, <2>3
<1>6. CASE Notify
  BY MailedFrame, <1>6 DEF Notify
<1>7. CASE Stop
  BY MailedFrame, <1>7 DEF Stop
<1>8. CASE Crash
  <2> USE <1>8 DEF Crash
  <2>1. Answered'
    BY DEF Known, Answered, Answers
  <2>2. Sending'
    BY DEF Busy, Sending, Answers
  <2>3. Fresh'
    BY DEF Busy, Fresh, Answers
  <2>4. QED
    BY <2>1, <2>2, <2>3
<1>9. ASSUME NEW l \in Loops, Start(l)
      PROVE  Mailed'
  <2> USE <1>9 DEF Start, First
  <2>1. Answered'
    BY DEF Known, Answered, Answers
  <2>2. Sending'
    BY DEF Busy, Sending, Answers
  <2>3. Fresh'
    BY DEF Busy, Fresh, Answers
  <2>4. QED
    BY <2>1, <2>2, <2>3
<1>10. QED
  BY <1>1, <1>2, <1>3, <1>4, <1>5, <1>6, <1>7, <1>8, <1>9 DEF Outside

(* Acked needs Fresh, Collect needs Answered, SendThread needs Sending.     *)
LEMMA MailedLoop ==
  ASSUME Serial, Base, Once, Mailed, NEW l \in Loops, LoopStep(l)
  PROVE  Mailed'
<1> USE PoolAssumption DEF Base, Mailed, box, registry, pool, memory, tick, trouble,
           TypeOK, BoxOK, RegistryOK, PoolOK, LoopOK, TickOK, BudgetOK, HistoryOK,
           At, To, Works, Fails
<1>1. CASE LoopTop(l)
  BY MailedFrame, <1>1 DEF LoopTop
<1>2. CASE ReadRoster(l)
  BY MailedFrame, <1>2 DEF ReadRoster, GiveUp
<1>3. CASE Acked(l)
  <2> USE <1>3 DEF Acked, GiveUp
  <2>1. \A k \in Loops : pc[k] = "ack" => k = l
    BY DEF Once, OneLoop
  <2>2. Answered'
    BY DEF Answered, Answers, Fresh
  <2>3. Sending'
    BY <2>1 DEF Busy, Sending, Answers, Fresh
  <2>4. Fresh'
    BY <2>1 DEF Busy, Fresh, Answers
  <2>5. QED
    BY <2>1, <2>2, <2>3, <2>4
<1>4. CASE StartCollect(l)
  BY MailedFrame, <1>4 DEF StartCollect, AskAbout
<1>5. CASE Replied(l)
  <2> USE <1>5 DEF Replied, AskAbout
  <2>1. Answered'
    BY DEF Known, Answered, Answers
  <2>2. Sending'
    BY DEF Busy, Sending, Answers
  <2>3. Fresh'
    BY DEF Busy, Fresh, Answers
  <2>4. QED
    BY <2>1, <2>2, <2>3
<1>6. CASE Cancelled(l)
  BY MailedFrame, <1>6 DEF Cancelled
<1>7. CASE AckThread(l)
  BY MailedFrame, <1>7 DEF AckThread
<1>8. CASE SendThread(l)
  <2> USE <1>8 DEF SendThread
  <2>1. cur[l] \in Runs /\ runOf[cur[l]] \in Ids /\ mail[runOf[cur[l]]] \in Row
    BY DEF Known, Busy, TypeOK, BoxOK, RegistryOK
  <2>2. ASSUME NEW m \in Ids, First(m, FreeIds),
               Insert(m, mail[runOf[cur[l]]].to, mail[runOf[cur[l]]].from, cur[l])
        PROVE  Answered'
    <3>1. mail[m] = None
      BY <2>2 DEF First, FreeIds
    <3>2. /\ mail'[m] = [from |-> mail[runOf[cur[l]]].to, to |-> mail[runOf[cur[l]]].from, re |-> cur[l]]
          /\ mail'[m] # None /\ \A k \in Ids \ {m} : mail'[k] = mail[k]
      BY <2>1, <2>2, <3>1, InsertRow DEF TypeOK, Row
    <3>3. \A k \in Ids, r \in Runs :
             Answers(k, r)' <=> Answers(k, r) \/ (k = m /\ r = cur[l])
      BY <3>1, <3>2 DEF Answers
    <3>4. \A r \in Runs : runOf[r] # None => runOf[r] \in Ids /\ mail'[runOf[r]] = mail[runOf[r]]
      BY <3>1, <3>2 DEF Known, TypeOK, RegistryOK
    <3>5. \A k \in Ids, r \in Runs : Answers(k, r) => k # m /\ r # cur[l]
      BY <3>1 DEF Answers, Sending
    <3>6. status[cur[l]] = "success" /\ cur[l] \notin pending /\ runOf[cur[l]] # None
      BY DEF Sending, Busy
    <3>7. ASSUME NEW k \in Ids, NEW r \in Runs, Answers(k, r)
          PROVE  /\ status'[r] = "success" /\ runOf'[r] # None /\ r \notin pending'
                 /\ mail'[k].from = mail'[runOf'[r]].to /\ mail'[k].to = mail'[runOf'[r]].from
                 /\ \A j \in Ids : Answers(j, r)' => j = k
      BY <3>2, <3>3, <3>4, <3>5, <3>7 DEF Answered
    <3>8. /\ mail'[m].from = mail'[runOf'[cur[l]]].to /\ mail'[m].to = mail'[runOf'[cur[l]]].from
          /\ \A j \in Ids : Answers(j, cur[l])' => j = m
      BY <2>1, <3>2, <3>3, <3>4, <3>5, <3>6
    <3>9. QED
      BY <2>1, <3>3, <3>6, <3>7, <3>8 DEF Answered
  <2>3. Answered'
    <3>1. CASE \E m \in Ids : /\ First(m, FreeIds)
                              /\ Insert(m, mail[runOf[cur[l]]].to, mail[runOf[cur[l]]].from, cur[l])
      BY <2>2, <3>1
    <3>2. CASE UNCHANGED mail
      BY <3>2 DEF Answered, Answers
    <3>3. QED
      BY <3>1, <3>2
  <2>4. Sending'
    BY DEF Insert, TypeOK, BoxOK, RegistryOK, PoolOK, LoopOK, Busy, Sending, Answers
  <2>5. Fresh'
    BY DEF Insert, TypeOK, BoxOK, RegistryOK, PoolOK, LoopOK, Busy, Fresh, Answers
  <2>6. QED
    BY <2>3, <2>4, <2>5
<1>9. CASE StopDone(l)
  BY MailedFrame, <1>9 DEF StopDone
<1>10. ASSUME NEW a \in Agents, ReadInbox(l, a)
       PROVE  Mailed'
  BY MailedFrame, <1>10 DEF ReadInbox
<1>11. ASSUME NEW m \in Ids, Skip(l, m)
       PROVE  Mailed'
  BY MailedFrame, <1>11 DEF Skip, First
<1>12. ASSUME NEW m \in Ids, Refuse(l, m)
       PROVE  Mailed'
  BY MailedFrame, <1>12 DEF Refuse, First
<1>13. ASSUME NEW m \in Ids, NEW r \in Runs, Dispatch(l, m, r)
       PROVE  Mailed'
  <2> USE <1>13 DEF Dispatch, First, FreeRuns
  <2>1. r \notin pending /\ \A k \in Loops : pc[k] = "ack" => k = l
    BY DEF Once, OneLoop, Settled
  <2>2. Answered'
    BY DEF Known, Answered, Answers
  <2>3. Sending'
    BY DEF Busy, Sending, Answers
  <2>4. Fresh'
    BY <2>1 DEF Busy, Fresh, Answers, Answered, Settled
  <2>5. QED
    BY <2>1, <2>2, <2>3, <2>4
<1>14. ASSUME NEW r \in Runs, Collect(l, r)
       PROVE  Mailed'
  <2> USE <1>14 DEF Collect, AskAbout, First
  <2>1. r \in pending /\ \A k \in Loops : pc[k] # "ack"
    BY DEF Once, OneLoop, Asking, TypeOK, LoopOK, TickOK
  <2>2. Answered'
    BY DEF Known, Answered, Answers
  <2>3. Sending'
    BY <2>1 DEF Busy, Sending, Answers, Answered
  <2>4. Fresh'
    BY <2>1 DEF Busy, Fresh, Answers
  <2>5. QED
    BY <2>1, <2>2, <2>3, <2>4
<1>15. QED
  BY <1>1, <1>2, <1>3, <1>4, <1>5, <1>6, <1>7, <1>8, <1>9, <1>10, <1>11, <1>12, <1>13, <1>14
     DEF LoopStep

-----------------------------------------------------------------------------
(* A message leaves unread only by the ack of a run that was started for it. *)
LEMMA LostNothing ==
  ASSUME Base, AtLeastOnce, [Next]_vars
  PROVE  AtLeastOnce'
<1> USE PoolAssumption DEF Base, box, registry, pool, memory, tick, trouble, At, To, Works, Fails
<1>1. ASSUME UNCHANGED <<mail, unread, runOf>>
      PROVE  AtLeastOnce'
  BY <1>1 DEF AtLeastOnce
<1>2. ASSUME NEW m \in Ids, NEW from, NEW to, NEW re, Insert(m, from, to, re), UNCHANGED runOf
      PROVE  AtLeastOnce'
  BY <1>2 DEF Insert, AtLeastOnce, TypeOK, BoxOK
<1>3. CASE Outside
  BY <1>1, <1>2, <1>3 DEF Outside, Send, Register, Remove, RunEnds, Forget, Notify, Stop, Crash, Start
<1>4. ASSUME NEW l \in Loops, LoopStep(l)
      PROVE  AtLeastOnce'
  <2>1. CASE AckThread(l)
    <3>1. cur[l] \in Runs
      BY <2>1 DEF AckThread, Busy
    <3>2. QED
      BY <2>1, <3>1 DEF AckThread, AtLeastOnce
  <2>2. CASE SendThread(l)
    BY <1>1, <1>2, <2>2 DEF SendThread
  <2>3. ASSUME NEW m \in Ids, NEW r \in Runs, Dispatch(l, m, r)
        PROVE  AtLeastOnce'
    BY <2>3 DEF Dispatch, First, FreeRuns, AtLeastOnce, TypeOK, RegistryOK
  <2>4. CASE LoopTop(l) \/ ReadRoster(l) \/ Acked(l) \/ StartCollect(l) \/ Replied(l)
             \/ Cancelled(l) \/ StopDone(l)
    BY <1>1, <2>4 DEF LoopTop, ReadRoster, Acked, StartCollect, Replied, Cancelled, StopDone
  <2>5. ASSUME NEW a \in Agents, ReadInbox(l, a)
        PROVE  AtLeastOnce'
    BY <1>1, <2>5 DEF ReadInbox
  <2>6. ASSUME NEW m \in Ids, Skip(l, m) \/ Refuse(l, m)
        PROVE  AtLeastOnce'
    BY <1>1, <2>6 DEF Skip, Refuse
  <2>7. ASSUME NEW r \in Runs, Collect(l, r)
        PROVE  AtLeastOnce'
    BY <1>1, <2>7 DEF Collect
  <2>8. QED
    BY <1>4, <2>1, <2>2, <2>3, <2>4, <2>5, <2>6, <2>7 DEF LoopStep
<1>5. CASE UNCHANGED vars
  BY <1>1, <1>5 DEF vars
<1>6. QED
  BY <1>3, <1>4, <1>5 DEF Next

(* Stuttering.                                                             *)
LEMMA BaseStutters == ASSUME Base, UNCHANGED vars PROVE Base'
  BY DEF Base, TypeOK, BoxOK, RegistryOK, PoolOK, LoopOK, TickOK, BudgetOK, HistoryOK, Known, Busy,
         vars, box, registry, pool, memory, tick, trouble

(* The types, and what memory refers to, in every reachable state.         *)
THEOREM BaseHolds == Spec => []Base
<1>1. Base /\ [Next]_vars => Base'
  BY BaseUsers, BaseLoop, BaseStutters DEF Next
<1>2. QED
  BY BaseInit, <1>1, PTL DEF Spec

(* The state of mailbox, roster, registry and pool is always well typed.   *)
THEOREM TypeCorrect == Spec => []TypeOK
<1>1. Base => TypeOK
  BY DEF Base
<1>2. QED
  BY BaseHolds, <1>1, PTL

(* At-least-once (team_mailbox.py:5): no message of the mailbox is ever
   acknowledged without a run, whatever fails, stops, overlaps or crashes.  *)
THEOREM NothingLost == Spec => []AtLeastOnce
<1>1. Init => AtLeastOnce
  BY DEF Init, AtLeastOnce
<1>2. QED
  BY <1>1, BaseHolds, LostNothing, PTL DEF Spec

(* Stuttering.                                                             *)
LEMMA OnceStutters == ASSUME Once, UNCHANGED vars PROVE Once'
  BY OnceFrame DEF vars, box, registry, pool, memory, tick, trouble

(* One loop, and a message in flight until its ack is certain.             *)
THEOREM OnceHolds == ASSUME Serial PROVE Spec => []Once
<1>1. Base /\ Once /\ [Next]_vars => Once'
  BY OnceUsers, OnceLoop, OnceStutters DEF Next
<1>2. QED
  BY OnceInit, BaseHolds, <1>1, PTL DEF Spec

(* docs/team-messaging.md:72, no double dispatch inside one process, when
   start and stop do not overlap.                                           *)
THEOREM DispatchedOnce == ASSUME Serial PROVE Spec => []NoDoubleDispatch
<1>1. Once => NoDoubleDispatch
  BY DEF Once
<1>2. QED
  BY OnceHolds, <1>1, PTL

(* Stuttering.                                                             *)
LEMMA MailedStutters == ASSUME Mailed, UNCHANGED vars PROVE Mailed'
  BY MailedFrame DEF vars, box, registry, pool, memory, tick, trouble

(* A run is answered at most once, after its success, from the agent that
   received the question to the party that asked it, even when the loop that
   sends the reply is cancelled and a new one has started.                  *)
THEOREM RepliedOnce == ASSUME Serial PROVE Spec => []OneReply
<1>1. Base /\ Once /\ Mailed /\ [Next]_vars => Mailed'
  BY MailedUsers, MailedLoop, MailedStutters DEF Next
<1>2. Base /\ Mailed => OneReply
  BY PoolAssumption DEF Base, TypeOK, BoxOK, Row, Mailed, Answered, Answers, OneReply
<1>3. QED
  BY MailedInit, BaseHolds, OnceHolds, <1>1, <1>2, PTL DEF Spec

-----------------------------------------------------------------------------
(* The part of a tick that is still to come reads the inbox of m's recipient. *)
Ahead(l, m) == pc[l] \in {"top", "roster"} \/ (pc[l] \in {"agents", "ack"} /\ mail[m].to \in agents[l])

(* WakeNotLost for every announced message, its recipient on the roster or
   not: an agent may be registered by another process.  A loop that is told to
   stop has not ended, so the one that is started next is not told.          *)
Heard ==
  /\ \A m \in pushed : mail[m] # None
  /\ \A l \in cancelled : pc[l] # "off"
  /\ \A l \in Loops : Live(l) => \A m \in pushed : wake \/ Ahead(l, m)

(* Initially.                                                              *)
LEMMA HeardInit == Init => Heard
  BY DEF Init, Heard, Live

(* What Heard does not speak of may change, wakes may come and announced
   messages be read.                                                        *)
LEMMA HeardFrame ==
  ASSUME Heard, UNCHANGED <<mail, agents>>, pushed' \subseteq pushed, wake => wake',
         \A l \in cancelled' : pc'[l] # "off",
         \A l \in Loops : Live(l)' => Live(l),
         \A l \in Loops : Live(l) /\ pc'[l] # pc[l] => pushed' = {}
  PROVE  Heard'
  BY DEF Heard, Ahead

(* Whatever is announced sets the event; a loop that starts reads everything. *)
LEMMA HeardUsers ==
  ASSUME Serial, Base, Once, Heard, Outside
  PROVE  Heard'
<1> USE PoolAssumption DEF Base, Heard, Ahead, Live, box, registry, pool, memory, tick, trouble,
           TypeOK, BoxOK, RegistryOK, PoolOK, LoopOK, TickOK, BudgetOK, HistoryOK
<1>1. ASSUME NEW m \in Ids, NEW from \in Parties, NEW to \in Agents, NEW here \in BOOLEAN,
             Send(m, from, to, here)
      PROVE  Heard'
  <2> USE <1>1 DEF Send
  <2>1. mail[m] = None /\ mail'[m] # None /\ \A k \in Ids \ {m} : mail'[k] = mail[k]
    BY InsertRow DEF First, FreeIds, Parties
  <2>2. m \notin pushed
    BY <2>1
  <2>3. QED
    BY <2>1, <2>2
<1>2. ASSUME NEW a \in Agents, NEW here \in BOOLEAN, Register(a, here)
      PROVE  Heard'
  BY <1>2 DEF Register, Inbox, Known
<1>3. CASE Notify
  BY <1>3 DEF Notify, Known
<1>4. CASE Stop
  BY <1>4 DEF Stop
<1>5. CASE Crash
  BY <1>5 DEF Crash
<1>6. ASSUME NEW l \in Loops, Start(l)
      PROVE  Heard'
  <2>1. pc[l] = "off" /\ pc' = [pc EXCEPT ![l] = "top"]
    BY <1>6 DEF Start, First
  <2>2. UNCHANGED <<mail, pushed, wake, agents, cancelled>>
    BY <1>6 DEF Start
  <2>3. QED
    BY <2>1, <2>2
<1>7. CASE UNCHANGED <<mail, agents, pushed, wake, pc, cancelled>>
  BY <1>7
<1>8. QED
  BY <1>1, <1>2, <1>3, <1>4, <1>5, <1>6, <1>7 DEF Outside, Remove, RunEnds, Forget

(* The event is cleared before the tick that reads, and by the one live loop. *)
LEMMA HeardLoop ==
  ASSUME Serial, Base, Once, Heard, NEW l \in Loops, LoopStep(l)
  PROVE  Heard'
<1> USE PoolAssumption DEF Base, Heard, Ahead, Live, box, registry, pool, memory, tick, trouble,
           TypeOK, BoxOK, RegistryOK, PoolOK, LoopOK, TickOK, BudgetOK, HistoryOK, At, To
<1>1. CASE LoopTop(l)
  <2>1. \A k \in Loops : k # l => pc[k] = "off"
    BY <1>1 DEF LoopTop, Once, OneLoop
  <2>2. QED
    BY <1>1, <2>1 DEF LoopTop
<1>2. CASE ReadRoster(l)
  <2>1. \A k \in Loops : k # l => pc[k] = "off"
    BY <1>2 DEF ReadRoster, Once, OneLoop
  <2>2. CASE pushed' = {}
    BY <1>2, <2>2 DEF ReadRoster, GiveUp
  <2>3. CASE /\ pc' = [pc EXCEPT ![l] = "agents"] /\ agents' = [agents EXCEPT ![l] = enabled]
             /\ pushed' = {m \in pushed : mail[m].to \in enabled}
    BY <1>2, <2>1, <2>3 DEF ReadRoster
  <2>4. QED
    BY <1>2, <2>2, <2>3 DEF ReadRoster, GiveUp
<1>3. CASE Acked(l)
  <2>1. CASE pushed' = {}
    BY <1>3, <2>1 DEF Acked, GiveUp
  <2>2. CASE pc' = [pc EXCEPT ![l] = "agents"] /\ UNCHANGED <<agents, pushed>>
    BY <1>3, <2>2 DEF Acked
  <2>3. QED
    BY <1>3, <2>1, <2>2 DEF Acked, GiveUp
<1>4. CASE StartCollect(l)
  BY <1>4 DEF StartCollect, AskAbout
<1>5. CASE Replied(l)
  BY <1>5 DEF Replied, AskAbout
<1>6. CASE Cancelled(l)
  <2>1. \A k \in Loops : k # l => pc[k] = "off"
    BY <1>6 DEF Cancelled, Once, OneLoop
  <2>2. QED
    BY <1>6, <2>1 DEF Cancelled
<1>7. CASE AckThread(l)
  BY <1>7 DEF AckThread
<1>8. CASE SendThread(l)
  <2>1. CASE UNCHANGED <<mail, wake, pushed>>
    BY <1>8, <2>1 DEF SendThread
  <2>2. ASSUME NEW m \in Ids, First(m, FreeIds), pushed' = pushed \cup {m}, wake',
               Insert(m, mail[runOf[cur[l]]].to, mail[runOf[cur[l]]].from, cur[l])
        PROVE  Heard'
    <3>1. cur[l] \in Runs /\ runOf[cur[l]] \in Ids /\ mail[runOf[cur[l]]] \in Row
      BY <1>8 DEF SendThread, Known, Busy
    <3>2. mail[m] = None
      BY <2>2 DEF First, FreeIds
    <3>3. mail'[m] # None /\ \A k \in Ids \ {m} : mail'[k] = mail[k]
      BY <2>2, <3>1, <3>2, ReplyRow
    <3>4. QED
      BY <1>8, <2>2, <3>3 DEF SendThread
  <2>3. QED
    BY <1>8, <2>1, <2>2 DEF SendThread
<1>9. CASE StopDone(l)
  BY <1>9 DEF StopDone
<1>10. ASSUME NEW a \in Agents, ReadInbox(l, a)
       PROVE  Heard'
  BY <1>10 DEF ReadInbox
<1>11. ASSUME NEW m \in Ids, Skip(l, m) \/ Refuse(l, m)
       PROVE  Heard'
  BY <1>11 DEF Skip, Refuse
<1>12. ASSUME NEW m \in Ids, NEW r \in Runs, Dispatch(l, m, r)
       PROVE  Heard'
  BY <1>12 DEF Dispatch
<1>13. ASSUME NEW r \in Runs, Collect(l, r)
       PROVE  Heard'
  BY <1>13 DEF Collect, AskAbout
<1>14. QED
  BY <1>1, <1>2, <1>3, <1>4, <1>5, <1>6, <1>7, <1>8, <1>9, <1>10, <1>11, <1>12, <1>13
     DEF LoopStep

-----------------------------------------------------------------------------
(* ReplyOwed from the dispatch on: an accepted run that has not failed is
   answered, pending, or what some loop works on.  Until something goes wrong
   no thread ends in an error and no loop is cancelled; a thread that ended
   well in a reply has mailed it.                                           *)
Owed ==
  /\ \A l \in Loops : pc[l] = "reply" /\ thread[l] = "ok" => \E m \in Ids : Answers(m, cur[l])
  /\ calm => /\ cancelled = {} /\ \A l \in Loops : thread[l] # "error"
             /\ \A r \in Runs : runOf[r] # None /\ status[r] # "failed" =>
                  \/ r \in pending
                  \/ \E l \in Loops : cur[l] = r /\ pc[l] \in {"ack", "reply"}
                  \/ \E m \in Ids : Answers(m, r)

(* Initially.                                                              *)
LEMMA OwedInit == Init => Owed
  BY DEF Init, Owed

(* What Owed does not speak of may change, mail may come, loops that wait for
   no thread go on, and anything happens to them once something went wrong. *)
LEMMA OwedFrame ==
  ASSUME Owed, UNCHANGED <<runOf, status, pending, cur, thread>>,
         \A m \in Ids, r \in Runs \cup {None} : Answers(m, r) => Answers(m, r)',
         cur \in [Loops -> Runs \cup {None}],
         \A l \in Loops : pc'[l] = "reply" => pc[l] = "reply",
         calm' => calm /\ cancelled' = {}
                  /\ \A l \in Loops : pc[l] \in {"ack", "reply"} => pc'[l] = pc[l]
  PROVE  Owed'
  BY DEF Owed

(* The registry forgets pending runs only, and they stay pending.          *)
LEMMA OwedUsers ==
  ASSUME Base, Owed, Outside
  PROVE  Owed'
<1> USE PoolAssumption DEF Base, box, registry, pool, memory, tick, trouble,
           TypeOK, BoxOK, RegistryOK, PoolOK, LoopOK, TickOK, BudgetOK, HistoryOK
<1>1. ASSUME NEW m \in Ids, NEW from \in Parties, NEW to \in Agents, NEW here \in BOOLEAN,
             Send(m, from, to, here)
      PROVE  Owed'
  <2>1. mail[m] = None /\ mail'[m] # None /\ \A k \in Ids \ {m} : mail'[k] = mail[k]
    BY <1>1, InsertRow DEF Send, First, FreeIds, Parties
  <2>2. \A k \in Ids, r \in Runs \cup {None} : Answers(k, r) => Answers(k, r)'
    BY <2>1 DEF Answers
  <2>3. QED
    BY <1>1, <2>2, OwedFrame DEF Send, Owed
<1>2. ASSUME UNCHANGED <<mail, runOf, status, pending, cur, thread, pc, cancelled, calm>>
      PROVE  Owed'
  BY <1>2 DEF Owed, Answers
<1>3. ASSUME NEW r \in Runs, NEW s \in {"success", "failed"}, RunEnds(r, s)
      PROVE  Owed'
  BY <1>3 DEF RunEnds, Owed, Answers
<1>4. ASSUME NEW r \in Runs, Forget(r)
      PROVE  Owed'
  BY <1>4 DEF Forget, Owed, Answers
<1>5. CASE Stop
  BY <1>5 DEF Stop, Owed, Answers
<1>6. CASE Crash
  BY <1>6 DEF Crash, Owed
<1>7. ASSUME NEW l \in Loops, Start(l)
      PROVE  Owed'
  <2>1. pc[l] = "off"
    BY <1>7 DEF Start, First
  <2>2. QED
    BY <1>7, <2>1 DEF Start, Owed, Answers
<1>8. QED
  BY <1>1, <1>2, <1>3, <1>4, <1>5, <1>6, <1>7 DEF Outside, Register, Remove, Notify

(* A run is struck out only to be answered, or because it failed.          *)
LEMMA OwedLoop ==
  ASSUME Base, Owed, NEW l \in Loops, LoopStep(l)
  PROVE  Owed'
<1> USE PoolAssumption DEF Base, box, registry, pool, memory, tick, trouble,
           TypeOK, BoxOK, RegistryOK, PoolOK, LoopOK, TickOK, BudgetOK, HistoryOK,
           At, To, Works, Fails
<1>1. CASE LoopTop(l)
  BY <1>1, OwedFrame DEF LoopTop, Owed, Answers
<1>2. CASE ReadRoster(l)
  BY <1>2, OwedFrame DEF ReadRoster, GiveUp, Owed, Answers
<1>3. CASE Acked(l)
  <2>1. CASE thread[l] = "error"
    BY <1>3, <2>1 DEF Acked, GiveUp, Owed, Answers
  <2>2. CASE thread[l] = "ok"
    BY <1>3, <2>2 DEF Acked, Owed, Answers
  <2>3. QED
    BY <1>3, <2>1, <2>2 DEF Acked
<1>4. CASE StartCollect(l)
  BY <1>4, OwedFrame DEF StartCollect, AskAbout, Owed, Answers
<1>5. CASE Replied(l)
  BY <1>5 DEF Replied, AskAbout, Owed, Answers
<1>6. CASE Cancelled(l)
  BY <1>6 DEF Cancelled, Owed, Answers
<1>7. CASE AckThread(l)
  <2>1. thread[l] = "ack" /\ pc[l] # "reply"
    BY <1>7 DEF AckThread, Busy
  <2>2. QED
    BY <1>7, <2>1 DEF AckThread, Owed, Answers
<1>8. CASE SendThread(l)
  <2>1. cur[l] \in Runs /\ runOf[cur[l]] \in Ids /\ mail[runOf[cur[l]]] \in Row
    BY <1>8 DEF SendThread, Known, Busy
  <2>2. CASE UNCHANGED mail /\ thread' = [thread EXCEPT ![l] = "error"] /\ calm' = FALSE
    BY <1>8, <2>2 DEF SendThread, Owed, Answers
  <2>3. ASSUME NEW m \in Ids, First(m, FreeIds), thread' = [thread EXCEPT ![l] = "ok"],
               Insert(m, mail[runOf[cur[l]]].to, mail[runOf[cur[l]]].from, cur[l]),
               UNCHANGED calm
        PROVE  Owed'
    <3>1. mail[m] = None
      BY <2>3 DEF First, FreeIds
    <3>2. /\ mail'[m] # None /\ mail'[m].re = cur[l]
          /\ \A k \in Ids \ {m} : mail'[k] = mail[k]
      BY <2>1, <2>3, <3>1, ReplyRow
    <3>3. \A k \in Ids, r \in Runs \cup {None} : Answers(k, r) => Answers(k, r)'
      BY <3>1, <3>2 DEF Answers
    <3>4. \E k \in Ids : Answers(k, cur[l])'
      BY <1>8, <3>2 DEF Answers, SendThread
    <3>5. QED
      BY <1>8, <2>3, <3>3, <3>4 DEF SendThread, Owed
  <2>4. QED
    BY <1>8, <2>2, <2>3 DEF SendThread
<1>9. CASE StopDone(l)
  BY <1>9, OwedFrame DEF StopDone, Owed, Answers
<1>10. ASSUME NEW a \in Agents, ReadInbox(l, a)
       PROVE  Owed'
  BY <1>10, OwedFrame DEF ReadInbox, Owed, Answers
<1>11. ASSUME NEW m \in Ids, Skip(l, m) \/ Refuse(l, m)
       PROVE  Owed'
  BY <1>11, OwedFrame DEF Skip, Refuse, Owed, Answers
<1>12. ASSUME NEW m \in Ids, NEW r \in Runs, Dispatch(l, m, r)
       PROVE  Owed'
  BY <1>12 DEF Dispatch, Owed, Answers
<1>13. ASSUME NEW r \in Runs, Collect(l, r)
       PROVE  Owed'
  <2>1. CASE status[r] \in {"running", "gone"}
    BY <1>13, <2>1 DEF Collect, AskAbout, Owed, Answers
  <2>2. CASE status[r] = "failed"
    BY <1>13, <2>2 DEF Collect, AskAbout, Owed, Answers
  <2>3. CASE status[r] = "success"
    BY <1>13, <2>3 DEF Collect, Owed, Answers
  <2>4. QED
    BY <1>13, <2>1, <2>2, <2>3 DEF Collect
<1>14. QED
  BY <1>1, <1>2, <1>3, <1>4, <1>5, <1>6, <1>7, <1>8, <1>9, <1>10, <1>11, <1>12, <1>13
     DEF LoopStep

-----------------------------------------------------------------------------
(* Stuttering.                                                             *)
LEMMA HeardOwedStutter ==
  ASSUME UNCHANGED vars
  PROVE  (Heard => Heard') /\ (Owed => Owed')
  BY DEF Heard, Ahead, Live, Owed, Answers, vars, box, registry, pool, memory, tick, trouble

(* The comment in _loop (runner_pool.py:95): when start and stop do not
   overlap no wake is swallowed, at whatever point of a tick it comes.      *)
THEOREM NoWakeSwallowed == ASSUME Serial PROVE Spec => []WakeNotLost
<1>1. Base /\ Once /\ Heard /\ [Next]_vars => Heard'
  BY HeardUsers, HeardLoop, HeardOwedStutter DEF Next
<1>2. Heard => WakeNotLost
  BY DEF Heard, Ahead, WakeNotLost
<1>3. QED
  BY HeardInit, BaseHolds, OnceHolds, <1>1, <1>2, PTL DEF Spec

(* docs/team-messaging.md:67: while nothing fails, the reply to a run that
   ended in success is mailed or on its way.                                *)
THEOREM RepliesComing == Spec => []ReplyOwed
<1>1. Base /\ Owed /\ [Next]_vars => Owed'
  BY OwedUsers, OwedLoop, HeardOwedStutter DEF Next
<1>2. Base /\ Owed => ReplyOwed
  BY DEF Base, Known, Owed, Answers, ReplyOwed
<1>3. QED
  BY OwedInit, BaseHolds, <1>1, <1>2, PTL DEF Spec

=============================================================================
