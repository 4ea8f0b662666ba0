-------------------------- MODULE RunRegistryProofs --------------------------
(***************************************************************************)
(* Proofs about RunRegistry, for any nodes, gates, directives, any nodes   *)
(* with continue_on_error, any number of overlapping tasks, of crashes and *)
(* of operations of the store that fail.                                   *)
(*                                                                         *)
(* The inductive invariant, besides the types:                             *)
(*   Down      a daemon that is down has no task and no engine entry;      *)
(*   Known     past its recall a task has an execution the engine knows,   *)
(*             in a node it is at a node, and it has a verdict from its    *)
(*             end on and none before;                                     *)
(*   Backed    an active record has a task that is not yet closing: the    *)
(*             close of one that is may follow at any time;                *)
(*   Earned    a success in any list of steps, snapshot or row is one that *)
(*             was really there; what a task has passed was one, or a node *)
(*             that may fail; a verdict of success has no denied step;     *)
(*   Quiet     before the run is released, its only task stands where it   *)
(*             can go on to a stop, and to no node.                        *)
(***************************************************************************)
EXTENDS RunRegistry, TLAPS

Statuses == Active \cup Good \cup {"none", "failed", "cancelled"}
Places   == {"none", "recall", "boundary", "parked", "stranded", "woken", "ask", "unheard",
             "run", "ending", "closing", "ended"}
Fins     == Good \cup {"running", "failed", "cancelled"}

StoreOK == /\ row \in Row \cup {None} /\ leftover \in BOOLEAN /\ faults \in 0..MaxFaults

Clean(ss) == \A n \in Nodes : <<n, "denied">> \notin ss

Works(t) == pc[t] \notin {"none", "ended", "closing"}

Down == ~up => /\ \A t \in Tasks : pc[t] = "none"
               /\ evt = "none" /\ flag = "none" /\ killed = {} /\ status = "none"

Known == \A t \in Tasks :
  /\ pc[t] \notin {"none", "recall", "ended"} => latest # None
  /\ pc[t] \in {"run", "ask", "unheard"} => idx[t] <= Len(Order)
  /\ pc[t] = "ending" /\ t \notin unwinding => fin[t] # "running"
  /\ pc[t] \notin {"ending", "closing", "ended"} => fin[t] = "running"

Backed == up /\ status \in Active => \E t \in Tasks : Works(t)

EarnedByTasks == \A t \in Tasks :
  /\ Snapshot(steps[t]) \subseteq ran /\ snap[t] \subseteq ran
  /\ fin[t] \in Good => Nodes \ tolerant \subseteq ran
  /\ fin[t] = "success" => Clean(steps[t])
  /\ \A i \in 1..(idx[t] - 1) : Order[i] \in ran \cup tolerant
EarnedInRecord ==
  /\ Snapshot(recSteps) \subseteq ran
  /\ row # None => Snapshot(row.steps) \subseteq ran
  /\ SuccessIsComplete

Still(t) ==
  \/ pc[t] \in {"parked", "ending", "closing"}
  \/ pc[t] = "recall" /\ t \in cold
  \/ pc[t] = "boundary" /\ (evt = "cleared" \/ flag = "on")
  \/ pc[t] = "woken" /\ flag = "on"
Quiet == ~released =>
  /\ \A t \in Alive : Still(t)
  /\ \A t, u \in Alive : t = u

IInv == /\ TypeOK /\ Down /\ Known /\ Backed /\ NoOrphanRow
        /\ EarnedByTasks /\ EarnedInRecord /\ Quiet

LEMMA OrderFacts == /\ Len(Order) \in Nat /\ DOMAIN Order = 1..Len(Order)
                    /\ \A i \in 1..Len(Order) : Order[i] \in Nodes
                    /\ \A n \in Nodes : \E i \in 1..Len(Order) : Order[i] = n
<1>1. Order \in Seq(Nodes)
  BY RegistryAssumption
<1>2. Len(Order) \in Nat /\ DOMAIN Order = 1..Len(Order)
  BY <1>1
<1>3. Nodes = {Order[i] : i \in DOMAIN Order}
  BY DEF Nodes, ToSet
<1> QED
  BY <1>2, <1>3

LEMMA InitInv == Init => IInv
<1> SUFFICES ASSUME Init PROVE IInv
  OBVIOUS
<1> USE DEF Init
<1>1. TypeOK
  <2>1. 1 \in 1..(Len(Order) + 1) /\ 0 \in 0..MaxCrashes /\ 0 \in 0..MaxFaults
    BY OrderFacts, RegistryAssumption
  <2>2. /\ pc \in [Tasks -> Places] /\ idx \in [Tasks -> 1..(Len(Order) + 1)]
        /\ snap \in [Tasks -> SUBSET Nodes] /\ steps \in [Tasks -> SUBSET Step]
        /\ fin \in [Tasks -> Fins]
    BY <2>1 DEF Places, Fins
  <2>0. up \in BOOLEAN /\ released \in BOOLEAN
    OBVIOUS
  <2>3. /\ status \in Statuses
        /\ row \in Row \cup {None} /\ replay \in (SUBSET Directives) \cup {None}
        /\ current \in Tasks \cup {None} /\ latest \in Tasks \cup {None}
    BY DEF Statuses
  <2>4. /\ recSteps \subseteq Step /\ recDirs \subseteq Directives /\ queue \subseteq Directives
        /\ cold \subseteq Tasks /\ killed \subseteq Tasks /\ unwinding \subseteq Tasks
        /\ flag \in {"none", "off", "on"} /\ evt \in {"none", "set", "cleared"}
        /\ ran \subseteq Nodes /\ settled \subseteq Nodes /\ sent \subseteq Directives
    OBVIOUS
  <2> HIDE DEF Init
  <2> QED
    BY <2>0, <2>1, <2>2, <2>3, <2>4 DEF TypeOK, Places, Fins, Statuses, Init
<1>2. Down /\ Known /\ Backed /\ NoOrphanRow
  BY DEF Down, Known, Backed, NoOrphanRow, Active
<1>3. EarnedByTasks /\ EarnedInRecord
  BY DEF EarnedByTasks, EarnedInRecord, Snapshot, SuccessIsComplete, Good
<1>4. Quiet
  BY DEF Quiet, Alive
<1> QED
  BY <1>1, <1>2, <1>3, <1>4 DEF IInv

-----------------------------------------------------------------------------
(* The record and its row. *)
LEMMA SavedFacts ==
  ASSUME TypeOK, NEW st, NEW ss \in SUBSET Step, NEW ds \in SUBSET Directives
  PROVE  /\ Saved(st, ss, ds) \in Row \cup {None}
         /\ Saved(st, ss, ds) = row \/ Saved(st, ss, ds).steps = ss
<1>1. CASE st \in Active
  <2>1. Saved(st, ss, ds) = [status |-> st, steps |-> ss, dirs |-> ds]
    BY <1>1 DEF Saved
  <2> QED
    BY <1>1, <2>1 DEF Row
<1>2. CASE st \notin Active
  BY <1>2 DEF Saved, TypeOK
<1> QED
  BY <1>1, <1>2

LEMMA WriteTypes ==
  ASSUME TypeOK, NEW r \in Row \cup {None}, Write(r)
  PROVE  StoreOK' /\ row' \in {row, r}
<1>1. row' \in {row, r} /\ leftover' = leftover
  BY DEF Write
<1>2. faults' = faults \/ (faults < MaxFaults /\ faults' = faults + 1)
  BY DEF Write, Fault
<1>3. faults' \in 0..MaxFaults
  BY <1>2, RegistryAssumption DEF TypeOK
<1> QED
  BY <1>1, <1>3 DEF TypeOK, StoreOK

LEMMA PersistTypes ==
  ASSUME TypeOK, recSteps' \subseteq Step, recDirs' \subseteq Directives, Persist
  PROVE  /\ StoreOK'
         /\ row' = row \/ (status' \in Active /\ row'.steps = recSteps')
<1> DEFINE r == Saved(status', recSteps', recDirs')
<1>1. r \in Row \cup {None} /\ (r = row \/ r.steps = recSteps')
  BY SavedFacts
<1>3. r = row \/ status' \in Active
  BY DEF Saved
<1>2. Write(r)
  BY DEF Persist
<1> HIDE DEF r
<1>4. StoreOK' /\ row' \in {row, r}
  BY <1>1, <1>2, WriteTypes
<1> QED
  BY <1>1, <1>3, <1>4

LEMMA PersistEarned ==
  ASSUME TypeOK, EarnedInRecord, ran \subseteq ran', UNCHANGED tolerant,
         recSteps' \subseteq Step, recDirs' \subseteq Directives, Snapshot(recSteps') \subseteq ran',
         status' \in Good => Nodes \ tolerant \subseteq ran',
         status' = "success" => Clean(recSteps'), Persist
  PROVE  EarnedInRecord'
<1>1. row' = row \/ row'.steps = recSteps'
  BY PersistTypes
<1>2. row' # None => Snapshot(row'.steps) \subseteq ran'
  BY <1>1 DEF EarnedInRecord
<1> QED
  BY <1>2 DEF EarnedInRecord, SuccessIsComplete, Snapshot, Clean

LEMMA EventFacts ==
  ASSUME TypeOK, EarnedInRecord, ran \subseteq ran', UNCHANGED tolerant,
         NEW x \in SUBSET Step, NEW f \in Fins, NEW t, Snapshot(x) \subseteq ran,
         f \in Good => Nodes \ tolerant \subseteq ran, f = "success" => Clean(x),
         OnEvent(t, x, f)
  PROVE  /\ status' \in Statuses /\ recSteps' \subseteq Step /\ recDirs' \subseteq Directives
         /\ StoreOK' /\ EarnedInRecord'
<1>1. /\ status' \in Statuses /\ recSteps' \subseteq Step /\ recDirs' \subseteq Directives
      /\ recSteps' = x /\ status' \in {"paused", f} /\ Persist
  BY DEF OnEvent, TypeOK, Statuses, Fins, Active
<1>2. "paused" \notin Good
  BY DEF Good
<1>3. EarnedInRecord'
  BY <1>1, <1>2, PersistEarned
<1> QED
  BY <1>1, <1>3, PersistTypes

(* An event that the newest execution emits. *)
LEMMA NewestEvent ==
  ASSUME IInv, NEW t \in Tasks, pc[t] \notin {"none", "recall", "ended"}, Event,
         ran \subseteq ran', UNCHANGED tolerant
  PROVE  /\ status' \in Statuses /\ recSteps' \subseteq Step /\ recDirs' \subseteq Directives
         /\ StoreOK' /\ EarnedInRecord'
<1>1. latest \in Tasks
  BY DEF IInv, Known, TypeOK
<1>2. steps[latest] \in SUBSET Step /\ fin[latest] \in Fins
  BY <1>1 DEF IInv, TypeOK, Fins
<1>3. /\ Snapshot(steps[latest]) \subseteq ran
      /\ fin[latest] \in Good => Nodes \ tolerant \subseteq ran
      /\ fin[latest] = "success" => Clean(steps[latest])
  BY <1>1 DEF IInv, EarnedByTasks
<1> QED
  BY <1>2, <1>3, EventFacts DEF IInv, Event

(* Nobody wrote to the record. *)
LEMMA RecordKept ==
  ASSUME EarnedInRecord, ran \subseteq ran', UNCHANGED <<status, recSteps, row, tolerant>>
  PROVE  EarnedInRecord'
BY DEF EarnedInRecord, SuccessIsComplete, Snapshot

(* A task that works backs the record and the row. *)
LEMMA WorkBacks ==
  ASSUME NEW t \in Tasks, Works(t)'
  PROVE  Backed' /\ NoOrphanRow'
BY DEF Backed, NoOrphanRow, Works, Alive

(* Who waits on the event hears it or not, and works on. *)
LEMMA ForgottenFacts ==
  ASSUME TypeOK
  PROVE  /\ Forgotten \in [Tasks -> Places]
         /\ \A u \in Tasks : /\ Forgotten[u] \notin {"parked", "ask"}
                             /\ Forgotten[u] \in {"stranded", "unheard"} \/ Forgotten[u] = pc[u]
                             /\ Forgotten[u] = "stranded" => pc[u] \in {"parked", "stranded"}
                             /\ Forgotten[u] = "unheard" => pc[u] \in {"ask", "unheard"}
                             /\ pc[u] \in {"none", "ended", "closing"} => Forgotten[u] = pc[u]
BY DEF TypeOK, Forgotten, Places

LEMMA SetEventFacts ==
  ASSUME TypeOK, Known, NEW w \in Tasks \cup {None}, w \in Tasks => pc[w] = "ask", SetEvent(w)
  PROVE  /\ evt' = "set" /\ pc' \in [Tasks -> Places] /\ fin' \in [Tasks -> Fins]
         /\ steps' \in [Tasks -> SUBSET Step]
         /\ \A u \in Tasks :
              \/ /\ fin'[u] = fin[u] /\ steps'[u] = steps[u]
                 /\ \/ u = w /\ pc'[u] = "run"
                    \/ u # w /\ pc[u] = "parked" /\ pc'[u] = "woken"
                    \/ u # w /\ pc[u] # "parked" /\ pc'[u] = pc[u]
              \/ /\ u # w /\ pc[u] = "ask" /\ pc'[u] = "ending" /\ fin'[u] = "failed"
                 /\ Snapshot(steps'[u]) \subseteq Snapshot(steps[u])
<1> DEFINE loses(u) == pc[u] = "ask" /\ u \notin killed /\ u # w
<1>1. /\ evt' = "set"
      /\ pc' = [u \in Tasks |-> CASE u = w -> "run" [] pc[u] = "parked" -> "woken"
                                  [] loses(u) -> "ending" [] OTHER -> pc[u]]
      /\ fin' = [u \in Tasks |-> IF loses(u) THEN "failed" ELSE fin[u]]
      /\ steps' = [u \in Tasks |-> IF loses(u) THEN steps[u] \cup {<<Order[idx[u]], "denied">>}
                                               ELSE steps[u]]
  BY DEF SetEvent
<1>2. ASSUME NEW u \in Tasks, ~loses(u)
      PROVE  /\ pc'[u] \in Places /\ fin'[u] = fin[u] /\ steps'[u] = steps[u]
             /\ \/ u = w /\ pc'[u] = "run"
                \/ u # w /\ pc[u] = "parked" /\ pc'[u] = "woken"
                \/ u # w /\ pc[u] # "parked" /\ pc'[u] = pc[u]
  <2>1. pc[u] \in Places /\ fin'[u] = fin[u] /\ steps'[u] = steps[u]
    BY <1>1, <1>2 DEF TypeOK, Places
  <2>2. CASE u = w
    <3>1. pc'[u] = "run"
      BY <2>2, <1>1
    <3> QED
      BY <3>1, <2>1, <2>2 DEF Places
  <2>3. CASE u # w /\ pc[u] = "parked"
    <3>1. pc'[u] = "woken"
      BY <2>3, <1>1
    <3> QED
      BY <3>1, <2>1, <2>3 DEF Places
  <2>4. CASE u # w /\ pc[u] # "parked"
    <3>1. pc'[u] = pc[u]
      BY <2>4, <1>1, <1>2
    <3> QED
      BY <3>1, <2>1, <2>4
  <2> QED
    BY <2>2, <2>3, <2>4
<1>3. ASSUME NEW u \in Tasks, loses(u)
      PROVE  /\ pc[u] = "ask" /\ u # w /\ pc'[u] = "ending" /\ fin'[u] = "failed"
             /\ steps'[u] \in SUBSET Step /\ Snapshot(steps'[u]) \subseteq Snapshot(steps[u])
  <2>1. steps[u] \in SUBSET Step /\ idx[u] \in 1..(Len(Order) + 1)
    BY DEF TypeOK
  <2>2. idx[u] \in 1..Len(Order)
    BY <2>1, <1>3, OrderFacts DEF Known
  <2>3. <<Order[idx[u]], "denied">> \in Step
    BY <2>2, OrderFacts DEF Step
  <2>4. fin'[u] = "failed" /\ steps'[u] = steps[u] \cup {<<Order[idx[u]], "denied">>}
    BY <1>3, <1>1
  <2>5. pc'[u] = "ending"
    BY <1>3, <1>1
  <2> QED
    BY <2>1, <2>3, <2>4, <2>5, <1>3 DEF Snapshot
<1>4. pc' \in [Tasks -> Places] /\ fin' \in [Tasks -> Fins] /\ steps' \in [Tasks -> SUBSET Step]
  <2>1. DOMAIN pc' = Tasks /\ DOMAIN fin' = Tasks /\ DOMAIN steps' = Tasks
    BY <1>1
  <2>2. ASSUME NEW u \in Tasks
        PROVE  pc'[u] \in Places /\ fin'[u] \in Fins /\ steps'[u] \in SUBSET Step
    <3>1. fin[u] \in Fins /\ steps[u] \in SUBSET Step
      BY DEF TypeOK, Fins
    <3> QED
      BY <3>1, <1>2, <1>3 DEF Places, Fins
  <2> QED
    BY <1>1, <2>1, <2>2
<1> HIDE DEF loses
<1> QED
  BY <1>1, <1>2, <1>3, <1>4

-----------------------------------------------------------------------------
(* A task is launched. *)
LEMMA LaunchFacts ==
  ASSUME IInv, NEW t \in Tasks, NEW paused \in BOOLEAN, NEW done,
         done \subseteq Nodes, done \subseteq ran, Launch(t, paused, done),
         UNCHANGED <<latest, ran, tolerant>>
  PROVE  /\ pc' \in [Tasks -> Places] /\ idx' \in [Tasks -> 1..(Len(Order) + 1)]
         /\ snap' \in [Tasks -> SUBSET Nodes] /\ steps' \in [Tasks -> SUBSET Step]
         /\ fin' \in [Tasks -> Fins] /\ cold' \subseteq Tasks /\ unwinding' \subseteq Tasks
         /\ current' \in Tasks /\ Known' /\ Backed' /\ NoOrphanRow' /\ EarnedByTasks'
<1> USE DEF IInv, Launch
<1>1. /\ pc' \in [Tasks -> Places] /\ snap' \in [Tasks -> SUBSET Nodes]
      /\ steps' \in [Tasks -> SUBSET Step] /\ fin' \in [Tasks -> Fins]
      /\ cold' \subseteq Tasks /\ unwinding' \subseteq Tasks /\ current' \in Tasks
  BY DEF TypeOK, Places, Fins
<1>2. idx' \in [Tasks -> 1..(Len(Order) + 1)]
  BY OrderFacts DEF TypeOK
<1>3. /\ pc'[t] = "recall" /\ fin'[t] = "running"
      /\ \A u \in Tasks \ {t} : pc'[u] = pc[u] /\ idx'[u] = idx[u] /\ fin'[u] = fin[u]
  BY DEF TypeOK
<1>4. Known'
  BY <1>3 DEF Known
<1>5. Backed' /\ NoOrphanRow'
  BY <1>3, WorkBacks DEF Works
<1>6. EarnedByTasks'
  <2>1. ASSUME NEW u \in Tasks, u # t
        PROVE  /\ steps'[u] = steps[u] /\ snap'[u] = snap[u] /\ fin'[u] = fin[u] /\ idx'[u] = idx[u]
    BY <2>1 DEF TypeOK
  <2>2. steps'[t] = {} /\ snap'[t] = done /\ fin'[t] = "running" /\ idx'[t] = 1
    BY DEF TypeOK
  <2>3. Snapshot({}) = {} /\ 1..(1 - 1) = {}
    BY DEF Snapshot
  <2> QED
    BY <2>1, <2>2, <2>3 DEF EarnedByTasks, Snapshot, Good
<1> QED
  BY <1>1, <1>2, <1>4, <1>5, <1>6

LEMMA StartInv == ASSUME IInv, NEW t \in Tasks, Start(t) PROVE IInv'
<1> USE DEF IInv, Start
<1>1. UNCHANGED <<up, replay, killed, latest, flag, evt, queue, ran, settled, sent, tolerant, crashes>>
  BY DEF engine
<1>2. Snapshot({}) = {} /\ Launch(t, FALSE, {})
  BY DEF Snapshot
<1>3. /\ pc' \in [Tasks -> Places] /\ idx' \in [Tasks -> 1..(Len(Order) + 1)]
      /\ snap' \in [Tasks -> SUBSET Nodes] /\ steps' \in [Tasks -> SUBSET Step]
      /\ fin' \in [Tasks -> Fins] /\ cold' \subseteq Tasks /\ unwinding' \subseteq Tasks
      /\ current' \in Tasks /\ Known' /\ Backed' /\ NoOrphanRow' /\ EarnedByTasks'
  BY <1>1, <1>2, LaunchFacts
<1>4. status' = "running" /\ recSteps' = recSteps /\ recDirs' = recDirs /\ Persist /\ up
  OBVIOUS
<1>5. StoreOK'
  BY <1>4, PersistTypes DEF TypeOK
<1>6. TypeOK'
  BY <1>1, <1>3, <1>4, <1>5 DEF TypeOK, StoreOK, Places, Fins, Active
<1>7. EarnedInRecord'
  BY <1>1, <1>4, PersistEarned DEF EarnedInRecord, TypeOK, Good
<1>8. Down' /\ Quiet'
  BY <1>1, <1>4 DEF Down, Quiet
<1> QED
  BY <1>3, <1>6, <1>7, <1>8

LEMMA RelaunchInv == ASSUME IInv, NEW t \in Tasks, Relaunch(t) PROVE IInv'
<1> USE DEF IInv, Relaunch
<1>1. UNCHANGED <<up, replay, latest, flag, evt, queue, ran, settled, sent, tolerant, crashes>>
  BY DEF engine
<1>2. Launch(t, FALSE, Snapshot(recSteps)) /\ Snapshot(recSteps) \subseteq ran
      /\ Snapshot(recSteps) \subseteq Nodes
  BY DEF EarnedInRecord, Snapshot
<1>3. /\ pc' \in [Tasks -> Places] /\ idx' \in [Tasks -> 1..(Len(Order) + 1)]
      /\ snap' \in [Tasks -> SUBSET Nodes] /\ steps' \in [Tasks -> SUBSET Step]
      /\ fin' \in [Tasks -> Fins] /\ cold' \subseteq Tasks /\ unwinding' \subseteq Tasks
      /\ current' \in Tasks /\ Known' /\ Backed' /\ NoOrphanRow' /\ EarnedByTasks'
  BY <1>1, <1>2, LaunchFacts
<1>4. status' = "running" /\ recSteps' = recSteps /\ recDirs' = recDirs /\ Persist /\ up
  BY DEF Serving
<1>5. StoreOK'
  BY <1>4, PersistTypes DEF TypeOK
<1>6. killed' \subseteq Tasks
  BY DEF KillCurrent, Alive, TypeOK
<1>7. TypeOK'
  BY <1>1, <1>3, <1>4, <1>5, <1>6 DEF TypeOK, StoreOK, Places, Fins, Active
<1>8. EarnedInRecord'
  BY <1>1, <1>4, PersistEarned DEF EarnedInRecord, TypeOK, Good
<1>9. Down' /\ Quiet'
  BY <1>1, <1>4 DEF Down, Quiet
<1> QED
  BY <1>3, <1>7, <1>8, <1>9

LEMMA RecoverInv == ASSUME IInv, NEW t \in Tasks, Recover(t) PROVE IInv'
<1> USE DEF IInv
<1>1. ~up /\ up' = TRUE
  BY DEF Recover
<1>2. UNCHANGED <<row, killed, latest, flag, evt, queue, released, ran, settled, sent, tolerant, crashes>>
  BY DEF Recover, engine, hist
<1>3. /\ \A u \in Tasks : pc[u] = "none"
      /\ evt = "none" /\ flag = "none" /\ killed = {} /\ status = "none"
  BY <1>1 DEF Down
<1> DEFINE loaded == /\ row # None /\ Launch(t, TRUE, Snapshot(row.steps))
                     /\ status' = "paused" /\ recSteps' = row.steps /\ recDirs' = {}
                     /\ replay' = row.dirs /\ leftover' = FALSE /\ UNCHANGED faults
           missed == /\ leftover' = (row # None)
                     /\ faults' = faults \/ (faults < MaxFaults /\ faults' = faults + 1)
                     /\ UNCHANGED <<status, recSteps, recDirs, replay, current>>
                     /\ UNCHANGED <<pc, idx, snap, steps, fin, cold, unwinding>>
<1>0. loaded \/ missed
  BY DEF Recover, Fault, record
<1>4. CASE missed
  <2>1. /\ UNCHANGED <<status, recSteps, recDirs, replay, current>>
        /\ UNCHANGED <<pc, idx, snap, steps, fin, cold, unwinding>>
        /\ leftover' = (row # None)
    BY <1>4
  <2>0. leftover' \in BOOLEAN /\ faults' \in 0..MaxFaults
    BY <1>4, RegistryAssumption DEF TypeOK
  <2> HIDE DEF loaded, missed
  <2>2. TypeOK'
    BY <1>1, <1>2, <2>0, <2>1 DEF TypeOK
  <2>3. Down' /\ Known' /\ Backed' /\ NoOrphanRow'
    BY <1>1, <1>2, <1>3, <2>1 DEF Down, Known, Backed, NoOrphanRow, Active
  <2>4. EarnedByTasks' /\ EarnedInRecord'
    BY <1>2, <2>1 DEF EarnedByTasks, EarnedInRecord, SuccessIsComplete, Snapshot
  <2>5. Quiet'
    BY <1>3, <2>1 DEF Quiet, Alive
  <2> QED
    BY <2>2, <2>3, <2>4, <2>5
<1>5. CASE loaded
  <2>1. /\ row # None /\ Launch(t, TRUE, Snapshot(row.steps)) /\ leftover' = FALSE /\ faults' = faults
        /\ status' = "paused" /\ recSteps' = row.steps /\ recDirs' = {} /\ replay' = row.dirs
    BY <1>5
  <2> HIDE DEF loaded, missed
  <2>2. row \in Row
    BY <2>1 DEF TypeOK
  <2>3. row.steps \subseteq Step /\ row.dirs \subseteq Directives
    BY <2>2 DEF Row
  <2>4. Snapshot(row.steps) \subseteq ran /\ Snapshot(row.steps) \subseteq Nodes
    BY <2>1 DEF EarnedInRecord, Snapshot
  <2>5. /\ pc' \in [Tasks -> Places] /\ idx' \in [Tasks -> 1..(Len(Order) + 1)]
        /\ snap' \in [Tasks -> SUBSET Nodes] /\ steps' \in [Tasks -> SUBSET Step]
        /\ fin' \in [Tasks -> Fins] /\ cold' \subseteq Tasks /\ unwinding' \subseteq Tasks
        /\ current' \in Tasks /\ Known' /\ Backed' /\ NoOrphanRow' /\ EarnedByTasks'
    BY <1>2, <2>1, <2>4, LaunchFacts
  <2>6. TypeOK'
    <3>1. up' \in BOOLEAN /\ released' \in BOOLEAN
      BY <1>1, <1>2 DEF TypeOK
    <3> QED
      BY <3>1, <1>2, <2>1, <2>3, <2>5 DEF TypeOK, Places, Fins, Active
  <2>7. EarnedInRecord'
    BY <1>2, <2>1, <2>4 DEF EarnedInRecord, SuccessIsComplete, Snapshot, Good
  <2>8. Quiet'
    <3>1. pc' = [pc EXCEPT ![t] = "recall"] /\ t \in cold'
      BY <2>1 DEF Launch
    <3>2. Alive' = {t} /\ pc'[t] = "recall"
      BY <3>1, <1>3 DEF Alive, TypeOK
    <3> QED
      BY <3>1, <3>2 DEF Quiet, Still
  <2>9. Down'
    BY <1>1 DEF Down
  <2> QED
    BY <2>5, <2>6, <2>7, <2>8, <2>9
<1> QED
  BY <1>0, <1>4, <1>5

-----------------------------------------------------------------------------
(* One task goes on: what it may do, and what that keeps. *)
LEMMA OneMoves ==
  ASSUME IInv, NEW t \in Tasks, up, pc[t] \notin {"none", "recall", "ended"}, TaskFrame,
         NEW p \in {"boundary", "parked", "ask", "run", "ending"}, pc' = [pc EXCEPT ![t] = p],
         NEW i \in 1..(Len(Order) + 1), idx' = [idx EXCEPT ![t] = i],
         p \in {"run", "ask"} => i <= Len(Order),
         NEW x \in SUBSET Step, steps' = [steps EXCEPT ![t] = x],
         NEW f \in Fins, fin' = [fin EXCEPT ![t] = f], p = "ending" <=> f # "running",
         UNCHANGED <<latest, flag>>, evt' \in {"none", "set", "cleared"}, queue' \subseteq Directives,
         ran \subseteq ran', ran' \subseteq Nodes, settled' \subseteq Nodes,
         status' \in Statuses, recSteps' \subseteq Step, recDirs' \subseteq Directives,
         StoreOK', EarnedInRecord',
         Snapshot(x) \subseteq ran', f \in Good => Nodes \ tolerant \subseteq ran',
         f = "success" => Clean(x), \A j \in 1..(i - 1) : Order[j] \in ran' \cup tolerant,
         released \/ Still(t)'
  PROVE  IInv'
<1> USE DEF IInv
<1>1. UNCHANGED <<up, replay, current, snap, cold, killed, unwinding, released, sent, tolerant, crashes>>
  BY DEF TaskFrame
<1>2. \A u \in Tasks : u # t => /\ pc'[u] = pc[u] /\ idx'[u] = idx[u]
                                /\ steps'[u] = steps[u] /\ fin'[u] = fin[u]
  BY DEF TypeOK
<1>3. pc'[t] = p /\ idx'[t] = i /\ steps'[t] = x /\ fin'[t] = f
  BY DEF TypeOK
<1>4. TypeOK'
  <2>1. /\ pc' \in [Tasks -> Places] /\ idx' \in [Tasks -> 1..(Len(Order) + 1)]
        /\ steps' \in [Tasks -> SUBSET Step] /\ fin' \in [Tasks -> Fins]
    BY DEF TypeOK, Places, Fins
  <2> QED
    BY <1>1, <2>1 DEF TypeOK, StoreOK, Places, Fins, Statuses
<1>5. Down' /\ Known'
  BY <1>1, <1>2, <1>3 DEF Down, Known
<1>6. Backed' /\ NoOrphanRow'
  BY <1>3, WorkBacks DEF Works
<1>7. EarnedByTasks'
  BY <1>1, <1>2, <1>3 DEF EarnedByTasks, Snapshot
<1>8. Quiet'
  <2> SUFFICES ASSUME ~released PROVE /\ \A u \in Alive' : Still(u)'
                                      /\ \A u, v \in Alive' : u = v
    BY <1>1 DEF Quiet
  <2>1. \A u, v \in Alive : u = v
    BY DEF Quiet
  <2>2. Alive' = {t}
    BY <2>1, <1>2, <1>3 DEF Alive
  <2> QED
    BY <2>2
<1> QED
  BY <1>4, <1>5, <1>6, <1>7, <1>8

(* What a task that goes on has at hand. *)
LEMMA AtHand ==
  ASSUME IInv, NEW t \in Tasks
  PROVE  /\ idx[t] \in 1..(Len(Order) + 1) /\ steps[t] \in SUBSET Step /\ fin[t] \in Fins
         /\ Snapshot(steps[t]) \subseteq ran
         /\ fin[t] \in Good => Nodes \ tolerant \subseteq ran
         /\ fin[t] = "success" => Clean(steps[t])
         /\ pc[t] \notin {"ending", "closing", "ended"} => fin[t] = "running"
         /\ \A j \in 1..(idx[t] - 1) : Order[j] \in ran \cup tolerant
         /\ pc = [pc EXCEPT ![t] = pc[t]] /\ idx = [idx EXCEPT ![t] = idx[t]]
         /\ steps = [steps EXCEPT ![t] = steps[t]] /\ fin = [fin EXCEPT ![t] = fin[t]]
         /\ ran \subseteq Nodes /\ settled \subseteq Nodes /\ queue \subseteq Directives
         /\ evt \in {"none", "set", "cleared"}
BY DEF IInv, TypeOK, Known, EarnedByTasks, Fins

(* The record is as it was. *)
LEMMA NoEventFacts ==
  ASSUME IInv, NoEvent, ran \subseteq ran', UNCHANGED tolerant
  PROVE  /\ status' \in Statuses /\ recSteps' \subseteq Step /\ recDirs' \subseteq Directives
         /\ StoreOK' /\ EarnedInRecord'
<1>1. UNCHANGED <<status, recSteps, recDirs, row, leftover, faults>>
  BY DEF NoEvent, record, store
<1> QED
  BY <1>1, RecordKept DEF IInv, TypeOK, StoreOK, Statuses

(* A step that is no success earns nothing and costs nothing. *)
LEMMA OtherStep ==
  ASSUME NEW x \in SUBSET Step, NEW n \in Nodes, NEW how \in {"failed", "skipped", "blocked", "denied"}
  PROVE  /\ x \cup {<<n, how>>} \in SUBSET Step /\ Snapshot(x \cup {<<n, how>>}) = Snapshot(x)
         /\ how # "denied" /\ Clean(x) => Clean(x \cup {<<n, how>>})
BY DEF Step, Snapshot, Clean

(* TaskFrame, and that a node that has to do without goes on or fails.     *)
LEMMA FrameKeeps == ASSUME TaskFrame PROVE UNCHANGED tolerant
BY DEF TaskFrame

LEMMA WithoutInv ==
  ASSUME IInv, NEW t \in Tasks, up, released, TaskFrame,
         pc[t] \in {"boundary", "woken", "ask", "unheard", "run"},
         idx[t] \in 1..Len(Order), Order[idx[t]] \in Nodes, Event,
         NEW how \in {"failed", "denied"}, Without(t, how),
         UNCHANGED <<latest, flag, evt, ran, settled>>, queue' \subseteq Directives
  PROVE  IInv'
<1> DEFINE n == Order[idx[t]]
           x == steps[t] \cup {<<n, how>>}
           i == idx[t] + 1
<1>0. how \in {"failed", "skipped", "blocked", "denied"} /\ steps[t] \in SUBSET Step /\ n \in Nodes
  BY AtHand
<1>1. x \in SUBSET Step /\ Snapshot(x) = Snapshot(steps[t])
  <2> HIDE DEF n
  <2> QED
    BY <1>0, OtherStep
<1>2. /\ steps' = [steps EXCEPT ![t] = x] /\ UNCHANGED tolerant /\ fin[t] = "running"
      /\ Snapshot(x) \subseteq ran' /\ ran \subseteq ran' /\ (released \/ Still(t)')
      /\ ran' \subseteq Nodes /\ settled' \subseteq Nodes /\ evt' \in {"none", "set", "cleared"}
  BY <1>1, AtHand, FrameKeeps DEF Without, Append1
<1>3. /\ status' \in Statuses /\ recSteps' \subseteq Step /\ recDirs' \subseteq Directives
      /\ StoreOK' /\ EarnedInRecord'
  BY <1>2, NewestEvent
<1>4. CASE n \in tolerant
  <2>1. /\ pc' = [pc EXCEPT ![t] = "boundary"] /\ idx' = [idx EXCEPT ![t] = i]
        /\ fin' = [fin EXCEPT ![t] = "running"] /\ "running" \in Fins \ Good
    BY <1>2, <1>4, AtHand DEF Without, Advance, Move, Fins, Good
  <2>2. i \in 1..(Len(Order) + 1) /\ \A j \in 1..(i - 1) : Order[j] \in ran' \cup tolerant
    <3>1. i \in 1..(Len(Order) + 1)
      BY OrderFacts
    <3>2. ASSUME NEW j \in 1..(i - 1) PROVE Order[j] \in ran' \cup tolerant
      <4>1. j = idx[t] \/ j \in 1..(idx[t] - 1)
        OBVIOUS
      <4> QED
        BY <4>1, <1>4, AtHand
    <3> QED
      BY <3>1, <3>2
  <2>3. /\ "running" \in Fins /\ "running" \notin Good /\ "running" # "success"
        /\ "boundary" = "ending" <=> "running" # "running"
    BY <2>1
  <2>4. UNCHANGED <<latest, flag>> /\ pc[t] \notin {"none", "recall", "ended"}
    OBVIOUS
  <2> HIDE DEF n, x, i
  <2> QED
    BY <1>1, <1>2, <1>3, <2>1, <2>2, <2>3, <2>4, OneMoves
<1>5. CASE n \notin tolerant
  <2>1. /\ pc' = [pc EXCEPT ![t] = "ending"] /\ idx' = [idx EXCEPT ![t] = idx[t]]
        /\ fin' = [fin EXCEPT ![t] = "failed"] /\ "failed" \in Fins \ Good
    BY <1>5, AtHand DEF Without, End, Move, Fins, Good
  <2>2. /\ idx[t] \in 1..(Len(Order) + 1)
        /\ \A j \in 1..(idx[t] - 1) : Order[j] \in ran' \cup tolerant
    BY AtHand
  <2>3. /\ "failed" \in Fins /\ "failed" \notin Good /\ "failed" # "success"
        /\ "ending" = "ending" <=> "failed" # "running"
    BY <2>1
  <2>4. UNCHANGED <<latest, flag>> /\ pc[t] \notin {"none", "recall", "ended"}
    OBVIOUS
  <2> HIDE DEF n, x, i
  <2> QED
    BY <1>1, <1>2, <1>3, <2>1, <2>2, <2>3, <2>4, OneMoves
<1> QED
  BY <1>4, <1>5

(* Who goes on past the checkpoint belongs to a released run. *)
LEMMA GoesReleased ==
  ASSUME IInv, NEW t \in Tasks, Goes(t)
  PROVE  released /\ up /\ pc[t] \in {"boundary", "woken"}
         /\ queue' = {} /\ UNCHANGED <<latest, flag, ran, settled>> /\ TaskFrame
<1>1. /\ up /\ pc[t] \in {"boundary", "woken"} /\ flag # "on"
      /\ pc[t] = "boundary" => evt # "cleared"
  BY DEF Goes, Runs
<1>2. released
  BY <1>1 DEF IInv, Quiet, Still, Alive
<1> QED
  BY <1>1, <1>2 DEF Goes

(* So does who stands in a node. *)
LEMMA InNodeReleased ==
  ASSUME IInv, NEW t \in Tasks, pc[t] \in {"run", "ask", "unheard"}
  PROVE  released /\ idx[t] \in 1..Len(Order) /\ Order[idx[t]] \in Nodes /\ latest # None
<1>1. released
  BY DEF IInv, Quiet, Still, Alive
<1>2. idx[t] \in 1..Len(Order)
  BY OrderFacts DEF IInv, Known, TypeOK
<1> QED
  BY <1>1, <1>2, OrderFacts DEF IInv, Known

(* A task only changes its place and its status. *)
LEMMA PlaceMoves ==
  ASSUME IInv, NEW t \in Tasks, up, pc[t] \notin {"none", "recall", "ended"}, TaskFrame,
         NEW p \in {"boundary", "parked", "ask", "run", "ending"}, pc' = [pc EXCEPT ![t] = p],
         p \in {"run", "ask"} => idx[t] <= Len(Order), UNCHANGED <<idx, steps, ran, latest, flag>>,
         NEW f \in Fins, fin' = [fin EXCEPT ![t] = f], p = "ending" <=> f # "running",
         evt' \in {"none", "set", "cleared"}, queue' \subseteq Directives, settled' \subseteq Nodes,
         status' \in Statuses, recSteps' \subseteq Step, recDirs' \subseteq Directives,
         StoreOK', EarnedInRecord',
         f \in Good => Nodes \ tolerant \subseteq ran, f = "success" => Clean(steps[t]),
         released \/ Still(t)'
  PROVE  IInv'
<1>1. /\ idx[t] \in 1..(Len(Order) + 1) /\ steps[t] \in SUBSET Step
      /\ idx' = [idx EXCEPT ![t] = idx[t]] /\ steps' = [steps EXCEPT ![t] = steps[t]]
  BY AtHand
<1>2. /\ Snapshot(steps[t]) \subseteq ran' /\ ran \subseteq ran' /\ ran' \subseteq Nodes
      /\ \A j \in 1..(idx[t] - 1) : Order[j] \in ran' \cup tolerant
  BY AtHand
<1>3. f \in Good => Nodes \ tolerant \subseteq ran'
  OBVIOUS
<1> DEFINE i == idx[t]
           x == steps[t]
<1>4. UNCHANGED latest /\ UNCHANGED flag
  OBVIOUS
<1>5. /\ i \in 1..(Len(Order) + 1) /\ x \in SUBSET Step /\ Snapshot(x) \subseteq ran'
      /\ idx' = [idx EXCEPT ![t] = i] /\ steps' = [steps EXCEPT ![t] = x]
      /\ \A j \in 1..(i - 1) : Order[j] \in ran' \cup tolerant
      /\ p \in {"run", "ask"} => i <= Len(Order)
      /\ f = "success" => Clean(x)
  BY <1>1, <1>2
<1> HIDE DEF i, x
<1> QED
  BY <1>2, <1>3, <1>4, <1>5, OneMoves

LEMMA ParkInv == ASSUME IInv, NEW t \in Tasks, Park(t) PROVE IInv'
<1>1. /\ up /\ pc[t] = "boundary" /\ NoEvent /\ TaskFrame
      /\ pc' = [pc EXCEPT ![t] = "parked"] /\ UNCHANGED <<idx, steps, fin, ran>>
      /\ UNCHANGED <<latest, flag, evt, queue>>
      /\ settled' = settled \cup {n \in Nodes : <<n, "success">> \in steps[t]}
  BY DEF Park, Runs, Move, engine
<1>2. pc'[t] = "parked"
  BY <1>1 DEF IInv, TypeOK
<1>3. Still(t)'
  BY <1>2 DEF Still
<1>4. settled' \subseteq Nodes
  BY <1>1, AtHand
<1>5. fin[t] = "running" /\ fin[t] \notin Good /\ UNCHANGED tolerant
  BY <1>1, AtHand, FrameKeeps DEF Good
<1>6. /\ status' \in Statuses /\ recSteps' \subseteq Step /\ recDirs' \subseteq Directives
      /\ StoreOK' /\ EarnedInRecord'
  BY <1>1, <1>5, NoEventFacts
<1>7. /\ fin' = [fin EXCEPT ![t] = fin[t]] /\ fin[t] \in Fins /\ fin[t] # "success"
      /\ evt' \in {"none", "set", "cleared"} /\ queue' \subseteq Directives
      /\ pc[t] \notin {"none", "recall", "ended"} /\ UNCHANGED <<idx, steps, ran, latest, flag>>
  BY <1>1, <1>5, AtHand
<1> QED
  BY <1>1, <1>3, <1>4, <1>5, <1>6, <1>7, PlaceMoves

LEMMA StopAtFlagInv == ASSUME IInv, NEW t \in Tasks, StopAtFlag(t) PROVE IInv'
<1>1. /\ up /\ pc[t] \in {"boundary", "woken"} /\ NoEvent /\ TaskFrame
      /\ pc' = [pc EXCEPT ![t] = "ending"] /\ fin' = [fin EXCEPT ![t] = "cancelled"]
      /\ UNCHANGED <<idx, steps, ran, settled>> /\ UNCHANGED <<latest, flag, evt, queue>>
  BY DEF StopAtFlag, Runs, Move, End, engine
<1>2. pc'[t] = "ending"
  BY <1>1 DEF IInv, TypeOK
<1>3. Still(t)'
  BY <1>2 DEF Still
<1>4. "cancelled" \in Fins \ Good /\ UNCHANGED tolerant
  BY <1>1, FrameKeeps DEF Fins, Good
<1>5. /\ status' \in Statuses /\ recSteps' \subseteq Step /\ recDirs' \subseteq Directives
      /\ StoreOK' /\ EarnedInRecord'
  BY <1>1, <1>4, NoEventFacts
<1>6. /\ evt' \in {"none", "set", "cleared"} /\ queue' \subseteq Directives /\ settled' \subseteq Nodes
      /\ pc[t] \notin {"none", "recall", "ended"} /\ UNCHANGED <<idx, steps, ran, latest, flag>>
  BY <1>1, AtHand
<1>7. "cancelled" # "running" /\ "cancelled" # "success"
  OBVIOUS
<1> QED
  BY <1>1, <1>3, <1>4, <1>5, <1>6, <1>7, PlaceMoves

LEMMA FinishInv == ASSUME IInv, NEW t \in Tasks, Finish(t) PROVE IInv'
<1>1. released /\ up /\ pc[t] \in {"boundary", "woken"} /\ queue' = {}
      /\ UNCHANGED <<latest, flag, ran, settled, tolerant>> /\ TaskFrame
  BY GoesReleased, FrameKeeps DEF Finish
<1> DEFINE f == IF \E n \in Nodes : <<n, "denied">> \in steps[t] THEN "completed_with_denials"
                                                               ELSE "success"
<1>2. /\ NoEvent /\ pc' = [pc EXCEPT ![t] = "ending"] /\ fin' = [fin EXCEPT ![t] = f]
      /\ UNCHANGED <<idx, steps, evt>> /\ idx[t] > Len(Order)
  BY DEF Finish, End, Move
<1>3. Nodes \ tolerant \subseteq ran
  <2>1. idx[t] - 1 = Len(Order)
    BY <1>2, AtHand, OrderFacts
  <2> QED
    BY <2>1, AtHand, OrderFacts
<1>4. f \in Fins /\ f # "running" /\ (f = "success" => Clean(steps[t]))
  BY DEF Fins, Good, Clean
<1> HIDE DEF f
<1>5. /\ status' \in Statuses /\ recSteps' \subseteq Step /\ recDirs' \subseteq Directives
      /\ StoreOK' /\ EarnedInRecord'
  BY <1>1, <1>2, NoEventFacts
<1>6. /\ evt' \in {"none", "set", "cleared"} /\ queue' \subseteq Directives /\ settled' \subseteq Nodes
      /\ pc[t] \notin {"none", "recall", "ended"} /\ UNCHANGED <<idx, steps, ran, latest, flag>>
  BY <1>1, <1>2, AtHand
<1> QED
  BY <1>1, <1>2, <1>3, <1>4, <1>5, <1>6, PlaceMoves

LEMMA SkipInv == ASSUME IInv, NEW t \in Tasks, Skip(t) PROVE IInv'
<1>1. released /\ up /\ pc[t] \in {"boundary", "woken"} /\ queue' = {}
      /\ UNCHANGED <<latest, flag, ran, settled>> /\ TaskFrame
  BY GoesReleased DEF Skip
<1> DEFINE x == steps[t] \cup {<<Order[idx[t]], "skipped">>}
<1>2. /\ NoEvent /\ pc' = [pc EXCEPT ![t] = "boundary"] /\ steps' = [steps EXCEPT ![t] = x]
      /\ idx' = [idx EXCEPT ![t] = idx[t] + 1]
      /\ UNCHANGED <<fin, evt>> /\ idx[t] <= Len(Order) /\ Order[idx[t]] \in snap[t]
  BY DEF Skip, Append1, Advance, Move, Next1
<1>3. idx[t] \in 1..Len(Order) /\ idx[t] + 1 \in 1..(Len(Order) + 1)
  BY <1>2, AtHand, OrderFacts
<1>4. Order[idx[t]] \in Nodes /\ Order[idx[t]] \in ran
  BY <1>2, <1>3, OrderFacts DEF IInv, EarnedByTasks
<1>5. x \in SUBSET Step /\ Snapshot(x) = Snapshot(steps[t])
  BY <1>4, AtHand, OtherStep
<1>6. \A j \in 1..((idx[t] + 1) - 1) : Order[j] \in ran \cup tolerant
  <2> SUFFICES ASSUME NEW j \in 1..((idx[t] + 1) - 1) PROVE Order[j] \in ran \cup tolerant
    OBVIOUS
  <2>1. j = idx[t] \/ j \in 1..(idx[t] - 1)
    BY <1>3
  <2> QED
    BY <2>1, <1>4, AtHand
<1> DEFINE i == idx[t] + 1
<1>7. /\ i \in 1..(Len(Order) + 1) /\ idx' = [idx EXCEPT ![t] = i]
      /\ \A j \in 1..(i - 1) : Order[j] \in ran' \cup tolerant
  BY <1>1, <1>2, <1>3, <1>6
<1>8. /\ ran \subseteq ran' /\ Snapshot(x) \subseteq ran' /\ UNCHANGED tolerant
      /\ fin[t] = "running" /\ fin[t] \notin Good
  BY <1>1, <1>5, AtHand, FrameKeeps DEF Good
<1>9. /\ status' \in Statuses /\ recSteps' \subseteq Step /\ recDirs' \subseteq Directives
      /\ StoreOK' /\ EarnedInRecord'
  BY <1>2, <1>8, NoEventFacts
<1>10. /\ fin' = [fin EXCEPT ![t] = fin[t]] /\ fin[t] \in Fins /\ fin[t] # "success"
       /\ "boundary" = "ending" <=> fin[t] # "running"
       /\ pc[t] \notin {"none", "recall", "ended"} /\ (released \/ Still(t)')
       /\ ran' \subseteq Nodes /\ settled' \subseteq Nodes /\ queue' \subseteq Directives
       /\ evt' \in {"none", "set", "cleared"}
  BY <1>1, <1>2, <1>8, AtHand
<1> HIDE DEF x, i
<1> QED
  BY <1>1, <1>2, <1>5, <1>7, <1>8, <1>9, <1>10, OneMoves

LEMMA RunInv == ASSUME IInv, NEW t \in Tasks, Run(t) PROVE IInv'
<1>1. released /\ up /\ pc[t] \in {"boundary", "woken"} /\ queue' = {}
      /\ UNCHANGED <<latest, flag, ran, settled>> /\ TaskFrame
  BY GoesReleased DEF Run
<1>2. /\ Event /\ pc' = [pc EXCEPT ![t] = "run"] /\ UNCHANGED <<idx, steps, fin, evt>>
      /\ idx[t] <= Len(Order)
  BY DEF Run, Move
<1>3. fin[t] = "running" /\ fin[t] \notin Good /\ UNCHANGED tolerant
  BY <1>1, AtHand, FrameKeeps DEF Good
<1>4. /\ status' \in Statuses /\ recSteps' \subseteq Step /\ recDirs' \subseteq Directives
      /\ StoreOK' /\ EarnedInRecord'
  BY <1>1, <1>2, <1>3, NewestEvent
<1>5. /\ fin' = [fin EXCEPT ![t] = fin[t]] /\ fin[t] \in Fins /\ fin[t] # "success"
      /\ evt' \in {"none", "set", "cleared"} /\ queue' \subseteq Directives /\ settled' \subseteq Nodes
      /\ pc[t] \notin {"none", "recall", "ended"} /\ UNCHANGED <<idx, steps, ran, latest, flag>>
  BY <1>1, <1>2, <1>3, AtHand
<1> QED
  BY <1>1, <1>2, <1>3, <1>4, <1>5, PlaceMoves

LEMMA AskInv == ASSUME IInv, NEW t \in Tasks, Ask(t) PROVE IInv'
<1>1. released /\ up /\ pc[t] \in {"boundary", "woken"} /\ queue' = {}
      /\ UNCHANGED <<latest, flag, ran, settled, tolerant>> /\ TaskFrame
  BY GoesReleased, FrameKeeps DEF Ask
<1>2. idx[t] <= Len(Order)
  BY DEF Ask
<1>3. idx[t] \in 1..Len(Order) /\ Order[idx[t]] \in Nodes
  BY <1>2, AtHand, OrderFacts
<1>4. CASE evt = "none" \/ Next1(t) \in tolerant
  <2>1. Event /\ Without(t, "denied") /\ UNCHANGED evt
    BY <1>4 DEF Ask
  <2> QED
    BY <1>1, <1>3, <2>1, WithoutInv
<1>5. CASE ~(evt = "none" \/ Next1(t) \in tolerant)
  <2> DEFINE x == steps[t] \cup {<<Order[idx[t]], "blocked">>}
  <2>1. /\ steps' = [steps EXCEPT ![t] = x] /\ UNCHANGED <<fin, idx>>
        /\ pc' = [pc EXCEPT ![t] = "ask"] /\ evt' = "cleared"
        /\ OnEvent(latest, steps'[latest], fin[latest])
    BY <1>5 DEF Ask, Append1, Move, Next1
  <2>2. x \in SUBSET Step /\ Snapshot(x) = Snapshot(steps[t]) /\ (Clean(steps[t]) => Clean(x))
    BY <1>3, AtHand, OtherStep
  <2>3. latest \in Tasks
    BY <1>1 DEF IInv, Known, TypeOK
  <2>4. steps'[latest] = (IF latest = t THEN x ELSE steps[latest])
    BY <2>1, <2>3 DEF IInv, TypeOK
  <2>5. PICK y \in SUBSET Step : /\ y = steps'[latest] /\ Snapshot(y) \subseteq ran
                                 /\ Clean(steps[latest]) => Clean(y)
    BY <2>2, <2>3, <2>4, AtHand DEF IInv, EarnedByTasks
  <2>6. /\ OnEvent(latest, y, fin[latest]) /\ fin[latest] \in Fins
        /\ fin[latest] \in Good => Nodes \ tolerant \subseteq ran
        /\ fin[latest] = "success" => Clean(y)
    BY <2>1, <2>3, <2>5, AtHand
  <2>7. /\ status' \in Statuses /\ recSteps' \subseteq Step /\ recDirs' \subseteq Directives
        /\ StoreOK' /\ EarnedInRecord'
    BY <1>1, <2>5, <2>6, EventFacts DEF IInv
  <2>8. /\ idx[t] \in 1..(Len(Order) + 1) /\ idx' = [idx EXCEPT ![t] = idx[t]]
        /\ idx[t] <= Len(Order) /\ \A j \in 1..(idx[t] - 1) : Order[j] \in ran' \cup tolerant
    BY <1>1, <1>2, <2>1, AtHand
  <2>9. /\ fin[t] \in Fins /\ fin' = [fin EXCEPT ![t] = fin[t]] /\ fin[t] = "running"
        /\ fin[t] \notin Good /\ Snapshot(x) \subseteq ran'
    BY <1>1, <2>1, <2>2, AtHand DEF Good
  <2>10. /\ ran \subseteq ran' /\ ran' \subseteq Nodes /\ settled' \subseteq Nodes
         /\ evt' \in {"none", "set", "cleared"} /\ queue' \subseteq Directives
    BY <1>1, <2>1, AtHand
  <2> HIDE DEF x
  <2> QED
    BY <1>1, <2>1, <2>2, <2>7, <2>8, <2>9, <2>10, OneMoves
<1> QED
  BY <1>4, <1>5

LEMMA AskTimesOutInv == ASSUME IInv, NEW t \in Tasks, AskTimesOut(t) PROVE IInv'
<1>1. /\ up /\ pc[t] \in {"ask", "unheard"} /\ Event /\ TaskFrame /\ Without(t, "denied")
      /\ UNCHANGED <<latest, flag, evt, queue, ran, settled>>
  BY DEF AskTimesOut, Runs, engine
<1>2. released /\ idx[t] \in 1..Len(Order) /\ Order[idx[t]] \in Nodes
  BY <1>1, InNodeReleased
<1> QED
  BY <1>1, <1>2, AtHand, WithoutInv

LEMMA NodeFailsInv == ASSUME IInv, NEW t \in Tasks, NodeFails(t) PROVE IInv'
<1>1. /\ up /\ pc[t] = "run" /\ Event /\ TaskFrame /\ Without(t, "failed")
      /\ UNCHANGED <<latest, flag, evt, queue, ran, settled>>
  BY DEF NodeFails, Runs, engine
<1>2. released /\ idx[t] \in 1..Len(Order) /\ Order[idx[t]] \in Nodes
  BY <1>1, InNodeReleased
<1> QED
  BY <1>1, <1>2, AtHand, WithoutInv

LEMMA NodeOkInv == ASSUME IInv, NEW t \in Tasks, NodeOk(t) PROVE IInv'
<1> DEFINE n == Order[idx[t]]
           x == steps[t] \cup {<<n, "success">>}
<1>1. /\ up /\ pc[t] = "run" /\ Event /\ TaskFrame
      /\ steps' = [steps EXCEPT ![t] = x] /\ ran' = ran \cup {n}
      /\ idx' = [idx EXCEPT ![t] = idx[t] + 1]
      /\ pc' = [pc EXCEPT ![t] = "boundary"] /\ UNCHANGED <<fin, settled>>
      /\ UNCHANGED <<latest, flag, evt, queue>>
  BY DEF NodeOk, Runs, Append1, Advance, Move, engine
<1>2. released /\ n \in Nodes /\ idx[t] \in 1..Len(Order)
  BY <1>1, InNodeReleased
<1>3. x \in SUBSET Step /\ Snapshot(x) \subseteq ran' /\ ran' \subseteq Nodes
  BY <1>1, <1>2, AtHand DEF Step, Snapshot
<1>4. idx[t] + 1 \in 1..(Len(Order) + 1) /\ \A j \in 1..((idx[t] + 1) - 1) : Order[j] \in ran' \cup tolerant
  <2>1. idx[t] + 1 \in 1..(Len(Order) + 1)
    BY <1>2, OrderFacts
  <2>2. ASSUME NEW j \in 1..((idx[t] + 1) - 1) PROVE Order[j] \in ran' \cup tolerant
    <3>1. j = idx[t] \/ j \in 1..(idx[t] - 1)
      BY <1>2
    <3> QED
      BY <3>1, <1>1, AtHand
  <2> QED
    BY <2>1, <2>2
<1>5. ran \subseteq ran'
  BY <1>1
<1> DEFINE i == idx[t] + 1
<1>6. /\ i \in 1..(Len(Order) + 1) /\ idx' = [idx EXCEPT ![t] = i]
      /\ \A j \in 1..(i - 1) : Order[j] \in ran' \cup tolerant
  BY <1>1, <1>4
<1>7. fin[t] = "running" /\ fin[t] \notin Good /\ UNCHANGED tolerant
  BY <1>1, AtHand, FrameKeeps DEF Good
<1> HIDE DEF x, n, i
<1>8. /\ status' \in Statuses /\ recSteps' \subseteq Step /\ recDirs' \subseteq Directives
      /\ StoreOK' /\ EarnedInRecord'
  BY <1>1, <1>5, <1>7, NewestEvent
<1>9. /\ fin' = [fin EXCEPT ![t] = fin[t]] /\ fin[t] \in Fins /\ fin[t] # "success"
      /\ "boundary" = "ending" <=> fin[t] # "running"
      /\ evt' \in {"none", "set", "cleared"} /\ queue' \subseteq Directives /\ settled' \subseteq Nodes
      /\ pc[t] \notin {"none", "recall", "ended"} /\ UNCHANGED <<latest, flag>>
  BY <1>1, <1>7, AtHand
<1> QED
  BY <1>1, <1>2, <1>3, <1>5, <1>6, <1>7, <1>8, <1>9, OneMoves

LEMMA BeginInv == ASSUME IInv, NEW t \in Tasks, Begin(t) PROVE IInv'
<1> USE DEF IInv
<1>1. /\ up /\ pc[t] = "recall" /\ latest' = t /\ flag' = "off"
      /\ evt' = IF t \in cold THEN "cleared" ELSE "set"
      /\ pc' = [Forgotten EXCEPT ![t] = "boundary"] /\ OnEvent(t, steps[t], fin[t])
      /\ UNCHANGED <<idx, steps, fin, queue, ran, settled>>
      /\ UNCHANGED <<up, replay, current, snap, cold, killed, unwinding, released, sent, tolerant, crashes>>
  BY DEF Begin, Runs, TaskFrame
<1>2. /\ pc' \in [Tasks -> Places] /\ pc'[t] = "boundary"
      /\ \A u \in Tasks \ {t} : pc'[u] = Forgotten[u]
  BY <1>1, ForgottenFacts DEF Places
<1>3. /\ status' \in Statuses /\ recSteps' \subseteq Step /\ recDirs' \subseteq Directives
      /\ StoreOK' /\ EarnedInRecord'
  BY <1>1, AtHand, EventFacts
<1>4. TypeOK'
  BY <1>1, <1>2, <1>3 DEF TypeOK, StoreOK, Places, Statuses
<1>5. Down' /\ Backed' /\ NoOrphanRow'
  BY <1>1, <1>2, WorkBacks DEF Down, Works
<1>6. Known'
  BY <1>1, <1>2, ForgottenFacts, RegistryAssumption DEF Known
<1>7. EarnedByTasks'
  BY <1>1 DEF EarnedByTasks, Snapshot
<1>8. Quiet'
  <2> SUFFICES ASSUME ~released PROVE /\ \A u \in Alive' : Still(u)'
                                      /\ \A u, v \in Alive' : u = v
    BY <1>1 DEF Quiet
  <2>1. t \in cold /\ \A u \in Alive : u = t
    BY <1>1 DEF Quiet, Still, Alive
  <2>2. Alive' = {t}
    BY <2>1, <1>2, ForgottenFacts DEF Alive
  <2> QED
    BY <2>1, <2>2, <1>1, <1>2 DEF Still
<1> QED
  BY <1>3, <1>4, <1>5, <1>6, <1>7, <1>8

-----------------------------------------------------------------------------
(* The event is set. *)
LEMMA EventSet ==
  ASSUME IInv, up, NEW w \in Tasks \cup {None}, w \in Tasks => pc[w] = "ask", SetEvent(w),
         UNCHANGED <<up, replay, current, idx, snap, cold, unwinding, latest, queue, ran, settled,
                     sent, tolerant, crashes>>,
         killed' \subseteq Tasks, flag' \in {"none", "off", "on"},
         status' \in Statuses, recSteps' \subseteq Step, recDirs' \subseteq Directives,
         StoreOK', EarnedInRecord', released' \in BOOLEAN,
         released' \/ (~released /\ flag' = "on" /\ w = None),
         NEW k \in Tasks, Works(k)
  PROVE  IInv'
<1> USE DEF IInv
<1>0. None \notin Tasks
  BY RegistryAssumption
<1>1. /\ evt' = "set" /\ pc' \in [Tasks -> Places] /\ fin' \in [Tasks -> Fins]
      /\ steps' \in [Tasks -> SUBSET Step]
  BY SetEventFacts
<1>2. \A u \in Tasks :
        \/ /\ fin'[u] = fin[u] /\ steps'[u] = steps[u] /\ (u = w => pc'[u] = "run")
           /\ \/ u = w /\ pc'[u] = "run"
              \/ u # w /\ pc[u] = "parked" /\ pc'[u] = "woken"
              \/ u # w /\ pc[u] # "parked" /\ pc'[u] = pc[u]
        \/ /\ u # w /\ pc[u] = "ask" /\ pc'[u] = "ending" /\ fin'[u] = "failed"
           /\ Snapshot(steps'[u]) \subseteq Snapshot(steps[u])
  BY SetEventFacts
<1>4. TypeOK'
  BY <1>1 DEF TypeOK, StoreOK, Places, Fins, Statuses
<1>5. Down' /\ Known'
  BY <1>2 DEF Down, Known
<1>6. Backed' /\ NoOrphanRow'
  <2>1. Works(k)'
    BY <1>2 DEF Works
  <2> QED
    BY <2>1, WorkBacks
<1>7. EarnedByTasks'
  <2>1. \A ss : Snapshot(ss)' = Snapshot(ss)
    BY DEF Snapshot
  <2> QED
    BY <1>2, <2>1 DEF EarnedByTasks, Good
<1>8. Quiet'
  <2> SUFFICES ASSUME ~released' PROVE /\ \A u \in Alive' : Still(u)'
                                       /\ \A u, v \in Alive' : u = v
    BY DEF Quiet
  <2>1. ~released /\ flag' = "on" /\ w = None
    OBVIOUS
  <2>2. /\ \A u \in Alive : Still(u)
        /\ \A u, v \in Alive : u = v
    BY <2>1 DEF Quiet
  <2>3. Alive' \subseteq Alive
    BY <1>0, <1>2, <2>1 DEF Alive
  <2>4. ASSUME NEW u \in Alive' PROVE Still(u)'
    <3>1. u \in Tasks /\ Still(u)
      BY <2>2, <2>3 DEF Alive
    <3> QED
      BY <3>1, <2>1, <1>0, <1>2 DEF Still
  <2> QED
    BY <2>2, <2>3, <2>4
<1> QED
  BY <1>4, <1>5, <1>6, <1>7, <1>8

LEMMA ApproveInv == ASSUME IInv, NEW t \in Tasks, Approve(t) PROVE IInv'
<1>1. /\ up /\ pc[t] = "ask" /\ SetEvent(t) /\ Event
      /\ UNCHANGED <<idx, latest, flag, queue, ran, settled>>
      /\ UNCHANGED <<up, replay, current, snap, cold, killed, unwinding, released, sent, tolerant, crashes>>
  BY DEF Approve, Runs, TaskFrame
<1>2. released
  BY <1>1, InNodeReleased
<1>3. /\ status' \in Statuses /\ recSteps' \subseteq Step /\ recDirs' \subseteq Directives
      /\ StoreOK' /\ EarnedInRecord'
  BY <1>1, NewestEvent
<1>4. killed' \subseteq Tasks /\ flag' \in {"none", "off", "on"} /\ released' \in BOOLEAN
  BY <1>1 DEF IInv, TypeOK
<1>5. released'
  BY <1>1, <1>2
<1>6. Works(t)
  BY <1>1 DEF Works
<1>7. released' \/ (~released /\ flag' = "on" /\ t = None)
  BY <1>5
<1>8. t \in Tasks \cup {None} /\ (t \in Tasks => pc[t] = "ask")
  BY <1>1, RegistryAssumption
<1> QED
  BY <1>7, <1>8, <1>1, <1>3, <1>4, <1>5, <1>6, EventSet

LEMMA RejectInv == ASSUME IInv, NEW t \in Tasks, Reject(t) PROVE IInv'
<1>1. /\ up /\ pc[t] = "ask" /\ SetEvent(None) /\ Event
      /\ UNCHANGED <<idx, latest, flag, queue, ran, settled>>
      /\ UNCHANGED <<up, replay, current, snap, cold, killed, unwinding, released, sent, tolerant, crashes>>
  BY DEF Reject, Runs, TaskFrame
<1>2. released
  BY <1>1, InNodeReleased
<1>3. /\ status' \in Statuses /\ recSteps' \subseteq Step /\ recDirs' \subseteq Directives
      /\ StoreOK' /\ EarnedInRecord'
  BY <1>1, NewestEvent
<1>4. killed' \subseteq Tasks /\ flag' \in {"none", "off", "on"} /\ released' \in BOOLEAN
  BY <1>1 DEF IInv, TypeOK
<1>5. released' /\ None \notin Tasks
  BY <1>1, <1>2, RegistryAssumption
<1>6. Works(t)
  BY <1>1 DEF Works
<1>7. released' \/ (~released /\ flag' = "on" /\ None = None)
  BY <1>5
<1>8. None \in Tasks \cup {None} /\ (None \in Tasks => pc[None] = "ask")
  BY <1>1, RegistryAssumption
<1> QED
  BY <1>7, <1>8, <1>1, <1>3, <1>4, <1>5, <1>6, EventSet

LEMMA ResumeInv == ASSUME IInv, Resume PROVE IInv'
<1>1. /\ up /\ status = "paused" /\ SetEvent(None)
      /\ status' = "running" /\ UNCHANGED <<recSteps, recDirs>> /\ Persist /\ released' = TRUE
      /\ UNCHANGED <<up, replay, current, idx, snap, cold, killed, unwinding, latest,
                     flag, queue, ran, settled, sent, tolerant, crashes>>
  BY DEF Resume, Serving
<1>2. /\ status' \in Statuses /\ recSteps' \subseteq Step /\ recDirs' \subseteq Directives
      /\ StoreOK' /\ EarnedInRecord'
  <2>1. status' \in Statuses /\ recSteps' \subseteq Step /\ recDirs' \subseteq Directives
    BY <1>1 DEF IInv, TypeOK, Statuses, Active
  <2>2. Snapshot(recSteps') \subseteq ran' /\ status' \notin Good /\ status' # "success" /\ ran \subseteq ran'
    BY <1>1 DEF IInv, EarnedInRecord, Good
  <2> QED
    BY <1>1, <2>1, <2>2, PersistTypes, PersistEarned DEF IInv
<1>3. killed' \subseteq Tasks /\ flag' \in {"none", "off", "on"}
  BY <1>1 DEF IInv, TypeOK
<1>4. released' /\ released' \in BOOLEAN
  BY <1>1
<1>5. PICK k \in Tasks : Works(k)
  BY <1>1 DEF IInv, Backed, Active
<1>6. None \in Tasks => pc[None] = "ask"
  BY RegistryAssumption
<1>7. released' \/ (~released /\ flag' = "on" /\ None = None)
  BY <1>4
<1>8. None \in Tasks \cup {None} /\ (None \in Tasks => pc[None] = "ask")
  BY <1>1, RegistryAssumption
<1> QED
  BY <1>7, <1>8, <1>1, <1>2, <1>3, <1>4, <1>5, <1>6, EventSet

LEMMA CancelInv == ASSUME IInv, Cancel PROVE IInv'
<1>1. /\ up /\ status \in Active
      /\ flag' = IF flag = "none" THEN "none" ELSE "on"
      /\ UNCHANGED <<status, recSteps, recDirs, row, leftover, faults>>
      /\ UNCHANGED <<up, replay, current, idx, snap, cold, unwinding,
                     latest, queue, released, ran, settled, sent, tolerant, crashes>>
  BY DEF Cancel, Serving, record, store
<1>2. killed' \subseteq Tasks
  BY DEF Cancel, KillCurrent, IInv, TypeOK, Alive
<1>3. flag' \in {"none", "off", "on"}
  BY <1>1
<1>4. status' \in Statuses /\ recSteps' \subseteq Step /\ recDirs' \subseteq Directives
      /\ StoreOK' /\ EarnedInRecord'
  BY <1>1, RecordKept DEF IInv, TypeOK, StoreOK, Statuses
<1>5. released' \in BOOLEAN
  BY <1>1 DEF IInv, TypeOK
<1>6. PICK k \in Tasks : Works(k)
  BY <1>1 DEF IInv, Backed
<1>7. CASE flag # "none" /\ evt # "none"
  <2>1. SetEvent(None) /\ flag' = "on"
    BY <1>1, <1>7 DEF Cancel
  <2>2. None \in Tasks => pc[None] = "ask"
    BY RegistryAssumption
  <2>3. released' \/ (~released /\ flag' = "on" /\ None = None)
    BY <1>1, <2>1
  <2> QED
    BY <1>1, <1>2, <1>3, <1>4, <1>5, <1>6, <2>1, <2>2, <2>3, EventSet
<1>8. CASE flag = "none" \/ evt = "none"
  <2>1. UNCHANGED <<evt, pc, fin, steps>>
    BY <1>8 DEF Cancel
  <2>2. TypeOK'
    BY <1>1, <1>2, <1>3, <2>1 DEF IInv, TypeOK
  <2>3. Down' /\ Known' /\ Backed' /\ NoOrphanRow'
    BY <1>1, <2>1 DEF IInv, Down, Known, Backed, Works, NoOrphanRow, Alive
  <2>4. EarnedByTasks'
    BY <1>1, <2>1 DEF IInv, EarnedByTasks, Snapshot
  <2>5. Quiet'
    <3>1. flag' = flag \/ flag' = "on"
      BY <1>1
    <3>2. \A t \in Tasks : Still(t) => Still(t)'
      BY <3>1, <1>1, <2>1 DEF Still
    <3>3. Alive' = Alive /\ released' = released
      BY <1>1, <2>1 DEF Alive
    <3> QED
      BY <3>2, <3>3 DEF IInv, Quiet, Alive
  <2> QED
    BY <1>4, <2>2, <2>3, <2>4, <2>5 DEF IInv
<1> QED
  BY <1>7, <1>8

-----------------------------------------------------------------------------
(* An execution is over. *)
LEMMA ClosedFacts ==
  ASSUME TypeOK, EarnedInRecord, UNCHANGED ran, NEW t, NEW how, NEW r \in Row \cup {None},
         r # None => Snapshot(r.steps) \subseteq ran, Closed(t, how, r)
  PROVE  /\ status' = how /\ current' = None /\ StoreOK' /\ NoOrphanRow'
         /\ row' # None => Snapshot(row'.steps) \subseteq ran
<1>1. /\ status' = how /\ current' = None /\ row' \in {None, row, r} /\ leftover' = (row' # None)
      /\ faults' = faults \/ (faults < MaxFaults /\ faults' = faults + 1)
  BY DEF Closed, Fault
<1>2. faults' \in 0..MaxFaults /\ leftover' \in BOOLEAN
  BY <1>1, RegistryAssumption DEF TypeOK
<1>3. row' \in Row \cup {None} /\ (row' # None => Snapshot(row'.steps) \subseteq ran)
  BY <1>1 DEF TypeOK, EarnedInRecord
<1>4. NoOrphanRow'
  BY <1>1 DEF NoOrphanRow
<1> QED
  BY <1>1, <1>2, <1>3, <1>4 DEF StoreOK

LEMMA EngineEndInv == ASSUME IInv, NEW t \in Tasks, EngineEnd(t) PROVE IInv'
<1> USE DEF IInv
<1> DEFINE how    == IF flag = "none" THEN "failed"
                     ELSE IF t \in unwinding THEN "cancelled" ELSE fin[t]
           others == IF flag = "none" THEN pc ELSE Forgotten
           st     == IF status = "paused" THEN "paused" ELSE fin[latest]
           r      == Saved(st, steps[latest], recDirs)
           closed == Closed(t, how, r) /\ pc' = [others EXCEPT ![t] = "ended"]
           closes == /\ how = "success" /\ pc' = [others EXCEPT ![t] = "closing"] /\ status' = how
                     /\ Write(r) /\ UNCHANGED current
<1>1. /\ up /\ pc[t] = "ending"
      /\ recSteps' = IF t \in unwinding \/ flag = "none" THEN steps[latest] ELSE steps[t]
      /\ flag' = "none" /\ (evt' = evt \/ evt' = "none") /\ (queue' = queue \/ queue' = {})
      /\ closed \/ closes
      /\ UNCHANGED <<up, recDirs, replay, idx, snap, steps, fin, cold, killed, unwinding, latest>>
      /\ UNCHANGED <<released, ran, settled, sent, tolerant, crashes>>
  BY DEF EngineEnd, Runs, hist
<1>2. latest \in Tasks
  BY <1>1 DEF Known, TypeOK
<1>3. /\ recSteps' \subseteq Step /\ Snapshot(recSteps') \subseteq ran
      /\ Snapshot(steps[latest]) \subseteq ran /\ steps[latest] \in SUBSET Step
      /\ fin[latest] \in Fins
  BY <1>1, <1>2, AtHand
<1>4. /\ how \in Good \cup {"failed", "cancelled"} /\ how \notin Active
      /\ how \in Good => Nodes \ tolerant \subseteq ran
      /\ how = "success" => Clean(recSteps')
  BY <1>1, AtHand DEF Known, Fins, Good, Active
<1>8. r \in Row \cup {None} /\ (r # None => Snapshot(r.steps) \subseteq ran)
  <2>1. steps[latest] \in SUBSET Step /\ recDirs \in SUBSET Directives
    BY <1>3 DEF TypeOK
  <2> HIDE DEF st
  <2> QED
    BY <1>3, <2>1, SavedFacts DEF EarnedInRecord
<1>5. /\ others \in [Tasks -> Places]
      /\ \A u \in Tasks : /\ others[u] \in {"stranded", "unheard"} \/ others[u] = pc[u]
                          /\ others[u] = "unheard" => pc[u] \in {"ask", "unheard"}
                          /\ others[u] = "stranded" => pc[u] \in {"parked", "stranded"}
                          /\ pc[u] \in {"none", "ended", "closing"} => others[u] = pc[u]
  <2>1. CASE flag = "none"
    <3>1. others = pc
      BY <2>1
    <3> HIDE DEF others
    <3> QED
      BY <3>1 DEF TypeOK, Places
  <2>2. CASE flag # "none"
    <3>1. others = Forgotten
      BY <2>2
    <3> HIDE DEF others
    <3> QED
      BY <3>1, ForgottenFacts
  <2> QED
    BY <2>1, <2>2
<1>6. CASE closed
  <2>1. /\ status' = how /\ StoreOK' /\ NoOrphanRow' /\ current' = None
        /\ row' # None => Snapshot(row'.steps) \subseteq ran
        /\ pc' = [others EXCEPT ![t] = "ended"]
    <3> HIDE DEF how, st, r
    <3> QED
      BY <1>1, <1>6, <1>8, ClosedFacts
  <2> HIDE DEF how, others, st, r, closed, closes
  <2>2. pc' \in [Tasks -> Places] /\ pc'[t] = "ended" /\ \A u \in Tasks \ {t} : pc'[u] = others[u]
    BY <1>5, <2>1 DEF Places
  <2>3. TypeOK'
    BY <1>1, <1>3, <1>4, <2>1, <2>2 DEF TypeOK, StoreOK, Places
  <2>4. Down' /\ Backed'
    BY <1>1, <1>4, <2>1 DEF Down, Backed
  <2>5. Known'
    BY <1>1, <1>5, <2>2 DEF Known
  <2>6. EarnedByTasks' /\ EarnedInRecord'
    BY <1>1, <1>3, <1>4, <2>1 DEF EarnedByTasks, EarnedInRecord, SuccessIsComplete, Snapshot, Clean
  <2>7. Quiet'
    <3> SUFFICES ASSUME ~released PROVE Alive' = {}
      BY <1>1 DEF Quiet
    <3>1. \A u \in Alive : u = t
      BY <1>1 DEF Quiet, Alive
    <3> QED
      BY <3>1, <1>5, <2>2 DEF Alive
  <2> QED
    BY <2>1, <2>3, <2>4, <2>5, <2>6, <2>7
<1>7. CASE closes
  <2>1. /\ how = "success" /\ pc' = [others EXCEPT ![t] = "closing"] /\ status' = how
        /\ Write(r) /\ UNCHANGED current
    BY <1>7
  <2> HIDE DEF how, others, st, r, closed, closes
  <2>2. pc' \in [Tasks -> Places] /\ pc'[t] = "closing" /\ \A u \in Tasks \ {t} : pc'[u] = others[u]
    BY <1>5, <2>1 DEF Places
  <2>3. StoreOK' /\ (row' # None => Snapshot(row'.steps) \subseteq ran)
    BY <2>1, <1>8, WriteTypes DEF EarnedInRecord
  <2>4. TypeOK'
    BY <1>1, <1>3, <1>4, <2>1, <2>2, <2>3 DEF TypeOK, StoreOK, Places
  <2>5. Down' /\ Backed' /\ NoOrphanRow'
    BY <1>1, <1>4, <2>1, <2>2 DEF Down, Backed, NoOrphanRow, Alive
  <2>6. Known'
    BY <1>1, <1>5, <2>2 DEF Known
  <2>7. EarnedByTasks' /\ EarnedInRecord'
    BY <1>1, <1>3, <1>4, <2>1, <2>3
       DEF EarnedByTasks, EarnedInRecord, SuccessIsComplete, Snapshot, Clean
  <2>8. Quiet'
    <3> SUFFICES ASSUME ~released PROVE Alive' = {t}
      BY <1>1, <2>2 DEF Quiet, Still
    <3>1. \A u \in Alive : u = t
      BY <1>1 DEF Quiet, Alive
    <3> QED
      BY <3>1, <1>5, <2>2 DEF Alive
  <2> QED
    BY <2>4, <2>5, <2>6, <2>7, <2>8
<1> QED
  BY <1>1, <1>6, <1>7

LEMMA CloseInv == ASSUME IInv, NEW t \in Tasks, Close(t) PROVE IInv'
<1> USE DEF IInv
<1>1. /\ up /\ pc[t] = "closing" /\ pc' = [pc EXCEPT ![t] = "ended"]
      /\ status' = status /\ StoreOK' /\ NoOrphanRow' /\ current' = None
      /\ row' # None => Snapshot(row'.steps) \subseteq ran
      /\ UNCHANGED <<up, recSteps, recDirs, replay, idx, snap, steps, fin, cold, killed, unwinding>>
      /\ UNCHANGED <<latest, flag, evt, queue, released, ran, settled, sent, tolerant, crashes>>
  BY ClosedFacts DEF Close, Runs, Move, engine, hist, TypeOK, EarnedInRecord
<1>2. pc' \in [Tasks -> Places] /\ pc'[t] = "ended" /\ \A u \in Tasks \ {t} : pc'[u] = pc[u]
  BY <1>1 DEF TypeOK, Places
<1>3. TypeOK'
  BY <1>1, <1>2 DEF TypeOK, StoreOK, Places
<1>4. Down' /\ Known' /\ NoOrphanRow'
  BY <1>1, <1>2 DEF Down, Known
<1>5. Backed'
  BY <1>1, <1>2 DEF Backed, Works
<1>6. EarnedByTasks' /\ EarnedInRecord'
  BY <1>1 DEF EarnedByTasks, EarnedInRecord, SuccessIsComplete, Snapshot
<1>7. Quiet'
  <2> SUFFICES ASSUME ~released PROVE Alive' = {}
    BY <1>1 DEF Quiet
  <2>1. \A u \in Alive : u = t
    BY <1>1 DEF Quiet, Alive
  <2> QED
    BY <2>1, <1>2 DEF Alive
<1> QED
  BY <1>3, <1>4, <1>5, <1>6, <1>7

LEMMA DeliverInv == ASSUME IInv, NEW t \in Tasks, Deliver(t) PROVE IInv'
<1> USE DEF IInv
<1>1. /\ up /\ t \in Alive /\ killed' = killed \ {t}
      /\ UNCHANGED <<up, recSteps, recDirs, replay, idx, snap, steps, fin, cold>>
      /\ UNCHANGED <<latest, flag, evt, queue, released, ran, settled, sent, tolerant, crashes>>
  BY DEF Deliver, engine, hist
<1>2. CASE pc[t] \in {"recall", "ending", "closing"}
  <2>1. /\ status' = "cancelled" /\ StoreOK' /\ NoOrphanRow' /\ current' = None
        /\ row' # None => Snapshot(row'.steps) \subseteq ran
        /\ pc' = [pc EXCEPT ![t] = "ended"] /\ UNCHANGED unwinding
    BY <1>1, <1>2, ClosedFacts DEF Deliver, Delivered, Move, TypeOK, EarnedInRecord
  <2>2. pc' \in [Tasks -> Places] /\ pc'[t] = "ended" /\ \A u \in Tasks \ {t} : pc'[u] = pc[u]
    BY <2>1 DEF TypeOK, Places
  <2>3. TypeOK'
    BY <1>1, <2>1, <2>2 DEF TypeOK, StoreOK, Places
  <2>4. Down' /\ Known' /\ Backed' /\ NoOrphanRow'
    BY <1>1, <2>1, <2>2 DEF Down, Known, Backed, Active
  <2>5. EarnedByTasks' /\ EarnedInRecord'
    BY <1>1, <2>1 DEF EarnedByTasks, EarnedInRecord, SuccessIsComplete, Snapshot, Good
  <2>6. Quiet'
    <3> SUFFICES ASSUME ~released PROVE Alive' = {}
      BY <1>1 DEF Quiet
    <3>1. \A u \in Alive : u = t
      BY <1>1 DEF Quiet
    <3> QED
      BY <3>1, <2>2 DEF Alive
  <2> QED
    BY <2>3, <2>4, <2>5, <2>6
<1>3. CASE pc[t] \notin {"recall", "ending", "closing"}
  <2>1. /\ UNCHANGED <<status, row, leftover, faults, current>> /\ unwinding' = unwinding \cup {t}
        /\ pc' = [pc EXCEPT ![t] = "ending"]
    BY <1>3 DEF Deliver, Move, store
  <2>2. pc' \in [Tasks -> Places] /\ pc'[t] = "ending" /\ \A u \in Tasks \ {t} : pc'[u] = pc[u]
    BY <2>1 DEF TypeOK, Places
  <2>3. TypeOK'
    BY <1>1, <2>1, <2>2 DEF TypeOK, Places
  <2>4. Down' /\ Known'
    BY <1>1, <1>3, <2>1, <2>2 DEF Down, Known, Alive
  <2>5. Backed' /\ NoOrphanRow'
    BY <2>2, WorkBacks DEF Works
  <2>6. EarnedByTasks' /\ EarnedInRecord'
    BY <1>1, <2>1 DEF EarnedByTasks, EarnedInRecord, SuccessIsComplete, Snapshot
  <2>7. Quiet'
    <3> SUFFICES ASSUME ~released PROVE Alive' = {t}
      BY <1>1, <2>2 DEF Quiet, Still
    <3>1. \A u \in Alive : u = t
      BY <1>1 DEF Quiet
    <3> QED
      BY <3>1, <1>1, <2>2 DEF Alive
  <2> QED
    BY <2>3, <2>4, <2>5, <2>6, <2>7
<1> QED
  BY <1>2, <1>3

-----------------------------------------------------------------------------
(* Requests that move no task. *)
LEMMA Served ==
  ASSUME IInv, up,
         UNCHANGED <<up, current, pc, idx, snap, steps, fin, cold, unwinding>>,
         UNCHANGED <<latest, flag, released, ran, settled, tolerant, crashes, recSteps>>,
         killed' \subseteq Tasks, evt' \in {evt, "cleared"}, queue' \subseteq Directives,
         sent' \subseteq Directives, recDirs' \subseteq Directives,
         replay' \in (SUBSET Directives) \cup {None},
         status' = status \/ (status \in Active /\ status' \in Active), Persist
  PROVE  IInv'
<1> USE DEF IInv
<1>1. status' \in Statuses /\ recSteps' \subseteq Step
  BY DEF TypeOK, Statuses, Active
<1>2. StoreOK' /\ (row' = row \/ status' \in Active) /\ leftover' = leftover
  BY <1>1, PersistTypes DEF Persist, Write
<1>3. TypeOK'
  BY <1>1, <1>2 DEF TypeOK, StoreOK, Statuses
<1>4. Down' /\ Known' /\ Backed'
  BY DEF Down, Known, Backed, Works
<1>5. NoOrphanRow'
  BY <1>2, <1>4 DEF NoOrphanRow, Backed, Works, Alive
<1>6. EarnedByTasks'
  BY DEF EarnedByTasks, Snapshot
<1>7. EarnedInRecord'
  <2>1. ran \subseteq ran' /\ Snapshot(recSteps') \subseteq ran'
    BY DEF EarnedInRecord
  <2>2. /\ status' \in Good => Nodes \ tolerant \subseteq ran'
        /\ status' = "success" => Clean(recSteps')
    BY DEF EarnedInRecord, SuccessIsComplete, Active, Good, Clean
  <2> QED
    BY <1>1, <2>1, <2>2, PersistEarned
<1>8. Quiet'
  <2>1. Alive' = Alive /\ \A t \in Tasks : Still(t) => Still(t)'
    BY DEF Alive, Still
  <2> QED
    BY <2>1 DEF Quiet, Alive
<1> QED
  BY <1>3, <1>4, <1>5, <1>6, <1>7, <1>8

LEMMA PauseInv == ASSUME IInv, Pause PROVE IInv'
<1>1. /\ up /\ status = "running" /\ evt' = "cleared" /\ status' = "paused" /\ Persist
      /\ UNCHANGED <<up, current, pc, idx, snap, steps, fin, cold, unwinding>>
      /\ UNCHANGED <<latest, flag, released, ran, settled, tolerant, crashes, recSteps>>
      /\ UNCHANGED <<recDirs, replay, killed, queue, sent>>
  BY DEF Pause, Serving, task, hist
<1>2. /\ killed' \subseteq Tasks /\ queue' \subseteq Directives /\ sent' \subseteq Directives
      /\ recDirs' \subseteq Directives /\ replay' \in (SUBSET Directives) \cup {None}
  BY <1>1 DEF IInv, TypeOK
<1> QED
  BY <1>1, <1>2, Served DEF Active

LEMMA SendDirectiveInv == ASSUME IInv, NEW d \in Directives, SendDirective(d) PROVE IInv'
<1>1. /\ up /\ status \in Active /\ UNCHANGED <<evt, status>> /\ Persist
      /\ UNCHANGED <<up, current, pc, idx, snap, steps, fin, cold, unwinding>>
      /\ UNCHANGED <<latest, flag, released, ran, settled, tolerant, crashes, recSteps>>
      /\ UNCHANGED <<replay, killed>> /\ recDirs' = recDirs \cup {d}
      /\ queue' = queue \cup {d} /\ sent' = sent \cup {d}
  BY DEF SendDirective, Serving, task
<1>2. /\ killed' \subseteq Tasks /\ queue' \subseteq Directives /\ sent' \subseteq Directives
      /\ recDirs' \subseteq Directives /\ replay' \in (SUBSET Directives) \cup {None}
  BY <1>1 DEF IInv, TypeOK
<1> QED
  BY <1>1, <1>2, Served

LEMMA StallInv == ASSUME IInv, Stall PROVE IInv'
<1>1. /\ up /\ status = "running" /\ status' = "paused" /\ Persist
      /\ UNCHANGED <<up, current, pc, idx, snap, steps, fin, cold, unwinding>>
      /\ UNCHANGED <<latest, flag, released, ran, settled, tolerant, crashes, recSteps>>
      /\ UNCHANGED <<recDirs, replay, queue, sent, evt>>
  BY DEF Stall, Serving, engine, hist
<1>2. killed' \subseteq Tasks
  BY DEF Stall, KillCurrent, IInv, TypeOK, Alive
<1>3. /\ queue' \subseteq Directives /\ sent' \subseteq Directives
      /\ recDirs' \subseteq Directives /\ replay' \in (SUBSET Directives) \cup {None}
  BY <1>1 DEF IInv, TypeOK
<1> QED
  BY <1>1, <1>2, <1>3, Served DEF Active

LEMMA ReplayInv == ASSUME IInv, Replay PROVE IInv'
<1>1. /\ up /\ replay # None /\ replay' = None /\ UNCHANGED <<status, recSteps>> /\ Persist
      /\ \/ queue' = queue \cup replay /\ recDirs' = replay
         \/ UNCHANGED <<queue, recDirs>>
      /\ UNCHANGED <<up, current, pc, idx, snap, steps, fin, cold, killed, unwinding>>
      /\ UNCHANGED <<latest, flag, evt, released, ran, settled, sent, tolerant, crashes>>
  BY DEF Replay, task, hist
<1>2. replay \subseteq Directives
  BY <1>1 DEF IInv, TypeOK
<1>3. /\ killed' \subseteq Tasks /\ queue' \subseteq Directives /\ sent' \subseteq Directives
      /\ recDirs' \subseteq Directives /\ replay' \in (SUBSET Directives) \cup {None}
  BY <1>1, <1>2 DEF IInv, TypeOK
<1> QED
  BY <1>1, <1>3, Served

LEMMA CrashInv == ASSUME IInv, Crash PROVE IInv'
<1> USE DEF IInv
<1>1. /\ up' = FALSE /\ crashes < MaxCrashes /\ crashes' = crashes + 1 /\ released' = FALSE
      /\ status' = "none" /\ recSteps' = {} /\ recDirs' = {} /\ replay' = None /\ current' = None
      /\ pc' = [t \in Tasks |-> "none"] /\ idx' = [t \in Tasks |-> 1]
      /\ snap' = [t \in Tasks |-> {}] /\ steps' = [t \in Tasks |-> {}]
      /\ fin' = [t \in Tasks |-> "running"]
      /\ cold' = {} /\ killed' = {} /\ unwinding' = {}
      /\ latest' = None /\ flag' = "none" /\ evt' = "none" /\ queue' = {}
      /\ UNCHANGED <<row, leftover, faults, ran, settled, sent, tolerant>>
  BY DEF Crash, store
<1>2. TypeOK'
  <2>1. crashes' \in 0..MaxCrashes
    BY <1>1, RegistryAssumption DEF TypeOK
  <2>2. 1 \in 1..(Len(Order) + 1)
    BY OrderFacts
  <2>3. /\ pc' \in [Tasks -> Places] /\ idx' \in [Tasks -> 1..(Len(Order) + 1)]
        /\ snap' \in [Tasks -> SUBSET Nodes] /\ steps' \in [Tasks -> SUBSET Step]
        /\ fin' \in [Tasks -> Fins]
    BY <1>1, <2>2 DEF Places, Fins
  <2>4. up' \in BOOLEAN /\ released' \in BOOLEAN
    BY <1>1
  <2>5. /\ StoreOK' /\ ran' \subseteq Nodes /\ settled' \subseteq Nodes
        /\ sent' \subseteq Directives /\ tolerant' \in Tolerances
    BY <1>1 DEF TypeOK, StoreOK
  <2>6. /\ status' \in Statuses /\ recSteps' \subseteq Step /\ recDirs' \subseteq Directives
        /\ replay' \in (SUBSET Directives) \cup {None}
        /\ current' \in Tasks \cup {None} /\ latest' \in Tasks \cup {None}
        /\ cold' \subseteq Tasks /\ killed' \subseteq Tasks /\ unwinding' \subseteq Tasks
        /\ flag' \in {"none", "off", "on"} /\ evt' \in {"none", "set", "cleared"}
        /\ queue' \subseteq Directives
    BY <1>1 DEF Statuses
  <2> QED
    BY <2>1, <2>3, <2>4, <2>5, <2>6 DEF TypeOK, StoreOK, Places, Fins, Statuses
<1>3. Down' /\ Known' /\ Backed' /\ NoOrphanRow'
  BY <1>1 DEF Down, Known, Backed, NoOrphanRow
<1>4. EarnedByTasks'
  <2>1. Snapshot({}) = {} /\ 1..(1 - 1) = {}
    BY DEF Snapshot
  <2> QED
    BY <1>1, <2>1 DEF EarnedByTasks, Snapshot, Good
<1>5. EarnedInRecord'
  BY <1>1 DEF EarnedInRecord, SuccessIsComplete, Snapshot, Good
<1>6. Quiet'
  BY <1>1 DEF Quiet, Alive
<1> QED
  BY <1>2, <1>3, <1>4, <1>5, <1>6

LEMMA StutterInv == ASSUME IInv, UNCHANGED vars PROVE IInv'
<1>1. /\ UNCHANGED <<up, status, recSteps, recDirs, row, leftover, faults, replay, current>>
      /\ UNCHANGED <<pc, idx, snap, steps, fin, cold, killed, unwinding>>
      /\ UNCHANGED <<latest, flag, evt, queue, released, ran, settled, sent, tolerant, crashes>>
  BY DEF vars, record, store, task, engine, hist
<1>2. TypeOK'
  BY <1>1 DEF IInv, TypeOK
<1>3. Down' /\ Known' /\ Backed' /\ NoOrphanRow'
  BY <1>1 DEF IInv, Down, Known, Backed, Works, NoOrphanRow, Alive
<1>4. EarnedByTasks' /\ EarnedInRecord'
  BY <1>1 DEF IInv, EarnedByTasks, EarnedInRecord, SuccessIsComplete, Snapshot
<1>5. Quiet'
  BY <1>1 DEF IInv, Quiet, Still, Alive
<1> QED
  BY <1>2, <1>3, <1>4, <1>5 DEF IInv

-----------------------------------------------------------------------------
LEMMA TaskStepInv == ASSUME IInv, NEW t \in Tasks, TaskStep(t) PROVE IInv'
BY BeginInv, ParkInv, StopAtFlagInv, FinishInv, SkipInv, RunInv, AskInv, ApproveInv, RejectInv,
   AskTimesOutInv, NodeOkInv, NodeFailsInv, EngineEndInv, CloseInv, DeliverInv DEF TaskStep

LEMMA StepInv == ASSUME IInv, [Next]_vars PROVE IInv'
<1>1. ASSUME NEW t \in Tasks, Start(t) \/ TaskStep(t) \/ Relaunch(t) \/ Recover(t) PROVE IInv'
  BY <1>1, StartInv, TaskStepInv, RelaunchInv, RecoverInv
<1>2. CASE Cancel \/ Pause \/ Resume \/ Stall \/ Crash \/ Replay
  BY <1>2, CancelInv, PauseInv, ResumeInv, StallInv, CrashInv, ReplayInv
<1>3. ASSUME NEW d \in Directives, SendDirective(d) PROVE IInv'
  BY <1>3, SendDirectiveInv
<1>4. CASE Rest \/ UNCHANGED vars
  BY <1>4, StutterInv DEF Rest
<1> QED
  BY <1>1, <1>2, <1>3, <1>4 DEF Next

LEMMA Invariance == Spec => []IInv
BY InitInv, StepInv, PTL DEF Spec

(* Only the start of a node and the approval of a gate enter a node, and   *)
(* a gate is approved only where the node already asks.                    *)
LEMMA EnteringIsReleased ==
  ASSUME IInv, [Next]_vars, NEW t \in Tasks,
         pc[t] \notin {"run", "ask"}, pc'[t] \in {"run", "ask"}
  PROVE  released
<1>1. ASSUME NEW u \in Tasks, TaskStep(u) PROVE released
  <2>1. CASE Run(u) \/ Ask(u)
    BY <2>1, GoesReleased DEF Run, Ask
  <2>2. CASE Approve(u) \/ Reject(u) \/ AskTimesOut(u) \/ NodeOk(u) \/ NodeFails(u)
    <3>1. pc[u] \in {"run", "ask", "unheard"}
      BY <2>2 DEF Approve, Reject, AskTimesOut, NodeOk, NodeFails, Runs
    <3> QED
      BY <3>1, InNodeReleased
  <2>3. CASE Park(u) \/ StopAtFlag(u) \/ Finish(u) \/ Skip(u) \/ Close(u) \/ Deliver(u)
    BY <2>3 DEF Park, StopAtFlag, Finish, Skip, Close, Deliver, End, Advance, Move, IInv, TypeOK
  <2>4. CASE Begin(u) \/ EngineEnd(u)
    <3>1. \E p \in {"boundary", "ended", "closing"} :
             pc' = [pc EXCEPT ![u] = p] \/ pc' = [Forgotten EXCEPT ![u] = p]
      BY <2>4 DEF Begin, EngineEnd
    <3> QED
      BY <3>1, ForgottenFacts DEF IInv, TypeOK
  <2> QED
    BY <1>1, <2>1, <2>2, <2>3, <2>4 DEF TaskStep
<1>2. ASSUME NEW u \in Tasks, Start(u) \/ Relaunch(u) \/ Recover(u) PROVE released
  <2>1. pc' = [pc EXCEPT ![u] = "recall"] \/ pc' = pc
    BY <1>2 DEF Start, Relaunch, Recover, Launch
  <2> QED
    BY <2>1 DEF IInv, TypeOK
<1>3. CASE Cancel \/ Resume
  <2>1. SetEvent(None) \/ pc' = pc
    BY <1>3 DEF Cancel, Resume
  <2>2. None \notin Tasks
    BY RegistryAssumption
  <2> QED
    BY <2>1, <2>2, SetEventFacts DEF IInv
<1>4. CASE Pause \/ Stall \/ Crash \/ Replay \/ Rest \/ UNCHANGED vars
  <2>1. pc' = pc \/ pc'[t] = "none"
    BY <1>4 DEF Pause, Stall, Crash, Replay, Rest, vars, task
  <2> QED
    BY <2>1
<1>5. ASSUME NEW d \in Directives, SendDirective(d) PROVE released
  BY <1>5 DEF SendDirective, task
<1> QED
  BY <1>1, <1>2, <1>3, <1>4, <1>5 DEF Next

-----------------------------------------------------------------------------
(* Every variable keeps its type, for any number of overlapping tasks.     *)
THEOREM TypeCorrect == Spec => []TypeOK
BY Invariance, PTL DEF IInv

(* No zombie runs: a record that says running or paused has a task behind  *)
(* it, through cancels, trips, crashes and overlapping relaunches.         *)
THEOREM RecordsHaveTasks == Spec => []ActiveHasTask
<1>1. IInv => ActiveHasTask
  BY DEF IInv, Backed, ActiveHasTask, Works, Alive
<1> QED
  BY <1>1, Invariance, PTL

(* A run without a task has no row that the next start would bring back,   *)
(* unless the store failed to delete it or to load it.                     *)
THEOREM RowsHaveTasks == Spec => []NoOrphanRow
BY Invariance, PTL DEF IInv

(* A run that completed has had every node without continue_on_error end   *)
(* in success, in this session or in one whose snapshot a relaunch used;   *)
(* one that is called a success has no denied step.                        *)
THEOREM SuccessIsWhole == Spec => []SuccessIsComplete
<1>1. IInv => SuccessIsComplete
  BY DEF IInv, EarnedInRecord
<1> QED
  BY <1>1, Invariance, PTL

(* No node of a recovered run starts or asks before a user resumes it.     *)
THEOREM NothingAutoResumes == Spec => NeverAutoResumes
<1>1. IInv /\ [Next]_vars =>
        [\A t \in Tasks : pc[t] \notin {"run", "ask"} /\ pc'[t] \in {"run", "ask"}
                            => released]_vars
  BY EnteringIsReleased
<1> QED
  BY <1>1, Invariance, PTL DEF Spec, NeverAutoResumes
=============================================================================
