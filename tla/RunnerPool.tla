----------------------------- MODULE RunnerPool -----------------------------
(***************************************************************************)
(* orchestrator/team_mailbox.py and orchestrator/runner_pool.py, with the  *)
(* dispatch and lifecycle routes of server/web_api.py: messages between    *)
(* agents in a SQLite mailbox, and the pool of the daemon that turns each  *)
(* message of a roster agent into a run and mails the result back.         *)
(*                                                                         *)
(* The pool's loop is an asyncio task.  SQLite is called in worker threads *)
(* (asyncio.to_thread), so a stop() that cancels the loop at such a call   *)
(* leaves the thread to finish on its own.  Dispatch itself is one step:   *)
(* _team_dispatch has no suspension, the run is accepted and the message   *)
(* marked in flight before anything else happens.                          *)
(***************************************************************************)
EXTENDS Integers, FiniteSets

CONSTANTS
  Agents,      \* agents the roster may hold
  Outsiders,   \* other senders and recipients
  MaxLoops,    \* slots for loop tasks; bounds how many exist at once
  MaxMsgs,     \* bounds the rows of the mailbox
  MaxSends,    \* bounds those that are no replies
  MaxRuns,     \* bounds the runs the registry accepts
  MaxTrouble,  \* bounds failed SQLite calls, refused dispatches and crashes
  Limit,       \* inbox(limit), 100 in the code
  Serial,      \* TRUE: start and stop requests do not overlap
  None

Ids     == 1..MaxMsgs
Runs    == 1..MaxRuns
Loops   == 1..MaxLoops
Parties == Agents \cup Outsiders

\* A row: who sent it to whom, and for a reply the run it answers.
Row == [from : Parties, to : Parties, re : Runs \cup {None}]

ASSUME PoolAssumption ==
  /\ MaxMsgs \in Nat /\ MaxSends \in Nat /\ MaxRuns \in Nat /\ MaxTrouble \in Nat
  /\ MaxLoops \in Nat /\ Limit \in Nat \ {0} /\ Serial \in BOOLEAN
  /\ None \notin Ids \cup Runs \cup Loops \cup Row

VARIABLES
  mail,       \* message id |-> its row of the mailbox, or None
  unread,     \* messages with acked_at = 0
  enabled,    \* the roster: agents with enabled = 1
  runOf,      \* run id |-> the message it was started for, or None
  status,     \* run id |-> its status in the registry
  running,    \* _running
  task,       \* _task: a loop, or None
  stopping,   \* loops some stop() awaits
  wake,       \* _wake_event
  inFlight,   \* _in_flight (keys)
  pending,    \* _pending_replies (keys)
  pc,         \* loop |-> where it is
  agents,     \* loop |-> roster rows of this tick still to serve
  batch,      \* loop |-> messages of the current agent still to dispatch
  asked,      \* loop |-> runs of this tick still to ask about
  cur,        \* loop |-> the run it acknowledges or answers, or None
  thread,     \* loop |-> its worker thread
  cancelled,  \* loops whose cancel() is not delivered yet
  errors,     \* history: failed calls so far
  crashes,    \* history: crashes so far
  born,       \* history: run |-> number of crashes before its dispatch
  pushed,     \* history: messages announced by a wake, their inbox not read since
  calm        \* history: no crash, stop, failed call or full mailbox so far

box      == <<mail, unread>>
registry == <<runOf, status, born>>
pool     == <<running, task, stopping>>
memory   == <<inFlight, pending>>
tick     == <<agents, batch, asked>>
trouble  == <<errors, calm>>
vars == <<box, enabled, registry, pool, wake, memory, pc, tick, cur, thread,
          cancelled, trouble, crashes, pushed>>

BoxOK == mail \in [Ids -> Row \cup {None}] /\ unread \subseteq Ids

RegistryOK ==
  /\ runOf \in [Runs -> Ids \cup {None}] /\ born \in [Runs -> 0..MaxTrouble]
  /\ status \in [Runs -> {"none", "running", "success", "failed", "gone"}]

PoolOK ==
  /\ enabled \subseteq Agents /\ wake \in BOOLEAN /\ running \in BOOLEAN
  /\ task \in Loops \cup {None} /\ stopping \subseteq Loops /\ cancelled \subseteq Loops
  /\ inFlight \subseteq Ids /\ pending \subseteq Runs

LoopOK ==
  /\ pc \in [Loops -> {"off", "top", "roster", "agents", "ack", "collect", "reply", "wait"}]
  /\ thread \in [Loops -> {"idle", "ack", "send", "ok", "error"}]
  /\ cur \in [Loops -> Runs \cup {None}]

TickOK ==
  /\ agents \in [Loops -> SUBSET Agents] /\ batch \in [Loops -> SUBSET Ids]
  /\ asked \in [Loops -> SUBSET Runs]

BudgetOK == errors \in 0..MaxTrouble /\ crashes \in 0..MaxTrouble
HistoryOK == pushed \subseteq Ids /\ calm \in BOOLEAN

TypeOK == BoxOK /\ RegistryOK /\ PoolOK /\ LoopOK /\ TickOK /\ BudgetOK /\ HistoryOK

Init ==
  /\ mail = [m \in Ids |-> None] /\ unread = {} /\ enabled = {}
  /\ runOf = [r \in Runs |-> None] /\ status = [r \in Runs |-> "none"]
  /\ born = [r \in Runs |-> 0]
  /\ running = FALSE /\ task = None /\ stopping = {} /\ wake = FALSE
  /\ inFlight = {} /\ pending = {}
  /\ pc = [l \in Loops |-> "off"] /\ agents = [l \in Loops |-> {}]
  /\ batch = [l \in Loops |-> {}] /\ asked = [l \in Loops |-> {}]
  /\ cur = [l \in Loops |-> None] /\ thread = [l \in Loops |-> "idle"]
  /\ cancelled = {} /\ errors = 0 /\ crashes = 0 /\ pushed = {} /\ calm = TRUE

First(x, S) == x \in S /\ \A y \in S : x <= y
FreeIds     == {m \in Ids : mail[m] = None}
FreeRuns    == {r \in Runs : runOf[r] = None}

\* The oldest rows, as many as one read returns.
Oldest(S) == {m \in S : Cardinality({k \in S : k < m}) < Limit}
Asks      == {m \in Ids : mail[m] # None /\ mail[m].re = None}
Inbox(a)  == {m \in unread : mail[m].to = a}

\* TeamMailbox.send: the row.
Insert(m, from, to, re) ==
  /\ mail' = [mail EXCEPT ![m] = [from |-> from, to |-> to, re |-> re]]
  /\ unread' = unread \cup {m}

\* A call that may fail works, or fails.
Works == UNCHANGED trouble
Fails == errors + crashes < MaxTrouble /\ errors' = errors + 1 /\ calm' = FALSE

-----------------------------------------------------------------------------
(* Users, peers and the registry.                                          *)

\* A send in this process calls the pool's hook; the CLI and peers do not.
\* Mail to parties outside the roster concerns no pool; only replies go there.
Send(m, from, to, here) ==
  /\ First(m, FreeIds) /\ Cardinality(Asks) < MaxSends
  /\ Insert(m, from, to, None)
  /\ wake' = (wake \/ here)
  /\ pushed' = IF here THEN pushed \cup {m} ELSE pushed
  /\ UNCHANGED <<enabled, registry, pool, memory, pc, tick, cur, thread, cancelled,
                 trouble, crashes>>

\* POST /api/team/notify.
Notify ==
  /\ wake' = TRUE /\ pushed' = unread
  /\ UNCHANGED <<box, enabled, registry, pool, memory, pc, tick, cur, thread, cancelled,
                 trouble, crashes>>

\* The route wakes the pool, the CLI writes the same row and does not.
Register(a, here) ==
  /\ enabled' = enabled \cup {a}
  /\ wake' = (wake \/ here)
  /\ pushed' = IF here THEN pushed \cup Inbox(a) ELSE pushed
  /\ UNCHANGED <<box, registry, pool, memory, pc, tick, cur, thread, cancelled,
                 trouble, crashes>>

Remove(a) ==
  /\ enabled' = enabled \ {a}
  /\ UNCHANGED <<box, registry, pool, wake, memory, pc, tick, cur, thread, cancelled,
                 trouble, crashes, pushed>>

RunEnds(r, s) ==
  /\ status[r] = "running" /\ status' = [status EXCEPT ![r] = s]
  /\ UNCHANGED <<box, enabled, runOf, born, pool, wake, memory, pc, tick, cur, thread,
                 cancelled, trouble, crashes, pushed>>

\* RunRegistry._gc drops finished records after an hour, far longer than a
\* tick: only while the pool is stopped can that happen before it asked (of the
\* runs it no longer asks about the model keeps the status).
Forget(r) ==
  /\ ~running /\ status[r] \in {"success", "failed"} /\ r \in pending
  /\ status' = [status EXCEPT ![r] = "gone"]
  /\ UNCHANGED <<box, enabled, runOf, born, pool, wake, memory, pc, tick, cur, thread,
                 cancelled, trouble, crashes, pushed>>

-----------------------------------------------------------------------------
(* RunnerPool.start and stop.                                              *)

Start(l) ==
  /\ ~running /\ (Serial => stopping = {})
  /\ First(l, {k \in Loops : pc[k] = "off" /\ k \notin stopping /\ thread[k] \notin {"ack", "send"}})
  /\ running' = TRUE /\ task' = l
  /\ pc' = [pc EXCEPT ![l] = "top"]
  /\ thread' = [thread EXCEPT ![l] = "idle"] /\ cur' = [cur EXCEPT ![l] = None]
  /\ UNCHANGED <<box, enabled, registry, stopping, wake, memory, tick, cancelled,
                 trouble, crashes, pushed>>

Stop ==
  /\ running \/ task # None
  /\ Serial => stopping = {}
  /\ running' = FALSE /\ calm' = FALSE
  /\ stopping' = IF task = None THEN stopping ELSE stopping \cup {task}
  /\ cancelled' = IF task # None /\ pc[task] # "off" THEN cancelled \cup {task} ELSE cancelled
  /\ UNCHANGED <<box, enabled, registry, task, wake, memory, pc, tick, cur, thread,
                 errors, crashes, pushed>>

\* stop() after its await: it forgets whatever task there is by now.
StopDone(l) ==
  /\ l \in stopping /\ pc[l] = "off"
  /\ stopping' = stopping \ {l} /\ task' = None
  /\ UNCHANGED <<box, enabled, registry, running, wake, memory, pc, tick, cur, thread,
                 cancelled, trouble, crashes, pushed>>

\* The loop takes CancelledError at its await and ends.
Cancelled(l) ==
  /\ l \in cancelled
  /\ cancelled' = cancelled \ {l} /\ pc' = [pc EXCEPT ![l] = "off"]
  /\ agents' = [agents EXCEPT ![l] = {}] /\ batch' = [batch EXCEPT ![l] = {}]
  /\ asked' = [asked EXCEPT ![l] = {}]
  /\ UNCHANGED <<box, enabled, registry, pool, wake, memory, cur, thread, trouble,
                 crashes, pushed>>

-----------------------------------------------------------------------------
(* RunnerPool._loop and tick.                                              *)

At(l, place) == pc[l] = place /\ l \notin cancelled
To(l, place) == pc' = [pc EXCEPT ![l] = place]

\* mutant: an exception ends the loop
mut_GiveUp(l) ==
  /\ To(l, "off") /\ pushed' = {}
  /\ agents' = [agents EXCEPT ![l] = {}] /\ batch' = [batch EXCEPT ![l] = {}]
  /\ UNCHANGED asked

\* An exception leaves the tick; the next one starts after a wake or a poll.
GiveUp(l) ==
  /\ To(l, "wait") /\ pushed' = {}
  /\ agents' = [agents EXCEPT ![l] = {}] /\ batch' = [batch EXCEPT ![l] = {}]
  /\ UNCHANGED asked

\* The wait ends with the event, at once if it is set, or with the poll interval.
LoopTop(l) ==
  /\ At(l, "top") \/ At(l, "wait")
  /\ \/ running /\ wake' = FALSE /\ To(l, "roster")
     \/ ~running /\ To(l, "off") /\ UNCHANGED wake
  /\ UNCHANGED <<box, enabled, registry, pool, memory, tick, cur, thread, cancelled,
                 trouble, crashes, pushed>>

\* Agents that are not enabled now are not served in this tick.
ReadRoster(l) ==
  /\ At(l, "roster")
  /\ \/ /\ Works /\ To(l, "agents")
        /\ agents' = [agents EXCEPT ![l] = enabled]
        /\ pushed' = {m \in pushed : mail[m].to \in enabled}
        /\ UNCHANGED <<batch, asked>>
     \/ Fails /\ GiveUp(l)
  /\ UNCHANGED <<box, enabled, registry, pool, wake, memory, cur, thread, cancelled,
                 crashes>>

ReadInbox(l, a) ==
  /\ At(l, "agents") /\ batch[l] = {} /\ a \in agents[l]
  /\ agents' = [agents EXCEPT ![l] = @ \ {a}]
  /\ pushed' = {m \in pushed : mail[m].to # a}
  /\ \/ Works /\ batch' = [batch EXCEPT ![l] = Oldest(Inbox(a))]
     \/ Fails /\ UNCHANGED batch
  /\ UNCHANGED <<box, enabled, registry, pool, wake, memory, pc, asked, cur, thread,
                 cancelled, crashes>>

\* _dispatch_one skips a message in flight.
Skip(l, m) ==
  /\ At(l, "agents") /\ First(m, batch[l]) /\ m \in inFlight
  /\ batch' = [batch EXCEPT ![l] = @ \ {m}]
  /\ UNCHANGED <<box, enabled, registry, pool, wake, memory, pc, agents, asked, cur,
                 thread, cancelled, trouble, crashes, pushed>>

\* mutant: acknowledged before it is dispatched
mut_Refuse(l, m) ==
  /\ At(l, "agents") /\ First(m, batch[l]) /\ m \notin inFlight
  /\ Fails \/ (FreeRuns = {} /\ Works)
  /\ batch' = [batch EXCEPT ![l] = @ \ {m}] /\ unread' = unread \ {m}
  /\ UNCHANGED <<mail, enabled, registry, pool, wake, memory, pc, agents, asked, cur,
                 thread, cancelled, crashes, pushed>>

\* Its workflow is missing or the registry raised: no ack.
Refuse(l, m) ==
  /\ At(l, "agents") /\ First(m, batch[l]) /\ m \notin inFlight
  /\ Fails \/ (FreeRuns = {} /\ Works)
  /\ batch' = [batch EXCEPT ![l] = @ \ {m}]
  /\ UNCHANGED <<box, enabled, registry, pool, wake, memory, pc, agents, asked, cur,
                 thread, cancelled, crashes, pushed>>

\* mutant: not marked as in flight
mut_Dispatch(l, m, r) ==
  /\ At(l, "agents") /\ First(m, batch[l]) /\ m \notin inFlight /\ First(r, FreeRuns)
  /\ batch' = [batch EXCEPT ![l] = @ \ {m}]
  /\ runOf' = [runOf EXCEPT ![r] = m] /\ status' = [status EXCEPT ![r] = "running"]
  /\ born' = [born EXCEPT ![r] = crashes]
  /\ cur' = [cur EXCEPT ![l] = r] /\ thread' = [thread EXCEPT ![l] = "ack"]
  /\ To(l, "ack")
  /\ UNCHANGED <<box, enabled, pool, wake, memory, agents, asked, cancelled, trouble,
                 crashes, pushed>>

\* The registry has the run; the ack goes to a thread.
Dispatch(l, m, r) ==
  /\ At(l, "agents") /\ First(m, batch[l]) /\ m \notin inFlight /\ First(r, FreeRuns)
  /\ batch' = [batch EXCEPT ![l] = @ \ {m}]
  /\ runOf' = [runOf EXCEPT ![r] = m] /\ status' = [status EXCEPT ![r] = "running"]
  /\ born' = [born EXCEPT ![r] = crashes]
  /\ inFlight' = inFlight \cup {m}
  /\ cur' = [cur EXCEPT ![l] = r] /\ thread' = [thread EXCEPT ![l] = "ack"]
  /\ To(l, "ack")
  /\ UNCHANGED <<box, enabled, pool, wake, pending, agents, asked, cancelled, trouble,
                 crashes, pushed>>

AckThread(l) ==
  /\ thread[l] = "ack"
  /\ \/ /\ Works /\ thread' = [thread EXCEPT ![l] = "ok"]
        /\ unread' = unread \ {runOf[cur[l]]}
     \/ Fails /\ thread' = [thread EXCEPT ![l] = "error"] /\ UNCHANGED unread
  /\ UNCHANGED <<mail, enabled, registry, pool, wake, memory, pc, tick, cur, cancelled,
                 crashes, pushed>>

\* Every message has a sender, so every acknowledged one is owed a reply.
Acked(l) ==
  /\ At(l, "ack")
  /\ \/ /\ thread[l] = "ok" /\ pending' = pending \cup {cur[l]} /\ To(l, "agents")
        /\ UNCHANGED <<tick, pushed>>
     \/ thread[l] = "error" /\ GiveUp(l) /\ UNCHANGED pending
  /\ thread' = [thread EXCEPT ![l] = "idle"] /\ cur' = [cur EXCEPT ![l] = None]
  /\ UNCHANGED <<box, enabled, registry, pool, wake, inFlight, cancelled, trouble, crashes>>

\* The runs left to ask about; the tick is over when there is none.
AskAbout(l, rs) ==
  /\ asked' = [asked EXCEPT ![l] = rs]
  /\ To(l, IF rs = {} THEN "wait" ELSE "collect")

\* mutant: the event is cleared after the messages are read
mut_StartCollect(l) ==
  /\ At(l, "agents") /\ batch[l] = {} /\ agents[l] = {}
  /\ AskAbout(l, pending) /\ wake' = FALSE
  /\ UNCHANGED <<box, enabled, registry, pool, memory, agents, batch, cur, thread,
                 cancelled, trouble, crashes, pushed>>

StartCollect(l) ==
  /\ At(l, "agents") /\ batch[l] = {} /\ agents[l] = {}
  /\ AskAbout(l, pending)
  /\ UNCHANGED <<box, enabled, registry, pool, wake, memory, agents, batch, cur, thread,
                 cancelled, trouble, crashes, pushed>>

\* mutant: the owed reply is not struck out
mut_Collect(l, r) ==
  /\ At(l, "collect") /\ First(r, asked[l])
  /\ \/ /\ status[r] \in {"running", "gone", "failed"}
        /\ AskAbout(l, asked[l] \ {r}) /\ UNCHANGED <<memory, cur, thread>>
     \/ /\ status[r] = "success" /\ To(l, "reply")
        /\ inFlight' = inFlight \ {runOf[r]} /\ UNCHANGED pending
        /\ asked' = [asked EXCEPT ![l] = @ \ {r}]
        /\ cur' = [cur EXCEPT ![l] = r] /\ thread' = [thread EXCEPT ![l] = "send"]
  /\ UNCHANGED <<box, enabled, registry, pool, wake, agents, batch, cancelled, trouble,
                 crashes, pushed>>

\* mutant: struck out before its status is looked at
mut_CollectEarly(l, r) ==
  /\ At(l, "collect") /\ First(r, asked[l])
  /\ pending' = pending \ {r}
  /\ \/ /\ status[r] # "success"
        /\ AskAbout(l, asked[l] \ {r}) /\ UNCHANGED <<inFlight, cur, thread>>
     \/ /\ status[r] = "success" /\ To(l, "reply")
        /\ inFlight' = inFlight \ {runOf[r]}
        /\ asked' = [asked EXCEPT ![l] = @ \ {r}]
        /\ cur' = [cur EXCEPT ![l] = r] /\ thread' = [thread EXCEPT ![l] = "send"]
  /\ UNCHANGED <<box, enabled, registry, pool, wake, agents, batch, cancelled, trouble,
                 crashes, pushed>>

\* A finished run is forgotten before its reply is sent.
Collect(l, r) ==
  /\ At(l, "collect") /\ First(r, asked[l])
  /\ \/ /\ status[r] \in {"running", "gone"}
        /\ AskAbout(l, asked[l] \ {r}) /\ UNCHANGED <<memory, cur, thread>>
     \/ /\ status[r] \in {"success", "failed"}
        /\ inFlight' = inFlight \ {runOf[r]} /\ pending' = pending \ {r}
        /\ \/ /\ status[r] = "failed"
              /\ AskAbout(l, asked[l] \ {r}) /\ UNCHANGED <<cur, thread>>
           \/ /\ status[r] = "success" /\ To(l, "reply")
              /\ asked' = [asked EXCEPT ![l] = @ \ {r}]
              /\ cur' = [cur EXCEPT ![l] = r] /\ thread' = [thread EXCEPT ![l] = "send"]
  /\ UNCHANGED <<box, enabled, registry, pool, wake, agents, batch, cancelled, trouble,
                 crashes, pushed>>

\* The reply is mail like any other; the hook wakes the pool.
SendThread(l) ==
  /\ thread[l] = "send"
  /\ \/ /\ Works /\ thread' = [thread EXCEPT ![l] = "ok"]
        /\ \E m \in Ids :
             LET asking == mail[runOf[cur[l]]] IN
             /\ First(m, FreeIds) /\ Insert(m, asking.to, asking.from, cur[l])
             /\ pushed' = pushed \cup {m}
        /\ wake' = TRUE
     \/ /\ Fails \/ (FreeIds = {} /\ calm' = FALSE /\ UNCHANGED errors)
        /\ thread' = [thread EXCEPT ![l] = "error"] /\ UNCHANGED <<box, wake, pushed>>
  /\ UNCHANGED <<enabled, registry, pool, memory, pc, tick, cur, cancelled, crashes>>

Replied(l) ==
  /\ At(l, "reply") /\ thread[l] \in {"ok", "error"} /\ AskAbout(l, asked[l])
  /\ thread' = [thread EXCEPT ![l] = "idle"] /\ cur' = [cur EXCEPT ![l] = None]
  /\ UNCHANGED <<box, enabled, registry, pool, wake, memory, agents, batch, cancelled,
                 trouble, crashes, pushed>>

\* The daemon dies with everything in memory; the registry recovers its runs.
Crash ==
  /\ errors + crashes < MaxTrouble /\ crashes' = crashes + 1
  /\ running' = FALSE /\ task' = None /\ stopping' = {} /\ wake' = FALSE
  /\ inFlight' = {} /\ pending' = {}
  /\ pc' = [l \in Loops |-> "off"] /\ agents' = [l \in Loops |-> {}]
  /\ batch' = [l \in Loops |-> {}] /\ asked' = [l \in Loops |-> {}]
  /\ cur' = [l \in Loops |-> None] /\ thread' = [l \in Loops |-> "idle"]
  /\ cancelled' = {} /\ pushed' = {} /\ calm' = FALSE
  /\ UNCHANGED <<box, enabled, registry, errors>>

-----------------------------------------------------------------------------
LoopStep(l) ==
  \/ LoopTop(l) \/ ReadRoster(l) \/ Acked(l) \/ StartCollect(l) \/ Replied(l)
  \/ Cancelled(l) \/ AckThread(l) \/ SendThread(l) \/ StopDone(l)
  \/ \E a \in Agents : ReadInbox(l, a)
  \/ \E m \in Ids : Skip(l, m) \/ Refuse(l, m)
  \/ \E m \in Ids, r \in Runs : Dispatch(l, m, r)
  \/ \E r \in Runs : Collect(l, r)

Outside ==
  \/ \E m \in Ids, from \in Parties, to \in Agents, here \in BOOLEAN : Send(m, from, to, here)
  \/ \E a \in Agents, here \in BOOLEAN : Register(a, here)
  \/ \E a \in Agents : Remove(a)
  \/ \E r \in Runs, s \in {"success", "failed"} : RunEnds(r, s)
  \/ \E r \in Runs : Forget(r)
  \/ Notify \/ Stop \/ Crash
  \/ \E l \in Loops : Start(l)

Next == Outside \/ \E l \in Loops : LoopStep(l)

\* The event loop runs every ready coroutine, worker threads finish, and the
\* wait ends with the poll interval.  Nothing is assumed of users and runs.
\* The steps of one slot are fair as one action: they follow one another.
Fairness == \A l \in Loops : WF_vars(LoopStep(l))

Spec     == Init /\ [][Next]_vars
FairSpec == Spec /\ Fairness

-----------------------------------------------------------------------------
(* Properties.                                                             *)

Live(l) == pc[l] # "off" /\ l \notin cancelled

\* At-least-once (team_mailbox.py:5): a message that is in the mailbox is
\* unread, or a run was accepted for it, whatever fails, stops or crashes
\* between dispatch and ack.
AtLeastOnce ==
  \A m \in Ids : mail[m] # None => m \in unread \/ \E r \in Runs : runOf[r] = m

\* docs/team-messaging.md:72, "No double dispatch inside one process": two runs
\* for one message were accepted in two lives of the daemon.
NoDoubleDispatch ==
  \A r, s \in Runs : r # s /\ runOf[r] # None /\ runOf[r] = runOf[s] => born[r] # born[s]

\* A run is answered at most once, only after it ended in success, and by a
\* message from the agent that received the question to the party that asked.
OneReply ==
  \A m \in Ids : mail[m] # None /\ mail[m].re # None =>
    LET r == mail[m].re IN
    /\ status[r] = "success"
    /\ mail[m].from = mail[runOf[r]].to /\ mail[m].to = mail[runOf[r]].from
    /\ \A k \in Ids : mail[k] # None /\ mail[k].re = r => k = m

\* The comment in _loop (runner_pool.py:95): no wake is swallowed.  While the
\* loop lives, an announced message of a roster agent is ahead of the loop in
\* this tick, or the event is set and the next wait returns at once.
WakeNotLost ==
  (\E l \in Loops : Live(l)) =>
    \A m \in pushed : mail[m].to \in enabled =>
      \/ wake
      \/ \E l \in Loops : Live(l) /\ \/ pc[l] \in {"top", "roster"}
                                     \/ pc[l] = "agents" /\ mail[m].to \in agents[l]
                                     \/ pc[l] = "ack" /\ mail[m].to \in agents[l]

\* docs/team-messaging.md:67: without a crash, a stop or a failed call the reply
\* to a run that ended in success is mailed, or on its way: the ack has not
\* returned, the run is pending, or the reply is being sent.
ReplyOwed ==
  calm => \A r \in Runs : status[r] = "success" =>
    \/ r \in pending
    \/ \E l \in Loops : cur[l] = r /\ pc[l] \in {"ack", "reply"}
    \/ \E m \in Ids : mail[m] # None /\ mail[m].re = r

Consumed(m) == mail[m] # None /\ mail[m].to \in enabled

\* A message whose ack failed keeps its place in the inbox and in flight.
Stuck(k) ==
  /\ k \in unread \cap inFlight
  /\ \A l \in Loops : thread[l] = "ack" => runOf[cur[l]] # k

\* As many of them before m as one read returns: m is not read any more.
Crowded(m) == Cardinality({k \in Inbox(mail[m].to) : k < m /\ Stuck(k)}) >= Limit

\* While the pool runs and its agent stays in the roster, a message gets its
\* run: failed calls are retried, nobody waits for a wake that does not come,
\* and messages in flight hold up the others only when they fill a whole read
\* of the inbox (runner_pool.py:131, 146).
Delivered ==
  \A m \in Ids :
    (m \in unread /\ running /\ Consumed(m))
      ~> \/ \E r \in Runs : runOf[r] = m
         \/ ~running \/ ~Consumed(m) \/ FreeRuns = {} \/ Crowded(m)
=============================================================================
