---------------------------- MODULE ConfigCenter ----------------------------
(***************************************************************************)
(* config_center.py: the settings of a process.  Threads change them in    *)
(* memory (_store), and every change but reset(key) saves all of them: a   *)
(* snapshot goes to a temporary file that replaces the old file, both      *)
(* under the lock that set and delete take.  reset changes the memory      *)
(* without the lock.  A process may end at any point; the next one reads   *)
(* the file, or the part of it that it can read, and starts all the same:  *)
(* its first save replaces the file by what it has.  Processes that share  *)
(* the file are not modelled.                                              *)
(***************************************************************************)
CONSTANTS
  Keys, Values,
  Threads,  \* the threads of a process that change settings, one call at a time
  None

ASSUME ConfigAssumption == None \notin Keys \cup Values \cup Threads

VARIABLES
  store,    \* key |-> the value of its entry in _store, or None
  file,     \* key |-> the value saved for it, or None
  pc,       \* thread |-> where its call is
  key,      \* thread |-> the key its call is about, None for all of them
  lock,     \* the thread that holds _lock while it saves, or None
  snap,     \* thread |-> what it is saving
  recent,   \* history: the contents of _store since the file was last written
  last,     \* history: key |-> the thread whose call changed it last, or None
  acked,    \* history: the keys whose last change was saved and has returned
  told,     \* history: key |-> the value of that change
  unsaved,  \* history: a save failed, reset(key) changed something, or the load
            \* left something out, and no later save has begun
  unloaded    \* history: the keys in the file that the load of this process left out,
            \* until they are changed or the file is replaced

ConfigVars ==
  <<store, file, pc, key, lock, snap, recent, last, acked, told, unsaved, unloaded>>

Maps  == [Keys -> Values \cup {None}]
Empty == [k \in Keys |-> None]

ConfigTypeOK ==
  /\ store \in Maps /\ file \in Maps /\ snap \in [Threads -> Maps] /\ told \in Maps
  /\ pc \in [Threads -> {"idle", "notify", "notify only", "save", "replace"}]
  /\ key \in [Threads -> Keys \cup {None}] /\ lock \in Threads \cup {None}
  /\ recent \subseteq Maps /\ last \in [Keys -> Threads \cup {None}]
  /\ acked \subseteq Keys /\ unloaded \subseteq Keys /\ unsaved \in BOOLEAN

ConfigInit ==
  /\ store = Empty /\ file = Empty /\ snap = [c \in Threads |-> Empty]
  /\ pc = [c \in Threads |-> "idle"] /\ key = [c \in Threads |-> None] /\ lock = None
  /\ recent = {Empty} /\ last = [k \in Keys |-> None] /\ acked = {} /\ told = Empty
  /\ unsaved = FALSE /\ unloaded = {}

-----------------------------------------------------------------------------
\* The memory becomes m, by a call of thread c about the keys K.
Change(c, K, m) ==
  /\ store' = m /\ recent' = recent \cup {m}
  /\ last' = [k \in Keys |-> IF k \in K THEN c ELSE last[k]]
  /\ acked' = acked \ K /\ unloaded' = unloaded \ K
  /\ told' = [k \in Keys |-> IF k \in K THEN None ELSE told[k]]
  /\ UNCHANGED <<file, snap>>

Call(c, where, k) ==
  /\ pc[c] = "idle"
  /\ pc' = [pc EXCEPT ![c] = where] /\ key' = [key EXCEPT ![c] = k]

\* Mutant: a deletion is not saved.
mut_Set(c, k, v) ==
  /\ lock = None /\ (v = None => store[k] # None)
  /\ Call(c, IF v = None THEN "notify only" ELSE "notify", k)
  /\ Change(c, {k}, [store EXCEPT ![k] = v])
  /\ UNCHANGED <<lock, unsaved>>

\* set, and delete with v = None; while a save holds the lock they wait.
Set(c, k, v) ==
  /\ lock = None /\ (v = None => store[k] # None)
  /\ Call(c, "notify", k) /\ Change(c, {k}, [store EXCEPT ![k] = v])
  /\ UNCHANGED <<lock, unsaved>>

\* reset of one key: neither the lock nor a save.
ResetKey(c, k) ==
  /\ store[k] # None
  /\ Call(c, "notify only", k) /\ Change(None, {k}, [store EXCEPT ![k] = None])
  /\ unsaved' = TRUE /\ UNCHANGED lock

\* reset of everything: without the lock, nobody is notified.
ResetAll(c) ==
  /\ Call(c, "save", None) /\ Change(c, Keys, Empty)
  /\ UNCHANGED <<lock, unsaved>>

\* The keys whose last change is that of the call of thread c.
Mine(c) == {k \in Keys : last[k] = c /\ key[c] \in {k, None}}

\* The call of thread c is over.
Done(c) ==
  /\ pc' = [pc EXCEPT ![c] = "idle"] /\ key' = [key EXCEPT ![c] = None]
  /\ lock' = IF lock = c THEN None ELSE lock
  /\ snap' = [snap EXCEPT ![c] = Empty]
  /\ last' = [k \in Keys |-> IF last[k] = c THEN None ELSE last[k]]

\* _notify_observers, outside the lock.
Notify(c) ==
  /\ pc[c] \in {"notify", "notify only"}
  /\ IF pc[c] = "notify" THEN pc' = [pc EXCEPT ![c] = "save"] /\ UNCHANGED <<key, lock, snap, last>>
                         ELSE Done(c)
  /\ UNCHANGED <<store, file, recent, acked, told, unsaved, unloaded>>

\* Mutant: the lock is not held until the file is replaced.
mut_Snapshot(c) ==
  /\ pc[c] = "save" /\ lock = None
  /\ pc' = [pc EXCEPT ![c] = "replace"]
  /\ snap' = [snap EXCEPT ![c] = store] /\ unsaved' = FALSE
  /\ UNCHANGED <<store, file, key, lock, recent, last, acked, told, unloaded>>

Snapshot(c) ==
  /\ pc[c] = "save" /\ lock = None
  /\ pc' = [pc EXCEPT ![c] = "replace"] /\ lock' = c
  /\ snap' = [snap EXCEPT ![c] = store] /\ unsaved' = FALSE
  /\ UNCHANGED <<store, file, key, recent, last, acked, told, unloaded>>

\* Mutant: a call saves its own key.
mut_Replace(c) ==
  /\ pc[c] = "replace" /\ Done(c)
  /\ file' = [k \in Keys |-> IF key[c] \in {k, None} THEN snap[c][k] ELSE file[k]]
  /\ recent' = {store}
  /\ acked' = (acked \ unloaded) \cup Mine(c) /\ unloaded' = {}
  /\ told' = [k \in Keys |-> IF k \in Mine(c) THEN store[k] ELSE told[k]]
  /\ UNCHANGED <<store, unsaved>>

\* The temporary file replaces the old one, and the call returns.  What the process
\* could not read of the old file is gone with it.
Replace(c) ==
  /\ pc[c] = "replace" /\ Done(c)
  /\ file' = snap[c] /\ recent' = {store}
  /\ acked' = (acked \ unloaded) \cup Mine(c) /\ unloaded' = {}
  /\ told' = [k \in Keys |-> IF k \in Mine(c) THEN store[k] ELSE told[k]]
  /\ UNCHANGED <<store, unsaved>>

\* The save fails; that is logged, and the call returns.
Fail(c) ==
  /\ pc[c] \in {"save", "replace"} /\ Done(c) /\ unsaved' = TRUE
  /\ UNCHANGED <<store, file, recent, acked, told, unloaded>>

Saved == {k \in Keys : file[k] # None}

\* The process ends; the next one loads the file.  A load that fails is logged, and
\* what it had read so far stays (_load_silent).
Restart ==
  /\ \E read \in SUBSET Saved :
       /\ store' = [k \in Keys |-> IF k \in read THEN file[k] ELSE None]
       /\ unloaded' = Saved \ read /\ unsaved' = (read # Saved)
  /\ recent' = {store'} /\ lock' = None
  /\ pc' = [c \in Threads |-> "idle"] /\ key' = [c \in Threads |-> None]
  /\ snap' = [c \in Threads |-> Empty] /\ last' = [k \in Keys |-> None]
  /\ UNCHANGED <<file, acked, told>>

ConfigNext ==
  \/ \E c \in Threads, k \in Keys :
       ResetKey(c, k) \/ \E v \in Values \cup {None} : Set(c, k, v)
  \/ \E c \in Threads : ResetAll(c) \/ Notify(c) \/ Snapshot(c) \/ Replace(c) \/ Fail(c)
  \/ Restart

ConfigSpec == ConfigInit /\ [][ConfigNext]_ConfigVars

-----------------------------------------------------------------------------
\* What was changed and saved survives: when the last change of a key has returned
\* and its save did not fail, the file holds it, whatever else is being saved and
\* wherever a process ends.  A key is given up only when a process that could not load
\* it replaces the file.
AckedOnDisk == \A k \in acked : file[k] = told[k]

\* When no call is under way, the file is the memory, unless since the last save a save
\* failed, a key was reset, or the process loaded only a part of the file.
DiskFollowsStore == (\A c \in Threads : pc[c] = "idle") /\ ~unsaved => file = store

\* The file only ever holds a whole state of the memory of the process that wrote it,
\* and never goes back to one that is older than what it held.
Durable == INSTANCE DurableMap WITH mem <- store, disk <- file
WholeAndForward == Durable!Spec
=============================================================================
