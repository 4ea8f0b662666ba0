----------------------------- MODULE DurableMap -----------------------------
(***************************************************************************)
(* What a configuration that is kept in memory and saved in one file owes  *)
(* its users: the file always holds a state that the memory really had,    *)
(* as a whole, and one that is not older than what the file held before.   *)
(* A process that cannot read the file starts with what it could read.     *)
(***************************************************************************)
CONSTANTS Keys, Values, None

VARIABLES
  mem,    \* key |-> its value in memory, or None
  disk,   \* key |-> its value in the file, or None
  recent  \* the states of the memory since the file was last written

vars == <<mem, disk, recent>>
Maps == [Keys -> Values \cup {None}]

Init == mem = [k \in Keys |-> None] /\ disk = mem /\ recent = {mem}

Change(m) == mem' = m /\ recent' = recent \cup {m} /\ UNCHANGED disk

\* One key gets a value or loses it, or all are lost.
Write ==
  \/ \E k \in Keys, v \in Values \cup {None} : Change([mem EXCEPT ![k] = v])
  \/ Change([k \in Keys |-> None])

Flush == disk' \in recent /\ recent' = {mem} /\ UNCHANGED mem

\* The process ends, and the next one reads the file, or the part of it that it can.
Restart ==
  /\ \E read \in SUBSET Keys : mem' = [k \in Keys |-> IF k \in read THEN disk[k] ELSE None]
  /\ recent' = {mem'} /\ UNCHANGED disk

Next == Write \/ Flush \/ Restart
Spec == Init /\ [][Next]_vars
=============================================================================
