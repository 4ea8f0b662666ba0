----------------------------- MODULE SpaceStore -----------------------------
(***************************************************************************)
(* space/store.py, space/artifact.py, space/member.py and the revisions of *)
(* space/api.py: one space, its members, one of its artifacts, and calls   *)
(* that change them at the same time.                                      *)
(*                                                                         *)
(* A call checks what it may do, opens a write transaction, reads what it  *)
(* is about, writes and commits.  In SQLite one lock serves all            *)
(* transactions and reads share the connection without it; in PostgreSQL a *)
(* transaction and every single read take a connection from the pool, and  *)
(* transactions run side by side (READ COMMITTED).  A call may be          *)
(* cancelled or fail wherever it waits: inside its transaction it is       *)
(* rolled back, and between the lock and the BEGIN nobody gives the lock   *)
(* or the connection back.  A failing commit and the deletion of the space *)
(* are not modelled.                                                       *)
(***************************************************************************)
EXTENDS Integers, FiniteSets

CONSTANTS
  Users, Founder,  \* the founder created the space
  MaxCalls,        \* bounds the calls
  MaxOpen,         \* bounds the calls under way at once
  PoolSize,        \* connections of the pool, 10 in the code
  MaxMembers,      \* max_members of the space, 20 unless configured
  Given,           \* the roles that invitations and additions give
  MaxUses          \* max_uses of its invitation

ASSUME SpaceAssumption ==
  /\ Founder \in Users /\ IsFiniteSet(Users)
  /\ MaxCalls \in Nat /\ MaxOpen \in Nat /\ PoolSize \in Nat \ {0}
  /\ MaxMembers \in Nat \ {0} /\ Given \subseteq {"owner", "admin", "member"} /\ MaxUses \in Nat

Calls    == 1..MaxCalls
Roles    == {"owner", "admin", "member"}
Editing  == {"edit", "revise"}
Kinds    == Editing \cup {"share", "review", "transfer", "delete", "join", "use", "add", "remove",
                          "set role", "hand over", "make owner"}
Artifact == [there : BOOLEAN, owner : Users, version : Nat, codes : SUBSET Calls,
             review : 0..MaxCalls]

VARIABLES
  backend,  \* "sqlite" or "postgres"
  role,     \* user |-> its role in space_members, or "none"
  art,      \* the artifact's row: codes and review are its metadata, the calls
            \* whose share codes and whose verdict it holds
  uses,     \* uses of the invitation
  pc,       \* call |-> where it is
  op,       \* call |-> what it does, for whom and to whom
  held,     \* the calls that hold the lock or a connection, in a transaction or for good
  row,      \* call |-> the artifact as its transaction read it
  count,    \* call |-> the members it counted
  base,     \* call |-> the version whose content a revision starts from
  won,      \* history: call |-> the version its caller was told, 0 for none
  handed,   \* history: share codes told since the metadata was replaced last
  verdict,  \* history: the last review told since then, 0 for none
  stale,    \* history: revisions that replaced what they were not made from
  late      \* history: members added when the space was full

told == <<won, handed, verdict, stale>>
mine == <<op, row, count, base>>
vars == <<backend, role, art, uses, pc, held, mine, told, late>>

Members == {u \in Users : role[u] # "none"}
May(u)  == role[u] \in {"owner", "admin"}

CallsOK ==
  /\ pc \in [Calls -> {"idle", "enter", "ask", "write", "done"}]
  /\ op \in [Calls -> [kind : Kinds, by : Users, on : Users]]
  /\ held \subseteq Calls /\ row \in [Calls -> Artifact]
  /\ count \in [Calls -> Nat] /\ base \in [Calls -> Nat]
TablesOK ==
  /\ role \in [Users -> Roles \cup {"none"}] /\ art \in Artifact /\ uses \in Nat
  /\ won \in [Calls -> Nat] /\ handed \subseteq Calls /\ verdict \in 0..MaxCalls
  /\ stale \subseteq Calls /\ late \subseteq Users
TypeOK == backend \in {"sqlite", "postgres"} /\ CallsOK /\ TablesOK

\* What the fields of a call hold while it is not under way.
NoOp  == [kind |-> "edit", by |-> Founder, on |-> Founder]
NoRow == [there |-> FALSE, owner |-> Founder, version |-> 1, codes |-> {}, review |-> 0]

\* A space and an artifact that the founder or an admin created.
Init ==
  /\ backend \in {"sqlite", "postgres"}
  /\ role \in {r \in [Users -> {"owner", "admin", "none"}] :
                 /\ \A u \in Users : r[u] = "owner" <=> u = Founder
                 /\ Cardinality({u \in Users : r[u] # "none"}) <= MaxMembers}
  /\ \E u \in {v \in Users : May(v)} : art = [NoRow EXCEPT !.there = TRUE, !.owner = u]
  /\ uses = 0 /\ pc = [c \in Calls |-> "idle"] /\ held = {}
  /\ op = [c \in Calls |-> NoOp] /\ row = [c \in Calls |-> NoRow]
  /\ count = [c \in Calls |-> 0] /\ base = [c \in Calls |-> 0]
  /\ won = [c \in Calls |-> 0] /\ handed = {} /\ verdict = 0 /\ stale = {} /\ late = {}

-----------------------------------------------------------------------------
(* Connections.                                                            *)

\* A single read finds a connection.  Mutant: it waits for the write lock.
mut_MayRead == IF backend = "sqlite" THEN held = {} ELSE Cardinality(held) < PoolSize
MayRead == backend = "sqlite" \/ Cardinality(held) < PoolSize

\* A transaction begins.  Mutant: SQLite without the lock.
mut_MayWrite == Cardinality(held) < PoolSize
MayWrite == IF backend = "sqlite" THEN held = {} ELSE Cardinality(held) < PoolSize

-----------------------------------------------------------------------------
(* The checks before the transaction.                                      *)

\* What call k by u about v must find; v is u where no other user is checked.  To
\* leave is to remove oneself; other parameters are chosen when they are written.
Allowed(k, u, v) ==
  \/ k \in Editing \cup {"share", "review", "transfer", "delete"} /\ May(u) /\ v = u
  \/ k = "join" /\ uses < MaxUses /\ role[u] = "none" /\ v = u
  \/ k = "add" /\ May(u) /\ role[v] = "none" /\ Cardinality(Members) < MaxMembers
  \/ k = "remove" /\ (May(u) \/ u = v) /\ role[v] \in Roles \ {"owner"}
  \/ k = "set role" /\ May(u) /\ role[v] \in Roles
       /\ (role[v] = "owner" => role[u] = "owner")
  \/ k = "hand over" /\ role[u] = "owner" /\ role[v] \in Roles

Open == {c \in Calls : pc[c] \notin {"idle", "done"}}

\* Calls are numbered as they come.  A revision reads the content it starts
\* from, and only then enters update_artifact.
Start(c) ==
  /\ pc[c] = "idle" /\ \A d \in 1..(c - 1) : pc[d] # "idle"
  /\ MayRead /\ Cardinality(Open) < MaxOpen
  /\ \E k \in Kinds, u, v \in Users :
       /\ Allowed(k, u, v) /\ (k = "revise" => art.there)
       /\ op' = [op EXCEPT ![c] = [kind |-> k, by |-> u, on |-> v]]
       /\ base' = IF k = "revise" THEN [base EXCEPT ![c] = art.version] ELSE base
       /\ count' = IF k \in {"join", "add"} THEN [count EXCEPT ![c] = Cardinality(Members)] ELSE count
  /\ pc' = [pc EXCEPT ![c] = "enter"]
  /\ UNCHANGED <<backend, role, art, uses, held, row, told, late>>

-----------------------------------------------------------------------------
(* The transaction.                                                        *)

\* The transaction of call c ends, and the call is at p with o to do.
Leave(c, p, o) ==
  /\ pc' = [pc EXCEPT ![c] = p] /\ held' = held \ {c}
  /\ op' = [op EXCEPT ![c] = o]
  /\ row' = [row EXCEPT ![c] = NoRow] /\ count' = [count EXCEPT ![c] = 0]
  /\ base' = [base EXCEPT ![c] = 0]
End(c) == Leave(c, "done", NoOp)
\* The call goes on with a second transaction.
Continue(c, k) == Leave(c, "enter", [op[c] EXCEPT !.kind = k])

Reading(c) == op[c].kind \in Editing \cup {"share", "review", "transfer"}

\* Mutant: the members are counted before the transaction.
mut_Counted(c) == count[c]
Counted(c) == Cardinality(Members)

\* It begins and reads; whoever is not the artifact's owner is looked up again.
Enter(c) ==
  /\ pc[c] = "enter" /\ MayWrite
  /\ IF Reading(c) /\ ~art.there
       THEN End(c)
       ELSE /\ held' = held \cup {c}
            /\ pc' = [pc EXCEPT ![c] =
                        IF Reading(c) /\ op[c].kind # "review" /\ art.owner # op[c].by
                        THEN "ask" ELSE "write"]
            /\ row' = IF Reading(c) THEN [row EXCEPT ![c] = art] ELSE row
            /\ count' = IF op[c].kind = "join" THEN [count EXCEPT ![c] = Counted(c)] ELSE count
            /\ UNCHANGED <<op, base>>
  /\ UNCHANGED <<backend, role, art, uses, told, late>>

\* BEGIN (or the tenant's context) fails, or the call is cancelled at it:
\* __aenter__ has taken the lock or the connection, __aexit__ is not called, and
\* what was taken is lost to all later calls.
BeginFails(c) ==
  /\ pc[c] = "enter" /\ MayWrite
  /\ held' = held \cup {c} /\ pc' = [pc EXCEPT ![c] = "done"]
  /\ op' = [op EXCEPT ![c] = NoOp] /\ row' = [row EXCEPT ![c] = NoRow]
  /\ count' = [count EXCEPT ![c] = 0] /\ base' = [base EXCEPT ![c] = 0]
  /\ UNCHANGED <<backend, role, art, uses, told, late>>

\* A call is cancelled while it waits, or its read or its statement fails and
\* the transaction is rolled back.
Abandon(c) == c \in Open /\ End(c) /\ UNCHANGED <<backend, role, art, uses, told, late>>

\* That read is not one of the transaction: it takes a connection of its own.
Ask(c) ==
  /\ pc[c] = "ask" /\ MayRead
  /\ IF May(op[c].by) THEN pc' = [pc EXCEPT ![c] = "write"] /\ UNCHANGED <<held, mine>> ELSE End(c)
  /\ UNCHANGED <<backend, role, art, uses, told, late>>

\* Nobody edited the artifact since the transaction read it.  Mutant: the row
\* is found by its id alone.
mut_Current(c) == art.there
Current(c) == art.there /\ art.version = row[c].version

\* update_artifact; an edit may and a revision does replace the metadata.
Edit(c) ==
  /\ op[c].kind \in Editing /\ End(c)
  /\ IF Current(c)
       THEN LET new == row[c].version + 1 IN
            /\ won' = [won EXCEPT ![c] = new]
            /\ stale' = IF op[c].kind = "revise" /\ base[c] # art.version
                        THEN stale \cup {c} ELSE stale
            /\ \/ /\ op[c].kind = "edit"
                  /\ art' = [art EXCEPT !.version = new] /\ UNCHANGED <<handed, verdict>>
               \/ /\ art' = [art EXCEPT !.version = new, !.codes = {}, !.review = 0]
                  /\ handed' = {} /\ verdict' = 0
       ELSE UNCHANGED <<art, told>>
  /\ UNCHANGED <<role, uses, late>>

\* share_artifact and review_artifact write back the metadata they read, with
\* one more code or with another verdict.
Describe(c) ==
  LET share == op[c].kind = "share" IN
  /\ op[c].kind \in {"share", "review"} /\ End(c)
  /\ IF art.there
       THEN /\ art' = [art EXCEPT !.codes = IF share THEN row[c].codes \cup {c} ELSE row[c].codes,
                                  !.review = IF share THEN row[c].review ELSE c]
            /\ handed' = IF share THEN handed \cup {c} ELSE handed
            /\ verdict' = IF share THEN verdict ELSE c
       ELSE UNCHANGED <<art, handed, verdict>>
  /\ UNCHANGED <<role, uses, won, stale, late>>

Transfer(c) ==
  /\ op[c].kind = "transfer" /\ End(c)
  /\ \E u \in Users : art' = IF art.there THEN [art EXCEPT !.owner = u] ELSE art
  /\ UNCHANGED <<role, uses, told, late>>

Delete(c) ==
  /\ op[c].kind = "delete" /\ End(c)
  /\ art' = [art EXCEPT !.there = FALSE, !.codes = {}, !.review = 0]
  /\ handed' = {} /\ verdict' = 0
  /\ UNCHANGED <<role, uses, won, stale, late>>

\* add_member_checked counts in the transaction, and use_invite follows; a user
\* who has become a member in between violates the key of the table.
Join(c) ==
  /\ op[c].kind = "join"
  /\ IF role[op[c].on] = "none" /\ count[c] < MaxMembers
       THEN /\ \E r \in Given : role' = [role EXCEPT ![op[c].on] = r]
            /\ Continue(c, "use")
       ELSE End(c) /\ UNCHANGED role
  /\ UNCHANGED <<art, uses, told, late>>

UseInvite(c) ==
  /\ op[c].kind = "use" /\ End(c)
  /\ uses' = uses + 1
  /\ UNCHANGED <<role, art, told, late>>

\* add_member does not count.
Add(c) ==
  /\ op[c].kind = "add" /\ End(c)
  /\ IF role[op[c].on] = "none"
       THEN /\ \E r \in Given : role' = [role EXCEPT ![op[c].on] = r]
            /\ late' = IF Cardinality(Members) < MaxMembers THEN late ELSE late \cup {op[c].on}
       ELSE UNCHANGED <<role, late>>
  /\ UNCHANGED <<art, uses, told>>

Remove(c) ==
  /\ op[c].kind = "remove" /\ End(c)
  /\ role' = [role EXCEPT ![op[c].on] = "none"] /\ late' = late \ {op[c].on}
  /\ UNCHANGED <<art, uses, told>>

\* update_member, of a user who still is one.
Give(u, r) == role' = IF role[u] = "none" THEN role ELSE [role EXCEPT ![u] = r]

UpdateRole(c) ==
  /\ \/ op[c].kind = "set role" /\ End(c) /\ \E r \in {"admin", "member"} : Give(op[c].on, r)
     \/ op[c].kind = "make owner" /\ Give(op[c].on, "owner") /\ End(c)
     \/ op[c].kind = "hand over"  /\ Give(op[c].by, "admin") /\ Continue(c, "make owner")
  /\ UNCHANGED <<art, uses, told, late>>

\* The statement that writes, and the commit.
Write(c) ==
  /\ pc[c] = "write" /\ UNCHANGED backend
  /\ \/ Edit(c) \/ Describe(c) \/ Transfer(c) \/ Delete(c)
     \/ Join(c) \/ UseInvite(c) \/ Add(c) \/ Remove(c) \/ UpdateRole(c)

\* The process ends with its calls; open transactions are rolled back.
Crash ==
  /\ Open # {} /\ held' = {}
  /\ pc' = [c \in Calls |-> IF pc[c] = "idle" THEN "idle" ELSE "done"]
  /\ op' = [c \in Calls |-> NoOp] /\ row' = [c \in Calls |-> NoRow]
  /\ count' = [c \in Calls |-> 0] /\ base' = [c \in Calls |-> 0]
  /\ UNCHANGED <<backend, role, art, uses, told, late>>

Step(c) == Enter(c) \/ Ask(c) \/ Write(c)
Next    == Crash \/ \E c \in Calls : Start(c) \/ Step(c) \/ BeginFails(c) \/ Abandon(c)

Spec     == Init /\ [][Next]_vars
Fairness == \A c \in Calls : WF_vars(Step(c))
FairSpec == Spec /\ Fairness

-----------------------------------------------------------------------------
\* No edit is lost on the way to the row, whichever the backend: two edits are
\* never told the same version, and the row is at the last one told.
NoLostEdit ==
  /\ \A c \in Calls : won[c] <= art.version
  /\ \A c, d \in Calls : c # d /\ won[c] = won[d] => won[c] = 0

\* With the one lock of SQLite the metadata a call writes back is the metadata
\* that is there: a share code that was handed out and the last verdict stay until
\* an edit replaces the metadata.
MetadataKept ==
  backend = "sqlite" /\ art.there => handed \subseteq art.codes /\ verdict = art.review

\* With the one lock of SQLite invitations never overfill a space: beyond
\* max_members there are only members whom an admin added directly.
MembersFit == backend = "sqlite" => Cardinality(Members \ late) <= MaxMembers

\* Who holds the lock or a connection and will not give it back by itself.
Stuck == {c \in held : pc[c] = "done"} \cup {c \in Calls : pc[c] = "ask"}
\* One failed BEGIN is enough in SQLite.  In PostgreSQL each connection is lost to
\* one, or held by a transaction that needs one more for its permission read.
Starved == IF backend = "sqlite" THEN \E c \in held : pc[c] = "done"
                                 ELSE Cardinality(Stuck) = PoolSize
\* Every call ends, unless no lock or no connection is left to wait for.
CallsEnd == \A c \in Calls : c \in Open ~> pc[c] = "done" \/ Starved

\* artifact.py:128: version read and optimistic write are one transaction, so that
\* no concurrent write between them is overwritten; the test of the revisions
\* (test_issue_148_149_150_delegate_ux.py:9) expects 409 on a conflict: a revision
\* that is applied replaces the content it was made from.
RevisionsConflict == stale = {}
=============================================================================
