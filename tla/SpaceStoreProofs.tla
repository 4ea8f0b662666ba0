-------------------------- MODULE SpaceStoreProofs --------------------------
(***************************************************************************)
(* Proofs about SpaceStore, for any users, calls, pool and limits.         *)
(***************************************************************************)
EXTENDS SpaceStore, FiniteSetTheorems, TLAPS

Op == [kind : Kinds, by : Users, on : Users]

\* Who is in a transaction holds the lock or a connection; besides them only those
\* do whose BEGIN failed.
Holds == /\ \A c \in Calls : pc[c] \in {"ask", "write"} => c \in held
         /\ \A c \in held : pc[c] \in {"ask", "write", "done"}
\* SQLite has one lock ...
OneLock == backend = "sqlite" => \A c, d \in held : c = d
\* ... so what its holder has read is still true.
FreshRow  == backend = "sqlite" => \A c \in held : pc[c] # "done" /\ Reading(c) => row[c] = art
TrueCount == backend = "sqlite" =>
               \A c \in held :
                 pc[c] # "done" /\ op[c].kind = "join" => count[c] = Cardinality(Members)

IInv == /\ TypeOK /\ Holds /\ OneLock /\ FreshRow /\ TrueCount
        /\ NoLostEdit /\ MetadataKept /\ MembersFit

Books == CallsOK /\ Holds /\ OneLock

LEMMA Blanks == NoOp \in Op /\ NoRow \in Artifact
BY SpaceAssumption DEF NoOp, NoRow, Op, Artifact, Kinds, Editing, Calls

LEMMA CountIsNat == IsFiniteSet(Members) /\ Cardinality(Members) \in Nat
<1>1. Members \subseteq Users
  BY DEF Members
<1> QED
  BY <1>1, SpaceAssumption, FS_Subset, FS_CardinalityType

-----------------------------------------------------------------------------
\* A transaction that ends leaves the books in order, and in SQLite nobody is in one.
LEMMA LeaveBooks ==
  ASSUME Books, NEW c \in Calls, NEW p \in {"done", "enter"}, NEW o \in Op,
         Leave(c, p, o), backend' = backend,
         c \in held \/ (backend = "sqlite" => held = {})
  PROVE  Books' /\ (backend = "sqlite" => held' = {})
<1>1. CallsOK'
  BY Blanks DEF Books, CallsOK, Leave, Op
<1>2. Holds'
  BY DEF Books, CallsOK, Holds, Leave
<1>3. backend = "sqlite" => held' = {}
  BY DEF Books, OneLock, Leave
<1> QED
  BY <1>1, <1>2, <1>3 DEF Books, OneLock

LEMMA EndBooks ==
  ASSUME Books, NEW c \in Calls, End(c), backend' = backend,
         c \in held \/ (backend = "sqlite" => held = {})
  PROVE  Books' /\ (backend = "sqlite" => held' = {})
BY LeaveBooks, Blanks DEF End

LEMMA ContinueBooks ==
  ASSUME Books, NEW c \in Calls, NEW k \in Kinds, Continue(c, k), backend' = backend, c \in held
  PROVE  Books' /\ (backend = "sqlite" => held' = {})
<1>1. [op[c] EXCEPT !.kind = k] \in Op
  BY DEF Books, CallsOK, Op
<1> QED
  BY <1>1, LeaveBooks DEF Continue

-----------------------------------------------------------------------------
LEMMA InitInv == Init => IInv
<1> SUFFICES ASSUME Init PROVE IInv
  OBVIOUS
<1>1. TypeOK
  <2>1. art \in Artifact
    <3>1. PICK u \in Users : art = [NoRow EXCEPT !.there = TRUE, !.owner = u]
      BY DEF Init
    <3>2. art = [there |-> TRUE, owner |-> u, version |-> 1, codes |-> {}, review |-> 0]
      BY <3>1 DEF NoRow
    <3> QED
      BY <3>2, SpaceAssumption DEF Artifact
  <2>2. role \in [Users -> Roles \cup {"none"}]
    BY DEF Init, Roles
  <2>3. TablesOK
    BY <2>1, <2>2, SpaceAssumption DEF Init, TablesOK
  <2>4. CallsOK
    BY Blanks DEF Init, CallsOK, Op
  <2> QED
    BY <2>3, <2>4 DEF Init, TypeOK
<1>2. Holds /\ OneLock /\ FreshRow /\ TrueCount
  BY DEF Init, Holds, OneLock, FreshRow, TrueCount
<1>3. NoLostEdit
  BY DEF Init, NoLostEdit, NoRow
<1>4. MetadataKept
  BY DEF Init, MetadataKept, NoRow
<1>5. MembersFit
  <2>1. Members \ late = Members
    BY DEF Init
  <2>2. Cardinality(Members) <= MaxMembers
    BY DEF Init, Members
  <2> QED
    BY <2>1, <2>2 DEF MembersFit
<1> QED
  BY <1>1, <1>2, <1>3, <1>4, <1>5 DEF IInv

-----------------------------------------------------------------------------
\* Nothing in the tables changes.
LEMMA TablesKept ==
  ASSUME IInv, UNCHANGED <<backend, role, art, uses, told, late>>
  PROVE  TablesOK' /\ NoLostEdit' /\ MetadataKept' /\ MembersFit' /\ Members' = Members
<1>1. TablesOK
  BY DEF IInv, TypeOK
<1> QED
  BY <1>1 DEF IInv, TablesOK, NoLostEdit, MetadataKept, MembersFit, Members, told

LEMMA CrashInv == ASSUME IInv, Crash PROVE IInv'
<1>1. Books'
  <2>1. CallsOK'
    BY Blanks DEF IInv, TypeOK, Crash, CallsOK, Op
  <2> QED
    BY <2>1 DEF Crash, Books, Holds, OneLock
<1>2. FreshRow' /\ TrueCount'
  BY DEF Crash, FreshRow, TrueCount
<1> QED
  BY <1>1, <1>2, TablesKept DEF IInv, TypeOK, Crash, Books

LEMMA StartInv == ASSUME IInv, NEW c \in Calls, Start(c) PROVE IInv'
<1> USE DEF IInv
<1>a. CallsOK /\ TablesOK /\ backend \in {"sqlite", "postgres"}
  BY DEF TypeOK
<1>b. art.version \in Nat
  BY <1>a DEF TablesOK, Artifact
<1>1. CallsOK'
  BY <1>a, <1>b, CountIsNat DEF Start, CallsOK, Op
<1>2. c \notin held /\ held' = held /\ \A d \in Calls : d # c => pc'[d] = pc[d] /\ op'[d] = op[d]
                                                       /\ row'[d] = row[d] /\ count'[d] = count[d]
  BY <1>a DEF Start, CallsOK, Holds, Op
<1>3. Holds'
  BY <1>a, <1>2 DEF Start, CallsOK, Holds
<1>4. backend' = backend /\ art' = art
  BY DEF Start
<1>5. OneLock'
  BY <1>2, <1>4 DEF OneLock
<1>6. Members' = Members
  BY DEF Start, Members
<1>7. \A d \in held : d \in Calls /\ d # c
  BY <1>2, <1>a DEF CallsOK
<1>8. FreshRow'
  BY <1>2, <1>4, <1>7 DEF FreshRow, Reading
<1>9. TrueCount'
  BY <1>2, <1>4, <1>6, <1>7 DEF TrueCount
<1> QED
  BY <1>1, <1>3, <1>4, <1>5, <1>8, <1>9, <1>a, TablesKept DEF TypeOK, Start

LEMMA EnterInv == ASSUME IInv, NEW c \in Calls, Enter(c) PROVE IInv'
<1> USE DEF IInv
<1>a. CallsOK /\ TablesOK /\ backend \in {"sqlite", "postgres"} /\ Books
  BY DEF TypeOK, Books
<1>b. UNCHANGED <<backend, role, art, uses, told, late>>
  BY DEF Enter
<1>c. backend = "sqlite" => held = {}
  BY DEF Enter, MayWrite
<1>1. CASE Reading(c) /\ ~art.there
  <2>1. Books' /\ (backend = "sqlite" => held' = {})
    BY <1>1, <1>a, <1>b, <1>c, EndBooks DEF Enter
  <2>2. FreshRow' /\ TrueCount'
    BY <2>1, <1>b DEF FreshRow, TrueCount
  <2> QED
    BY <2>1, <2>2, <1>a, <1>b, TablesKept DEF TypeOK, Books
<1>2. CASE ~(Reading(c) /\ ~art.there)
  <2>1. /\ held' = held \cup {c} /\ op' = op /\ base' = base
        /\ pc' = [pc EXCEPT ![c] = IF Reading(c) /\ op[c].kind # "review" /\ art.owner # op[c].by
                                   THEN "ask" ELSE "write"]
        /\ row' = IF Reading(c) THEN [row EXCEPT ![c] = art] ELSE row
        /\ count' = IF op[c].kind = "join" THEN [count EXCEPT ![c] = Cardinality(Members)] ELSE count
    BY <1>2 DEF Enter, Counted
  <2>2. CallsOK'
    BY <2>1, <1>a, CountIsNat DEF CallsOK, TablesOK
  <2>3. Holds'
    BY <2>1, <1>a DEF CallsOK, Holds
  <2>4. OneLock'
    BY <2>1, <1>b, <1>c DEF OneLock
  <2>5. Members' = Members
    BY <1>b DEF Members
  <2>6. FreshRow'
    BY <2>1, <1>b, <1>c, <1>a DEF FreshRow, Reading, CallsOK
  <2>7. TrueCount'
    BY <2>1, <2>5, <1>b, <1>c, <1>a DEF TrueCount, CallsOK
  <2> QED
    BY <2>2, <2>3, <2>4, <2>6, <2>7, <1>a, <1>b, TablesKept DEF TypeOK
<1> QED
  BY <1>1, <1>2

LEMMA BeginFailsInv == ASSUME IInv, NEW c \in Calls, BeginFails(c) PROVE IInv'
<1> USE DEF IInv
<1>a. CallsOK /\ TablesOK /\ backend \in {"sqlite", "postgres"}
  BY DEF TypeOK
<1>b. UNCHANGED <<backend, role, art, uses, told, late>>
  BY DEF BeginFails
<1>1. /\ held' = held \cup {c} /\ pc' = [pc EXCEPT ![c] = "done"]
      /\ backend = "sqlite" => held = {}
  BY DEF BeginFails, MayWrite
<1>2. CallsOK'
  BY <1>1, <1>a, Blanks DEF BeginFails, CallsOK, Op
<1>3. Holds' /\ OneLock'
  BY <1>1, <1>a, <1>b DEF CallsOK, Holds, OneLock
<1>4. FreshRow' /\ TrueCount'
  BY <1>1, <1>a, <1>b DEF CallsOK, FreshRow, TrueCount
<1> QED
  BY <1>2, <1>3, <1>4, <1>a, <1>b, TablesKept DEF TypeOK

LEMMA AbandonInv == ASSUME IInv, NEW c \in Calls, Abandon(c) PROVE IInv'
<1> USE DEF IInv
<1>a. CallsOK /\ TablesOK /\ backend \in {"sqlite", "postgres"}
  BY DEF TypeOK
<1>b. UNCHANGED <<backend, role, art, uses, told, late>>
  BY DEF Abandon
<1>1. /\ held' = held \ {c} /\ pc' = [pc EXCEPT ![c] = "done"]
      /\ op' = [op EXCEPT ![c] = NoOp] /\ row' = [row EXCEPT ![c] = NoRow]
      /\ count' = [count EXCEPT ![c] = 0] /\ base' = [base EXCEPT ![c] = 0]
  BY DEF Abandon, End, Leave
<1>2. CallsOK'
  BY <1>1, <1>a, Blanks DEF CallsOK, Op
<1>3. Holds' /\ OneLock'
  BY <1>1, <1>a, <1>b DEF CallsOK, Holds, OneLock
<1>4. Members' = Members
  BY <1>b DEF Members
<1>5. \A d \in held' : /\ d \in held /\ pc'[d] = pc[d] /\ op'[d] = op[d]
                       /\ row'[d] = row[d] /\ count'[d] = count[d]
  BY <1>1, <1>a DEF CallsOK
<1>6. FreshRow'
  BY <1>5, <1>b DEF FreshRow, Reading
<1>7. TrueCount'
  BY <1>4, <1>5, <1>b DEF TrueCount
<1> QED
  BY <1>2, <1>3, <1>6, <1>7, <1>a, <1>b, TablesKept DEF TypeOK

LEMMA AskInv == ASSUME IInv, NEW c \in Calls, Ask(c) PROVE IInv'
<1> USE DEF IInv
<1>a. CallsOK /\ TablesOK /\ backend \in {"sqlite", "postgres"} /\ Books
  BY DEF TypeOK, Books
<1>b. UNCHANGED <<backend, role, art, uses, told, late>>
  BY DEF Ask
<1>c. c \in held
  BY DEF Ask, Holds
<1>1. CASE May(op[c].by)
  <2>1. pc' = [pc EXCEPT ![c] = "write"] /\ UNCHANGED <<held, op, row, count, base>>
    BY <1>1 DEF Ask, mine
  <2>2. CallsOK' /\ Holds' /\ OneLock'
    BY <2>1, <1>a, <1>b, <1>c DEF CallsOK, Holds, OneLock
  <2>3. Members' = Members
    BY <1>b DEF Members
  <2>4. held' = held /\ \A d \in held : pc'[d] # "done" => pc[d] # "done"
    BY <2>1, <1>a DEF CallsOK, Ask
  <2>5. FreshRow'
    BY <2>1, <2>4, <1>b DEF FreshRow, Reading
  <2>6. TrueCount'
    BY <2>1, <2>3, <2>4, <1>b DEF TrueCount
  <2> QED
    BY <2>2, <2>5, <2>6, <1>a, <1>b, TablesKept DEF TypeOK
<1>2. CASE ~May(op[c].by)
  <2>1. Books' /\ (backend = "sqlite" => held' = {})
    BY <1>2, <1>a, <1>b, <1>c, EndBooks DEF Ask
  <2>2. FreshRow' /\ TrueCount'
    BY <2>1, <1>b DEF FreshRow, TrueCount
  <2> QED
    BY <2>1, <2>2, <1>a, <1>b, TablesKept DEF TypeOK, Books
<1> QED
  BY <1>1, <1>2

-----------------------------------------------------------------------------
\* A write that ends its transaction keeps the invariant when it keeps what the
\* tables owe.
LEMMA WriteKeeps ==
  ASSUME IInv, Books', backend' = backend, backend = "sqlite" => held' = {},
         TablesOK', NoLostEdit', MetadataKept', MembersFit'
  PROVE  IInv'
<1>1. FreshRow' /\ TrueCount'
  BY DEF FreshRow, TrueCount
<1>2. backend' \in {"sqlite", "postgres"}
  BY DEF IInv, TypeOK
<1>3. TypeOK'
  BY <1>2 DEF TypeOK, Books
<1> QED
  BY <1>1, <1>3 DEF IInv, Books

\* The members stay.
LEMMA FitKept == ASSUME IInv, UNCHANGED <<backend, role, late>> PROVE MembersFit'
BY DEF IInv, MembersFit, Members

\* The artifact and what was told of it stay.
LEMMA ArtKept == ASSUME IInv, UNCHANGED <<backend, art, told>> PROVE NoLostEdit' /\ MetadataKept'
BY DEF IInv, NoLostEdit, MetadataKept, told

LEMMA EditInv ==
  ASSUME IInv, NEW c \in Calls, c \in held, UNCHANGED backend, Edit(c) PROVE IInv'
<1> USE DEF IInv
<1>a. CallsOK /\ TablesOK /\ Books
  BY DEF TypeOK, Books
<1>b. Books' /\ (backend = "sqlite" => held' = {})
  BY <1>a, EndBooks DEF Edit
<1>c. UNCHANGED <<role, uses, late>>
  BY DEF Edit
<1>d. MembersFit'
  BY <1>c, FitKept
<1>1. CASE ~Current(c)
  <2>1. UNCHANGED <<art, won, handed, verdict, stale>>
    BY <1>1 DEF Edit, told
  <2>2. TablesOK'
    BY <2>1, <1>a, <1>c DEF TablesOK
  <2> QED
    BY <2>1, <2>2, <1>b, <1>d, ArtKept, WriteKeeps DEF told
<1>2. CASE Current(c)
  <2> DEFINE new == row[c].version + 1
  <2>1. /\ won' = [won EXCEPT ![c] = new]
        /\ stale' \subseteq stale \cup {c}
        /\ \/ art' = [art EXCEPT !.version = new] /\ UNCHANGED <<handed, verdict>>
           \/ /\ art' = [art EXCEPT !.version = new, !.codes = {}, !.review = 0]
              /\ handed' = {} /\ verdict' = 0
    BY <1>2 DEF Edit
  <2>2. new = art.version + 1 /\ art.version \in Nat /\ art.there
    BY <1>2, <1>a DEF Current, TablesOK, Artifact
  <2> HIDE DEF new
  <2>3. new \in Nat
    BY <2>2
  <2>4. art' \in Artifact /\ art'.version = new /\ art'.there
    <3>1. CASE art' = [art EXCEPT !.version = new]
      BY <3>1, <2>2, <2>3, <1>a DEF TablesOK, Artifact
    <3>2. CASE art' = [art EXCEPT !.version = new, !.codes = {}, !.review = 0]
      <4>1. 0 \in 0..MaxCalls /\ {} \in SUBSET Calls
        BY SpaceAssumption
      <4>2. art \in Artifact
        BY <1>a DEF TablesOK
      <4> QED
        BY <3>2, <4>1, <4>2, <2>2, <2>3 DEF Artifact
    <3> QED
      BY <3>1, <3>2, <2>1
  <2>5. TablesOK'
    BY <2>1, <2>3, <2>4, <1>a, <1>c, SpaceAssumption DEF TablesOK
  <2>6. NoLostEdit'
    <3>1. \A d \in Calls : won[d] \in Nat /\ won[d] <= art.version
      BY <1>a DEF TablesOK, NoLostEdit
    <3>2. \A d \in Calls : won'[d] = IF d = c THEN new ELSE won[d]
      BY <2>1, <1>a DEF TablesOK
    <3> QED
      BY <3>1, <3>2, <2>2, <2>4 DEF NoLostEdit
  <2>7. MetadataKept'
    BY <2>1, <2>2, <1>a DEF MetadataKept, TablesOK, Artifact
  <2> QED
    BY <2>5, <2>6, <2>7, <1>b, <1>d, WriteKeeps
<1> QED
  BY <1>1, <1>2

LEMMA DescribeInv ==
  ASSUME IInv, NEW c \in Calls, c \in held, pc[c] = "write", UNCHANGED backend, Describe(c)
  PROVE  IInv'
<1> USE DEF IInv
<1>a. CallsOK /\ TablesOK /\ Books
  BY DEF TypeOK, Books
<1>b. Books' /\ (backend = "sqlite" => held' = {})
  BY <1>a, EndBooks DEF Describe
<1>c. UNCHANGED <<role, uses, won, stale, late>>
  BY DEF Describe
<1>d. MembersFit'
  BY <1>c, FitKept
<1>1. CASE ~art.there
  <2>1. UNCHANGED <<art, handed, verdict>>
    BY <1>1 DEF Describe
  <2>2. TablesOK'
    BY <2>1, <1>a, <1>c DEF TablesOK
  <2> QED
    BY <2>1, <2>2, <1>b, <1>c, <1>d, ArtKept, WriteKeeps DEF told
<1>2. CASE art.there
  <2> DEFINE share == op[c].kind = "share"
             codes == IF share THEN row[c].codes \cup {c} ELSE row[c].codes
             review == IF share THEN row[c].review ELSE c
  <2>1. /\ art' = [art EXCEPT !.codes = codes, !.review = review]
        /\ handed' = IF share THEN handed \cup {c} ELSE handed
        /\ verdict' = IF share THEN verdict ELSE c
    BY <1>2 DEF Describe
  <2>2. codes \subseteq Calls /\ review \in 0..MaxCalls /\ c \in 0..MaxCalls
    BY <1>a, SpaceAssumption DEF CallsOK, Artifact, Calls
  <2>3. backend = "sqlite" => row[c] = art
    BY DEF FreshRow, Reading, Describe
  <2>4. backend = "sqlite" => handed \subseteq art.codes /\ verdict = art.review
    BY <1>2 DEF MetadataKept
  <2>5. backend = "sqlite" => handed' \subseteq codes /\ verdict' = review
    BY <2>1, <2>3, <2>4
  <2>6. handed' \subseteq Calls /\ verdict' \in 0..MaxCalls
    BY <2>1, <2>2, <1>a DEF TablesOK
  <2> HIDE DEF codes, review, share
  <2>7. art' \in Artifact /\ art'.version = art.version /\ art'.codes = codes /\ art'.review = review
    BY <2>1, <2>2, <1>a DEF TablesOK, Artifact
  <2>8. TablesOK'
    BY <2>6, <2>7, <1>a, <1>c DEF TablesOK
  <2>9. NoLostEdit'
    BY <2>7, <1>c DEF NoLostEdit
  <2>10. MetadataKept'
    BY <2>5, <2>7 DEF MetadataKept
  <2> QED
    BY <2>8, <2>9, <2>10, <1>b, <1>d, WriteKeeps
<1> QED
  BY <1>1, <1>2

LEMMA TransferInv ==
  ASSUME IInv, NEW c \in Calls, c \in held, UNCHANGED backend, Transfer(c) PROVE IInv'
<1> USE DEF IInv
<1>a. TablesOK /\ Books
  BY DEF TypeOK, Books
<1>b. Books' /\ (backend = "sqlite" => held' = {})
  BY <1>a, EndBooks DEF Transfer
<1>c. UNCHANGED <<role, uses, won, handed, verdict, stale, late>>
  BY DEF Transfer, told
<1>1. PICK u \in Users : art' = IF art.there THEN [art EXCEPT !.owner = u] ELSE art
  BY DEF Transfer
<1>2. /\ art' \in Artifact /\ art'.there = art.there /\ art'.version = art.version
      /\ art'.codes = art.codes /\ art'.review = art.review
  BY <1>1, <1>a DEF TablesOK, Artifact
<1>3. TablesOK'
  BY <1>2, <1>a, <1>c DEF TablesOK
<1>4. NoLostEdit' /\ MetadataKept'
  BY <1>2, <1>c DEF NoLostEdit, MetadataKept
<1> QED
  BY <1>3, <1>4, <1>b, <1>c, FitKept, WriteKeeps

LEMMA DeleteInv ==
  ASSUME IInv, NEW c \in Calls, c \in held, UNCHANGED backend, Delete(c) PROVE IInv'
<1> USE DEF IInv
<1>a. TablesOK /\ Books
  BY DEF TypeOK, Books
<1>b. Books' /\ (backend = "sqlite" => held' = {})
  BY <1>a, EndBooks DEF Delete
<1>c. /\ UNCHANGED <<role, uses, won, stale, late>> /\ handed' = {} /\ verdict' = 0
      /\ art' = [art EXCEPT !.there = FALSE, !.codes = {}, !.review = 0]
  BY DEF Delete
<1>2. art' \in Artifact /\ ~art'.there /\ art'.version = art.version
  <2>1. 0 \in 0..MaxCalls /\ {} \in SUBSET Calls
    BY SpaceAssumption
  <2>2. art \in Artifact
    BY <1>a DEF TablesOK
  <2> QED
    BY <2>1, <2>2, <1>c DEF Artifact
<1>3. TablesOK'
  BY <1>2, <1>a, <1>c, SpaceAssumption DEF TablesOK
<1>4. NoLostEdit' /\ MetadataKept'
  BY <1>2, <1>c DEF NoLostEdit, MetadataKept
<1> QED
  BY <1>3, <1>4, <1>b, <1>c, FitKept, WriteKeeps

-----------------------------------------------------------------------------
\* What a write to the members owes.
LEMMA MembersWrite ==
  ASSUME IInv, Books', backend' = backend, backend = "sqlite" => held' = {},
         UNCHANGED <<art, told>>, role' \in [Users -> Roles \cup {"none"}], uses' \in Nat,
         late' \subseteq Users, MembersFit'
  PROVE  IInv'
<1>1. TablesOK
  BY DEF IInv, TypeOK
<1>2. TablesOK'
  BY <1>1 DEF TablesOK, told
<1> QED
  BY <1>2, ArtKept, WriteKeeps

\* One more user makes at most one more member.
LEMMA OneMore ==
  ASSUME NEW S, IsFiniteSet(S), NEW u
  PROVE  Cardinality(S \cup {u}) <= Cardinality(S) + 1 /\ Cardinality(S) \in Nat
<1>1. Cardinality(S) \in Nat
  BY FS_CardinalityType
<1>2. Cardinality(S \cup {u}) = Cardinality(S) \/ Cardinality(S \cup {u}) = Cardinality(S) + 1
  BY FS_AddElement
<1> QED
  BY <1>1, <1>2

\* Fewer of those who count.
LEMMA FewerFit ==
  ASSUME IInv, UNCHANGED backend, Members' \ late' \subseteq Members \ late
  PROVE  MembersFit'
<1>1. IsFiniteSet(Members \ late)
  BY CountIsNat, FS_Subset
<1>2. /\ Cardinality(Members' \ late') <= Cardinality(Members \ late)
      /\ Cardinality(Members' \ late') \in Nat /\ Cardinality(Members \ late) \in Nat
  BY <1>1, FS_Subset, FS_CardinalityType
<1> QED
  BY <1>2, SpaceAssumption DEF IInv, MembersFit

LEMMA JoinInv ==
  ASSUME IInv, NEW c \in Calls, c \in held, pc[c] = "write", UNCHANGED backend, Join(c)
  PROVE  IInv'
<1> USE DEF IInv
<1>a. TablesOK /\ Books /\ CallsOK
  BY DEF TypeOK, Books
<1>b. UNCHANGED <<art, uses, told, late>>
  BY DEF Join
<1>1. CASE role[op[c].on] = "none" /\ count[c] < MaxMembers
  <2>1. PICK r \in Given : role' = [role EXCEPT ![op[c].on] = r]
    BY <1>1 DEF Join
  <2>2. Continue(c, "use") /\ "use" \in Kinds
    BY <1>1 DEF Join, Kinds
  <2>3. Books' /\ (backend = "sqlite" => held' = {})
    BY <2>2, <1>a, ContinueBooks
  <2>4. role' \in [Users -> Roles \cup {"none"}]
    BY <2>1, <1>a, SpaceAssumption DEF TablesOK, Roles
  <2>5. MembersFit'
    <3>1. Members' \subseteq Members \cup {op[c].on}
      BY <2>1, <1>a DEF Members, TablesOK
    <3>2. Members' \ late' \subseteq Members \cup {op[c].on}
      BY <3>1
    <3>3. IsFiniteSet(Members \cup {op[c].on})
      BY CountIsNat, FS_AddElement
    <3>4. /\ Cardinality(Members' \ late') <= Cardinality(Members \cup {op[c].on})
          /\ Cardinality(Members' \ late') \in Nat /\ Cardinality(Members \cup {op[c].on}) \in Nat
      BY <3>2, <3>3, FS_Subset, FS_CardinalityType
    <3>5. Cardinality(Members \cup {op[c].on}) <= Cardinality(Members) + 1
      BY CountIsNat, OneMore
    <3>6. backend = "sqlite" => Cardinality(Members) < MaxMembers
      BY <1>1 DEF TrueCount, Join
    <3> QED
      BY <3>4, <3>5, <3>6, CountIsNat, SpaceAssumption DEF MembersFit
  <2>6. uses' \in Nat /\ late' \subseteq Users
    BY <1>a, <1>b DEF TablesOK
  <2> QED
    BY <2>3, <2>4, <2>5, <2>6, <1>b, MembersWrite
<1>2. CASE ~(role[op[c].on] = "none" /\ count[c] < MaxMembers)
  <2>1. End(c) /\ role' = role
    BY <1>2 DEF Join
  <2>2. role' \in [Users -> Roles \cup {"none"}] /\ uses' \in Nat /\ late' \subseteq Users
    BY <2>1, <1>a, <1>b DEF TablesOK
  <2> QED
    BY <2>1, <2>2, <1>a, <1>b, EndBooks, FitKept, MembersWrite
<1> QED
  BY <1>1, <1>2

LEMMA UseInviteInv ==
  ASSUME IInv, NEW c \in Calls, c \in held, UNCHANGED backend, UseInvite(c) PROVE IInv'
<1>a. TablesOK /\ Books
  BY DEF IInv, TypeOK, Books
<1>b. End(c) /\ uses' = uses + 1 /\ UNCHANGED <<role, art, told, late>>
  BY DEF UseInvite
<1>1. role' \in [Users -> Roles \cup {"none"}] /\ uses' \in Nat /\ late' \subseteq Users
  BY <1>a, <1>b DEF TablesOK
<1> QED
  BY <1>1, <1>a, <1>b, EndBooks, FitKept, MembersWrite

LEMMA AddInv ==
  ASSUME IInv, NEW c \in Calls, c \in held, UNCHANGED backend, Add(c) PROVE IInv'
<1> USE DEF IInv
<1>a. TablesOK /\ Books /\ CallsOK
  BY DEF TypeOK, Books
<1>b. End(c) /\ UNCHANGED <<art, uses, told>>
  BY DEF Add
<1>c. op[c].on \in Users
  BY <1>a DEF CallsOK
<1>1. CASE role[op[c].on] = "none"
  <2>1. PICK r \in Given : role' = [role EXCEPT ![op[c].on] = r]
    BY <1>1 DEF Add
  <2>2. late' = IF Cardinality(Members) < MaxMembers THEN late ELSE late \cup {op[c].on}
    BY <1>1 DEF Add
  <2>3. role' \in [Users -> Roles \cup {"none"}] /\ uses' \in Nat /\ late' \subseteq Users
    BY <2>1, <2>2, <1>a, <1>b, <1>c, SpaceAssumption DEF TablesOK, Roles
  <2>4. Members' \subseteq Members \cup {op[c].on}
    BY <2>1, <1>a DEF Members, TablesOK
  <2>5. MembersFit'
    <3>1. CASE Cardinality(Members) < MaxMembers
      <4>1. Members' \ late' \subseteq Members \cup {op[c].on}
        BY <2>4
      <4>2. IsFiniteSet(Members \cup {op[c].on})
        BY CountIsNat, FS_AddElement
      <4>3. /\ Cardinality(Members' \ late') <= Cardinality(Members \cup {op[c].on})
            /\ Cardinality(Members' \ late') \in Nat /\ Cardinality(Members \cup {op[c].on}) \in Nat
        BY <4>1, <4>2, FS_Subset, FS_CardinalityType
      <4>4. Cardinality(Members \cup {op[c].on}) <= Cardinality(Members) + 1
        BY CountIsNat, OneMore
      <4> QED
        BY <3>1, <4>3, <4>4, CountIsNat, SpaceAssumption DEF MembersFit
    <3>2. CASE ~(Cardinality(Members) < MaxMembers)
      BY <3>2, <2>2, <2>4, FewerFit
    <3> QED
      BY <3>1, <3>2
  <2> QED
    BY <2>3, <2>5, <1>a, <1>b, EndBooks, MembersWrite
<1>2. CASE role[op[c].on] # "none"
  <2>1. UNCHANGED <<role, late>>
    BY <1>2 DEF Add
  <2>2. role' \in [Users -> Roles \cup {"none"}] /\ uses' \in Nat /\ late' \subseteq Users
    BY <2>1, <1>a, <1>b DEF TablesOK
  <2> QED
    BY <2>1, <2>2, <1>a, <1>b, EndBooks, FitKept, MembersWrite
<1> QED
  BY <1>1, <1>2

LEMMA RemoveInv ==
  ASSUME IInv, NEW c \in Calls, c \in held, UNCHANGED backend, Remove(c) PROVE IInv'
<1>a. TablesOK /\ Books
  BY DEF IInv, TypeOK, Books
<1>b. /\ End(c) /\ UNCHANGED <<art, uses, told>>
      /\ role' = [role EXCEPT ![op[c].on] = "none"] /\ late' = late \ {op[c].on}
  BY DEF Remove
<1>1. role' \in [Users -> Roles \cup {"none"}] /\ uses' \in Nat /\ late' \subseteq Users
  BY <1>a, <1>b DEF TablesOK
<1>2. Members' \ late' \subseteq Members \ late
  BY <1>a, <1>b DEF Members, TablesOK
<1> QED
  BY <1>1, <1>2, <1>a, <1>b, EndBooks, FewerFit, MembersWrite

\* To change a role makes and ends no membership.
LEMMA GiveKeeps ==
  ASSUME IInv, NEW u \in Users, NEW r \in Roles, Give(u, r), UNCHANGED <<backend, late>>
  PROVE  role' \in [Users -> Roles \cup {"none"}] /\ MembersFit'
<1>1. role \in [Users -> Roles \cup {"none"}]
  BY DEF IInv, TypeOK, TablesOK
<1>2. role' \in [Users -> Roles \cup {"none"}]
  BY <1>1 DEF Give
<1>3. Members' \subseteq Members
  BY <1>1 DEF Give, Members, Roles
<1> QED
  BY <1>2, <1>3, FewerFit

LEMMA UpdateRoleInv ==
  ASSUME IInv, NEW c \in Calls, c \in held, UNCHANGED backend, UpdateRole(c) PROVE IInv'
<1>a. TablesOK /\ Books /\ CallsOK
  BY DEF IInv, TypeOK, Books
<1>b. UNCHANGED <<art, uses, told, late>>
  BY DEF UpdateRole
<1>c. op[c].on \in Users /\ op[c].by \in Users
  BY <1>a DEF CallsOK
<1>d. PICK u \in Users, r \in Roles : Give(u, r)
  <2>1. CASE op[c].kind = "set role" /\ End(c) /\ \E r \in {"admin", "member"} : Give(op[c].on, r)
    BY <2>1, <1>c DEF Roles
  <2>2. CASE Give(op[c].on, "owner")
    BY <2>2, <1>c DEF Roles
  <2>3. CASE Give(op[c].by, "admin")
    BY <2>3, <1>c DEF Roles
  <2> QED
    BY <2>1, <2>2, <2>3 DEF UpdateRole
<1>e. role' \in [Users -> Roles \cup {"none"}] /\ MembersFit'
  BY <1>b, <1>d, GiveKeeps
<1>f. End(c) \/ Continue(c, "make owner")
  BY DEF UpdateRole
<1>g. Books' /\ (backend = "sqlite" => held' = {})
  <2>1. "make owner" \in Kinds
    BY DEF Kinds
  <2> QED
    BY <2>1, <1>a, <1>f, EndBooks, ContinueBooks
<1>h. uses' \in Nat /\ late' \subseteq Users
  BY <1>a, <1>b DEF TablesOK
<1> QED
  BY <1>b, <1>e, <1>g, <1>h, MembersWrite

-----------------------------------------------------------------------------
LEMMA StepInv == ASSUME IInv, [Next]_vars PROVE IInv'
<1>1. CASE Crash
  BY <1>1, CrashInv
<1>2. ASSUME NEW c \in Calls, Start(c) PROVE IInv'
  BY <1>2, StartInv
<1>3. ASSUME NEW c \in Calls, Enter(c) PROVE IInv'
  BY <1>3, EnterInv
<1>4. ASSUME NEW c \in Calls, Ask(c) PROVE IInv'
  BY <1>4, AskInv
<1>5. ASSUME NEW c \in Calls, Write(c) PROVE IInv'
  <2>1. c \in held /\ pc[c] = "write" /\ UNCHANGED backend
    BY <1>5 DEF IInv, Holds, Write
  <2> QED
    BY <2>1, <1>5, EditInv, DescribeInv, TransferInv, DeleteInv, JoinInv, UseInviteInv, AddInv,
       RemoveInv, UpdateRoleInv DEF Write
<1>6. CASE UNCHANGED vars
  <2>1. UNCHANGED <<backend, role, art, uses, pc, held, op, row, count, base, told, late>>
    BY <1>6 DEF vars, mine
  <2>2. CallsOK' /\ Holds' /\ OneLock' /\ FreshRow'
    BY <2>1 DEF IInv, TypeOK, CallsOK, Holds, OneLock, FreshRow, Reading
  <2>3. TablesOK' /\ NoLostEdit' /\ MetadataKept' /\ MembersFit' /\ Members' = Members
    BY <2>1, TablesKept
  <2>4. TrueCount'
    BY <2>1, <2>3 DEF IInv, TrueCount
  <2> QED
    BY <2>1, <2>2, <2>3, <2>4 DEF IInv, TypeOK
<1>7. ASSUME NEW c \in Calls, BeginFails(c) PROVE IInv'
  BY <1>7, BeginFailsInv
<1>8. ASSUME NEW c \in Calls, Abandon(c) PROVE IInv'
  BY <1>8, AbandonInv
<1> QED
  BY <1>1, <1>2, <1>3, <1>4, <1>5, <1>6, <1>7, <1>8 DEF Next, Step

\* The books of the transactions, what a lone reader may rely on, and the three
\* promises hold together, for all users, calls, pools and limits.
THEOREM Invariance == Spec => []IInv
<1> QED
  BY InitInv, StepInv, PTL DEF Spec

\* Tables, calls and histories keep their types, through every interleaving of
\* calls, every failure or cancellation of one, and every crash.
THEOREM TypeCorrect == Spec => []TypeOK
<1>1. IInv => TypeOK
  BY DEF IInv
<1> QED
  BY <1>1, Invariance, PTL

\* On either backend no two edits of an artifact are told the same version, and
\* none is told one that the row has not reached: update_artifact's WHERE
\* version decides, not the lock.
THEOREM EditsKept == Spec => []NoLostEdit
<1>1. IInv => NoLostEdit
  BY DEF IInv
<1> QED
  BY <1>1, Invariance, PTL

\* Under SQLite's one lock share codes and verdicts survive each other's
\* read-modify-write of the metadata.
THEOREM MetadataStays == Spec => []MetadataKept
<1>1. IInv => MetadataKept
  BY DEF IInv
<1> QED
  BY <1>1, Invariance, PTL

\* Under SQLite's one lock joining never overfills a space.
THEOREM MembersStayWithin == Spec => []MembersFit
<1>1. IInv => MembersFit
  BY DEF IInv
<1> QED
  BY <1>1, Invariance, PTL
=============================================================================
