------------------------- MODULE WaveSchedulerProofs -------------------------
(***************************************************************************)
(* Proofs about WaveScheduler, for every workflow and every bound.         *)
(*                                                                         *)
(* The order of a run is rewritten while it is being scanned: directives   *)
(* insert into it and cut it, rewinds move the cursor.  The invariant that *)
(* the proofs rest on says what all of that preserves:                     *)
(*   Shape      the order has no repetition, puts every node after its     *)
(*              predecessors, and contains the original predecessors of    *)
(*              each of its nodes;                                         *)
(*   Behind     a node behind the cursor is done, or a rewind jumped over  *)
(*              it.                                                        *)
(* What a list of directives does is proved by induction on its length.    *)
(* The induction theorems of the library take a predicate as a parameter;  *)
(* here an induction is the choice of a least counterexample.              *)
(***************************************************************************)
EXTENDS WaveScheduler, SequenceTheorems, FiniteSetTheorems, WellFoundedInduction,
        TLAPS

----------------------------------------------------------------------------
(* The natural numbers are well ordered.                                   *)

\* A non-empty set of naturals has a least element.
LEMMA LeastNatural ==
  ASSUME NEW T, T \subseteq Nat, T # {}
  PROVE  \E x \in T : \A y \in T : x <= y
<1> DEFINE R == OpToRel(<, Nat)
<1>1. IsWellFoundedOn(R, Nat)
  BY NatLessThanWellFounded
<1>2. \A x \in T, y \in T : y < x => <<y, x>> \in R
  BY DEF OpToRel
<1>3. \E x \in T : \A y \in T : ~(<<y, x>> \in R)
  <2> HIDE DEF R
  <2> QED
    BY <1>1, WFMin
<1>4. PICK x \in T : \A y \in T : ~(<<y, x>> \in R)
  BY <1>3
<1>5. \A y \in T : ~(y < x)
  BY <1>2, <1>4
<1>6. \A y \in T : x <= y
  BY <1>5
<1> QED
  BY <1>6

\* Advance finds the first node at or after i that is not done, or the end.
LEMMA AdvanceFinds ==
  ASSUME NEW o \in Seq(All), NEW i \in 1..(Len(o) + 1)
  PROVE  /\ Advance(o, i) \in i..(Len(o) + 1)
         /\ Advance(o, i) = Len(o) + 1 \/ o[Advance(o, i)] \notin done
         /\ \A k \in i..(Advance(o, i) - 1) : o[k] \in done
<1> DEFINE T == {j \in i..(Len(o) + 1) : j = Len(o) + 1 \/ o[j] \notin done}
<1>1. T \subseteq Nat /\ Len(o) + 1 \in T
  OBVIOUS
<1>2. PICK j \in T : \A k \in T : j <= k
  BY <1>1, LeastNatural
<1>3. \A k \in i..(j - 1) : o[k] \in done
  <2> SUFFICES ASSUME NEW k \in i..(j - 1), o[k] \notin done PROVE FALSE
    OBVIOUS
  <2>1. k \in T
    BY <1>2
  <2> QED
    BY <1>2, <2>1
<1>4. /\ j \in i..(Len(o) + 1)
      /\ /\ j = Len(o) + 1 \/ o[j] \notin done
         /\ \A k \in i..(j - 1) : o[k] \in done
  BY <1>2, <1>3
<1> QED
  BY <1>4 DEF Advance

LEMMA PosFinds ==
  ASSUME NEW o \in Seq(All), NEW n \in ToSet(o)
  PROVE  Pos(o, n) \in 1..Len(o) /\ o[Pos(o, n)] = n
BY DEF Pos, ToSet

\* What InsertAt of the community modules returns.
LEMMA InsertAtIs ==
  ASSUME NEW o \in Seq(All), NEW p \in 1..(Len(o) + 1), NEW e \in All
  PROVE  /\ InsertAt(o, p, e) \in Seq(All)
         /\ Len(InsertAt(o, p, e)) = Len(o) + 1
         /\ \A k \in 1..(Len(o) + 1) :
              InsertAt(o, p, e)[k] = IF k < p THEN o[k] ELSE IF k = p THEN e ELSE o[k - 1]
<1> DEFINE head == SubSeq(o, 1, p - 1)
           tail == SubSeq(o, p, Len(o))
<1>1. /\ head \in Seq(All) /\ Len(head) = p - 1
      /\ \A k \in 1..(p - 1) : head[k] = o[k]
  OBVIOUS
<1>2. /\ tail \in Seq(All) /\ Len(tail) = Len(o) - p + 1
      /\ \A k \in 1..(Len(o) - p + 1) : tail[k] = o[k + p - 1]
  OBVIOUS
<1>3. /\ head \o <<e>> \in Seq(All) /\ Len(head \o <<e>>) = p
      /\ \A k \in 1..p : (head \o <<e>>)[k] = IF k < p THEN o[k] ELSE e
  BY <1>1
<1> HIDE DEF head, tail
<1> DEFINE left == head \o <<e>>
<1>4. /\ left \in Seq(All) /\ Len(left) = p
      /\ \A k \in 1..p : left[k] = IF k < p THEN o[k] ELSE e
  BY <1>3
<1>5. InsertAt(o, p, e) = left \o tail
  BY DEF InsertAt, head, tail
<1> HIDE DEF left
<1>6. left \o tail \in Seq(All) /\ Len(left \o tail) = Len(left) + Len(tail)
  BY <1>2, <1>4, ConcatProperties
<1>7. \A k \in 1..(Len(left) + Len(tail)) :
        (left \o tail)[k] = IF k <= Len(left) THEN left[k] ELSE tail[k - Len(left)]
  BY <1>2, <1>4, ConcatProperties
<1>8. Len(left) + Len(tail) = Len(o) + 1
  BY <1>2, <1>4
<1>9. ASSUME NEW k \in 1..(Len(o) + 1)
      PROVE  (left \o tail)[k] = IF k < p THEN o[k] ELSE IF k = p THEN e ELSE o[k - 1]
  <2>1. CASE k <= p
    BY <1>4, <1>7, <1>8, <2>1
  <2>2. CASE k > p
    <3>1. k - p \in 1..(Len(o) - p + 1) /\ (k - p) + p - 1 = k - 1
      BY <2>2
    <3>2. tail[k - p] = o[k - 1]
      BY <1>2, <3>1
    <3> QED
      BY <1>4, <1>7, <1>8, <2>2, <3>2
  <2>3. k <= p \/ k > p
    OBVIOUS
  <2> QED
    BY <2>1, <2>2, <2>3
<1> QED
  BY <1>5, <1>6, <1>8, <1>9

----------------------------------------------------------------------------
(* What a list of directives does to the order.                            *)

\* o is an order of some of the nodes of a run with the edges es and the
\* inserted nodes x.
Shape(o, es, x) ==
  /\ \A i, j \in DOMAIN o : o[i] = o[j] => i = j
  /\ \A i, j \in DOMAIN o : <<o[i], o[j]>> \in es => i < j
  /\ \A i \in DOMAIN o : o[i] \in Nodes \cup x
  /\ Edges \subseteq es /\ es \subseteq Edges \cup (Nodes \X x)
  /\ \A e \in Edges, j \in DOMAIN o : e[2] = o[j] => \E i \in DOMAIN o : o[i] = e[1]

Standings == [order : Seq(All), cursor : Nat \ {0}, passed : SUBSET All,
              edges : SUBSET (All \X All), extra : SUBSET Extra]

\* The directives that led to s left the order up to the cursor alone.
Grown(s) ==
  /\ s \in Standings /\ Shape(s.order, s.edges, s.extra)
  /\ s.cursor = Advance(order, idx) /\ s.cursor <= Len(s.order) + 1
  /\ \A k \in 1..(s.cursor - 1) : s.order[k] = order[k]
  /\ passed \subseteq s.passed

\* An inserted node keeps the shape, if it comes after the node it is linked to.
LEMMA InsertShape ==
  ASSUME NEW o \in Seq(All), NEW es, NEW x \in SUBSET Extra, Shape(o, es, x),
         NEW new \in Extra \ x, NEW p \in 1..(Len(o) + 1), NEW at \in Nodes \cup {None},
         at \in ToSet(o) => Pos(o, at) < p
  PROVE  Shape(InsertAt(o, p, new),
               IF at = None THEN es ELSE es \cup {<<at, new>>}, x \cup {new})
<1> DEFINE q == InsertAt(o, p, new)
           fs == IF at = None THEN es ELSE es \cup {<<at, new>>}
           Back(k) == IF k < p THEN k ELSE k - 1
<1> USE WorkflowAssumption
<1>1. new \in All /\ new \notin Nodes \cup x
  BY DEF All
<1>2. /\ q \in Seq(All) /\ DOMAIN q = 1..(Len(o) + 1) /\ q[p] = new
      /\ \A k \in DOMAIN q : k # p => Back(k) \in DOMAIN o /\ q[k] = o[Back(k)]
  <2>1. /\ q \in Seq(All) /\ Len(q) = Len(o) + 1
        /\ \A k \in 1..(Len(o) + 1) :
             q[k] = IF k < p THEN o[k] ELSE IF k = p THEN new ELSE o[k - 1]
    BY <1>1, InsertAtIs
  <2> HIDE DEF q
  <2>2. DOMAIN q = 1..(Len(o) + 1) /\ p \in 1..(Len(o) + 1) /\ DOMAIN o = 1..Len(o)
    BY <2>1
  <2>3. \A k \in DOMAIN q : k # p => Back(k) \in 1..Len(o)
    BY <2>2
  <2> QED
    BY <2>1, <2>2, <2>3
<1> HIDE DEF q
<1>3. \A k \in DOMAIN q : k # p => q[k] \in Nodes \cup x /\ q[k] # new
  BY <1>1, <1>2 DEF Shape
<1>4. \A i, j \in DOMAIN q : q[i] = q[j] => i = j
  <2> SUFFICES ASSUME NEW i \in DOMAIN q, NEW j \in DOMAIN q, q[i] = q[j], i # j
               PROVE  FALSE
    OBVIOUS
  <2>1. i # p /\ j # p
    BY <1>2, <1>3
  <2>2. Back(i) = Back(j)
    BY <1>2, <2>1 DEF Shape
  <2> QED
    BY <1>2, <2>1, <2>2
<1>5. \A i, j \in DOMAIN q : <<q[i], q[j]>> \in fs => i < j
  <2> SUFFICES ASSUME NEW i \in DOMAIN q, NEW j \in DOMAIN q, <<q[i], q[j]>> \in fs
               PROVE  i < j
    OBVIOUS
  <2>1. CASE <<q[i], q[j]>> \in es
    <3>1. q[i] \in Nodes /\ q[j] \in Nodes \cup x
      BY <2>1 DEF Shape
    <3>2. i # p /\ j # p
      BY <1>1, <1>2, <3>1
    <3>3. Back(i) < Back(j)
      BY <1>2, <2>1, <3>2 DEF Shape
    <3> QED
      BY <1>2, <3>2, <3>3
  <2>2. CASE q[i] = at /\ q[j] = new /\ at # None
    <3>1. i # p /\ j = p
      BY <1>1, <1>2, <1>3, <2>2
    <3>2. Back(i) \in DOMAIN o /\ o[Back(i)] = at
      BY <1>2, <2>2, <3>1
    <3>3. at \in ToSet(o) /\ at \in All
      BY <3>2, <2>2 DEF ToSet, All
    <3>4. Pos(o, at) \in DOMAIN o /\ o[Pos(o, at)] = at
      BY <3>3, PosFinds
    <3>5. Back(i) = Pos(o, at)
      BY <3>2, <3>4 DEF Shape
    <3> QED
      BY <1>2, <3>1, <3>3, <3>5
  <2> QED
    BY <2>1, <2>2
<1>6. \A i \in DOMAIN q : q[i] \in Nodes \cup (x \cup {new})
  BY <1>2, <1>3
<1>7. Edges \subseteq fs /\ fs \subseteq Edges \cup (Nodes \X (x \cup {new}))
  BY DEF Shape
<1>8. \A e \in Edges, j \in DOMAIN q : e[2] = q[j] => \E i \in DOMAIN q : q[i] = e[1]
  <2> SUFFICES ASSUME NEW e \in Edges, NEW j \in DOMAIN q, e[2] = q[j]
               PROVE  \E i \in DOMAIN q : q[i] = e[1]
    OBVIOUS
  <2>1. j # p /\ o[Back(j)] = e[2] /\ Back(j) \in DOMAIN o
    BY <1>1, <1>2
  <2>2. PICK i \in DOMAIN o : o[i] = e[1]
    BY <2>1 DEF Shape
  <2> DEFINE k == IF i < p THEN i ELSE i + 1
  <2>3. k \in DOMAIN q /\ k # p /\ Back(k) = i
    BY <1>2
  <2> QED
    BY <1>2, <2>2, <2>3
<1> QED
  BY <1>4, <1>5, <1>6, <1>7, <1>8 DEF Shape, q

\* A directive keeps the order in shape, and what is before the cursor.
LEMMA ApplyGrows ==
  ASSUME NEW s, Grown(s), NEW d \in Directive
  PROVE  Grown(Apply(s, d))
<1> USE WorkflowAssumption
<1>1. /\ s.order \in Seq(All) /\ s.cursor \in Nat \ {0} /\ s.passed \in SUBSET All
      /\ s.edges \in SUBSET (All \X All) /\ s.extra \in SUBSET Extra
      /\ s.cursor <= Len(s.order) + 1
      /\ d.at \in Nodes \cup {None} /\ d.kind \in {"insert", "inject", "skip"}
  BY DEF Grown, Standings, Directive
<1>2. CASE d.kind = "insert"
  <2>1. CASE Extra \subseteq s.extra
    BY <1>2, <2>1 DEF Apply, Insert
  <2>2. CASE ~(Extra \subseteq s.extra)
    <3> DEFINE at == d.at
               new == CHOOSE y \in Extra \ s.extra : TRUE
               p == IF at \in ToSet(s.order) THEN Most(s.cursor, Pos(s.order, at) + 1)
                                             ELSE s.cursor
               t == [s EXCEPT !.order = InsertAt(s.order, p, new),
                              !.extra = @ \cup {new},
                              !.edges = IF at = None THEN @ ELSE @ \cup {<<at, new>>}]
    <3>1. Apply(s, d) = t
      BY <1>2, <2>2 DEF Apply, Insert
    <3>2. new \in Extra \ s.extra /\ new \in All
      BY <2>2 DEF All
    <3>3. at \in ToSet(s.order) => Pos(s.order, at) \in 1..Len(s.order)
      BY <1>1, PosFinds
    <3>4. /\ p \in 1..(Len(s.order) + 1) /\ s.cursor <= p
          /\ at \in ToSet(s.order) => Pos(s.order, at) < p
      BY <1>1, <3>3 DEF Most
    <3> HIDE DEF new, p, at
    <3>5. /\ t.order = InsertAt(s.order, p, new) /\ t.extra = s.extra \cup {new}
          /\ t.edges = IF at = None THEN s.edges ELSE s.edges \cup {<<at, new>>}
          /\ t.cursor = s.cursor /\ t.passed = s.passed
      BY DEF Grown, Standings
    <3>6. at \in Nodes \cup {None}
      BY <1>1 DEF at
    <3> HIDE DEF t
    <3> DEFINE o == s.order
    <3>7. /\ o \in Seq(All) /\ p \in 1..(Len(o) + 1)
          /\ new \in All /\ new \in Extra \ s.extra
          /\ at \in ToSet(o) => Pos(o, at) < p
          /\ s.extra \in SUBSET Extra /\ Shape(o, s.edges, s.extra)
          /\ s.cursor \in Nat \ {0} /\ s.cursor <= p
          /\ t.order = InsertAt(o, p, new)
      BY <1>1, <3>2, <3>4, <3>5 DEF Grown
    <3> HIDE DEF o
    <3>8. /\ InsertAt(o, p, new) \in Seq(All)
          /\ Len(InsertAt(o, p, new)) = Len(o) + 1
          /\ \A k \in 1..(Len(o) + 1) : InsertAt(o, p, new)[k] =
               IF k < p THEN o[k] ELSE IF k = p THEN new ELSE o[k - 1]
      <4>1. o \in Seq(All) /\ p \in 1..(Len(o) + 1) /\ new \in All
        BY <3>7
      <4> QED
        BY ONLY <4>1, InsertAtIs, ZenonT(60)
    <3>9. Shape(InsertAt(o, p, new),
                IF at = None THEN s.edges ELSE s.edges \cup {<<at, new>>},
                s.extra \cup {new})
      <4>1. /\ o \in Seq(All) /\ s.extra \in SUBSET Extra /\ Shape(o, s.edges, s.extra)
            /\ new \in Extra \ s.extra /\ p \in 1..(Len(o) + 1)
            /\ at \in Nodes \cup {None} /\ (at \in ToSet(o) => Pos(o, at) < p)
        BY <3>6, <3>7
      <4> QED
        BY ONLY <4>1, InsertShape, ZenonT(60)
    <3>10. Shape(t.order, t.edges, t.extra)
      BY <3>5, <3>7, <3>9
    <3>11. /\ t.order \in Seq(All) /\ Len(t.order) = Len(s.order) + 1
           /\ \A k \in 1..(s.cursor - 1) : t.order[k] = s.order[k]
      BY <3>7, <3>8 DEF o
    <3>12. t \in Standings
      <4>1. t.edges \in SUBSET (All \X All)
        BY <1>1, <3>2, <3>5, <3>6 DEF All
      <4> QED
        BY <1>1, <3>2, <3>5, <3>11, <4>1 DEF Grown, Standings, t
    <3> QED
      BY <1>1, <3>1, <3>5, <3>10, <3>11, <3>12 DEF Grown
  <2> QED
    BY <2>1, <2>2
<1>3. CASE d.kind = "inject"
  <2> DEFINE n == IF d.at # None THEN d.at
                  ELSE IF s.cursor <= Len(s.order) THEN s.order[s.cursor] ELSE None
  <2>1. Apply(s, d) = IF n = None \/ n \in results THEN s
                      ELSE [s EXCEPT !.passed = @ \cup {n}]
    BY <1>3 DEF Apply, Inject
  <2>2. n \in All \cup {None}
    <3>1. s.cursor <= Len(s.order) => s.order[s.cursor] \in All
      BY <1>1
    <3> QED
      BY <1>1, <3>1 DEF All
  <2> HIDE DEF n
  <2> QED
    BY <2>1, <2>2 DEF Grown, Standings
<1>4. CASE d.kind = "skip"
  <2> DEFINE c == s.cursor - 1
             t == [s EXCEPT !.order = SubSeq(@, 1, s.cursor - 1)]
  <2>1. Apply(s, d) = t
    BY <1>4 DEF Apply
  <2>2. /\ t.order = SubSeq(s.order, 1, c) /\ t.cursor = s.cursor /\ t.passed = s.passed
        /\ t.edges = s.edges /\ t.extra = s.extra
    BY DEF Grown, Standings
  <2>3. /\ t.order \in Seq(All) /\ Len(t.order) = c /\ c \in Nat
        /\ \A k \in 1..c : t.order[k] = s.order[k]
    <3>1. c \in 0..Len(s.order)
      BY <1>1
    <3> HIDE DEF c, t
    <3>2. \A k \in 1..c : s.order[k] \in All
      BY <1>1, <3>1
    <3> QED
      BY <2>2, <3>1, <3>2, SubSeqProperties
  <2>4. t \in Standings
    BY <1>1, <2>2, <2>3 DEF Grown, Standings
  <2> HIDE DEF t, c
  <2>5. DOMAIN t.order = 1..c /\ 1..c \subseteq DOMAIN s.order
    BY <1>1, <2>3 DEF c
  <2>6. \A e \in Edges, j \in DOMAIN t.order :
          e[2] = t.order[j] => \E i \in DOMAIN t.order : t.order[i] = e[1]
    <3> SUFFICES ASSUME NEW e \in Edges, NEW j \in 1..c, e[2] = s.order[j]
                 PROVE  \E i \in 1..c : s.order[i] = e[1]
      BY <2>3, <2>5
    <3>1. PICK i \in DOMAIN s.order : s.order[i] = e[1]
      BY <2>5 DEF Grown, Shape
    <3>2. <<s.order[i], s.order[j]>> \in s.edges
      BY <3>1 DEF Grown, Shape
    <3>3. i < j
      BY <2>5, <3>2 DEF Grown, Shape
    <3> QED
      BY <1>1, <2>3, <3>1, <3>3
  <2>7. Shape(t.order, t.edges, t.extra)
    BY <2>2, <2>3, <2>5, <2>6 DEF Grown, Shape
  <2> QED
    BY <1>1, <2>1, <2>2, <2>3, <2>4, <2>7 DEF Grown, c
<1> QED
  BY <1>1, <1>2, <1>3, <1>4

\* The first n steps of the application of the directives, as a function f.
Unfold(f, n) ==
  [k \in 0..n |-> IF k = 0 THEN Standing ELSE Apply(f[k - 1], directives[k])]

\* After is the function that its definition describes.
LEMMA AfterIs ==
  ASSUME directives \in Seq(Directive)
  PROVE  After = Unfold(After, Len(directives))
<1> DEFINE Bad == {n \in Nat : ~\E f : f = Unfold(f, n)}
<1>1. Bad = {}
  <2> SUFFICES ASSUME Bad # {} PROVE FALSE
    OBVIOUS
  <2>1. PICK n \in Bad : \A m \in Bad : n <= m
    BY LeastNatural
  <2>2. CASE n = 0
    <3> DEFINE f == [k \in 0..0 |-> Standing]
    <3>1. f = Unfold(f, 0)
      BY DEF Unfold
    <3> QED
      BY <2>1, <2>2, <3>1
  <2>3. CASE n # 0
    <3>1. n - 1 \in Nat /\ n - 1 \notin Bad
      BY <2>1, <2>3
    <3>2. PICK f : f = Unfold(f, n - 1)
      BY <3>1
    <3> DEFINE g == [k \in 0..n |-> IF k < n THEN f[k] ELSE Apply(f[n - 1], directives[n])]
    <3>3. \A k \in 0..n : g[k] = IF k = 0 THEN Standing ELSE Apply(g[k - 1], directives[k])
      <4>1. n \in Nat
        BY <2>1
      <4>2. \A k \in 0..(n - 1) :
              f[k] = IF k = 0 THEN Standing ELSE Apply(f[k - 1], directives[k])
        BY <3>2 DEF Unfold
      <4> QED
        BY <2>3, <4>1, <4>2
    <3>4. g = Unfold(g, n)
      BY <3>3 DEF Unfold
    <3> QED
      BY <2>1, <3>4
  <2> QED
    BY <2>2, <2>3
<1>2. Len(directives) \in Nat
  OBVIOUS
<1>3. \E f : f = Unfold(f, Len(directives))
  BY <1>1, <1>2
<1> QED
  BY <1>3 DEF After, Unfold

\* The whole list of directives keeps the order in shape.
LEMMA DirectedGrows ==
  ASSUME TypeOK, Shape(order, edges, extra)
  PROVE  Grown(Directed)
<1> DEFINE Bad == {k \in 0..Len(directives) : ~Grown(After[k])}
<1>1. /\ directives \in Seq(Directive)
      /\ order \in Seq(All) /\ idx \in 1..(Len(order) + 1)
      /\ passed \subseteq All /\ edges \subseteq All \X All /\ extra \subseteq Extra
  BY DEF TypeOK
<1>2. \A k \in 0..Len(directives) :
        After[k] = IF k = 0 THEN Standing ELSE Apply(After[k - 1], directives[k])
  BY <1>1, AfterIs DEF Unfold
<1>3. Grown(Standing)
  <2>1. /\ Advance(order, idx) \in idx..(Len(order) + 1)
        /\ Advance(order, idx) \in Nat \ {0} /\ Advance(order, idx) <= Len(order) + 1
    BY <1>1, AdvanceFinds
  <2> QED
    BY <1>1, <2>1 DEF Grown, Standings, Standing
<1>4. Bad = {}
  <2> SUFFICES ASSUME Bad # {} PROVE FALSE
    OBVIOUS
  <2>1. Bad \subseteq Nat
    BY <1>1
  <2>2. PICK k \in Bad : \A j \in Bad : k <= j
    BY <2>1, LeastNatural
  <2>3. k # 0 /\ k \in 1..Len(directives)
    BY <1>1, <1>2, <1>3, <2>2
  <2>4. Grown(After[k - 1]) /\ directives[k] \in Directive
    BY <1>1, <2>2, <2>3
  <2>5. Grown(Apply(After[k - 1], directives[k]))
    BY <2>4, ApplyGrows
  <2> QED
    BY <1>2, <2>2, <2>3, <2>5
<1>5. Len(directives) \in 0..Len(directives)
  BY <1>1
<1> QED
  BY <1>4, <1>5 DEF Directed

----------------------------------------------------------------------------
(* The types, and the shape of the order.                                  *)

Base == TypeOK /\ Shape(order, edges, extra)

\* A boundary rewrites the order from the cursor on, and moves the cursor to the
\* first node that is not done.
LEMMA ProceedKeeps ==
  ASSUME Base, Proceed
  PROVE  /\ order' \in Seq(All) /\ idx' \in 1..(Len(order') + 1)
         /\ Shape(order', edges', extra')
         /\ passed \subseteq passed' /\ passed' \subseteq All
         /\ edges' \subseteq All \X All /\ extra' \subseteq Extra
         /\ \A k \in 1..(idx' - 1) :
              order'[k] \in done \/ (k \in 1..(idx - 1) /\ order'[k] = order[k])
         /\ idx' = Len(order') + 1 \/ order'[idx'] \notin done
<1> DEFINE s == Directed
           i == Advance(s.order, s.cursor)
<1>1. Grown(s)
  BY DirectedGrows DEF Base
<1>2. /\ order' = s.order /\ idx' = i /\ passed' = s.passed
      /\ edges' = s.edges /\ extra' = s.extra
  BY DEF Proceed
<1> HIDE DEF s
<1>3. /\ s.order \in Seq(All) /\ s.passed \subseteq All
      /\ s.edges \subseteq All \X All /\ s.extra \subseteq Extra
      /\ s.cursor \in Nat \ {0} /\ s.cursor <= Len(s.order) + 1
      /\ passed \subseteq s.passed /\ Shape(s.order, s.edges, s.extra)
      /\ s.cursor = Advance(order, idx)
      /\ \A k \in 1..(s.cursor - 1) : s.order[k] = order[k]
  BY <1>1 DEF Grown, Standings
<1>4. s.cursor \in 1..(Len(s.order) + 1)
  BY <1>3
<1>5. /\ i \in s.cursor..(Len(s.order) + 1)
      /\ i = Len(s.order) + 1 \/ s.order[i] \notin done
      /\ \A k \in s.cursor..(i - 1) : s.order[k] \in done
  BY <1>3, <1>4, AdvanceFinds
<1>6. /\ order \in Seq(All) /\ idx \in 1..(Len(order) + 1)
  BY DEF Base, TypeOK
<1>7. \A k \in idx..(s.cursor - 1) : order[k] \in done
  BY <1>3, <1>6, AdvanceFinds
<1> HIDE DEF i
<1>8. i \in Nat \ {0} /\ i \in 1..(Len(s.order) + 1)
  BY <1>3, <1>5
<1>9. ASSUME NEW k \in 1..(i - 1)
      PROVE  s.order[k] \in done \/ (k \in 1..(idx - 1) /\ s.order[k] = order[k])
  <2>1. CASE k >= s.cursor
    BY <1>3, <1>5, <1>8, <2>1
  <2>2. CASE k < s.cursor
    <3>1. s.order[k] = order[k]
      BY <1>3, <1>8, <2>2
    <3>2. k < idx \/ order[k] \in done
      BY <1>3, <1>6, <1>7, <1>8, <2>2
    <3> QED
      BY <1>6, <1>8, <3>1, <3>2
  <2> QED
    BY <1>3, <1>8, <2>1, <2>2
<1> QED
  BY <1>2, <1>3, <1>5, <1>8, <1>9

LEMMA InitBase == Init => Base
<1> SUFFICES ASSUME Init PROVE Base
  OBVIOUS
<1> USE WorkflowAssumption, BoundsAssumption, OrderAssumption
<1>1. /\ order \in Seq(Nodes) /\ ToSet(order) = Nodes
      /\ \A i, j \in DOMAIN order : order[i] = order[j] => i = j
      /\ \A i, j \in DOMAIN order : <<order[i], order[j]>> \in Edges => i < j
  BY DEF Init
<1>2. order \in Seq(All) /\ Len(order) \in Nat
  BY <1>1 DEF All
<1>3. TypeOK
  <2>1. /\ edges \subseteq All \X All /\ passed \subseteq All /\ results \subseteq All
        /\ done \subseteq All /\ extra \subseteq Extra /\ forgiven \subseteq All
        /\ owed \subseteq Nodes /\ leapt \subseteq All
    BY DEF Init, All
  <2>2. /\ stage \in [All -> Stages] /\ attempt \in [All -> 0..MaxRetries]
        /\ revisions \in [Nodes -> 0..MaxRevisions] /\ lastEnd \in [All -> Ends]
    BY DEF Init, Stages, Ends
  <2>3. /\ idx \in 1..(Len(order) + 1)
        /\ directives \in Seq(Directive) /\ sent \in 0..MaxDirectives
    BY <1>2 DEF Init
  <2> QED
    BY <1>2, <2>1, <2>2, <2>3 DEF Init, TypeOK, Outcomes
<1>4. Shape(order, edges, extra)
  BY <1>1 DEF Init, Shape, ToSet
<1> QED
  BY <1>3, <1>4 DEF Base

\* What a step of one node of the wave changes, whether the node moves by itself or
\* is answered.
Moved(n) ==
  /\ UNCHANGED <<phase, outcome, conc, completed, edges, extra, order, idx, done,
                 directives, sent, cancelled, forgiven, leapt>>
  /\ stage[n] \in {"start", "asking", "run"}
  /\ stage' \in [All -> Stages] /\ stage'[n] \notin {"idle", "start"}
  /\ \A m \in All \ {n} : stage'[m] = stage[m] /\ lastEnd'[m] = lastEnd[m]
  /\ lastEnd' \in [All -> Ends] /\ attempt' \in [All -> 0..MaxRetries]
  /\ \/ lastEnd'[n] = lastEnd[n]
     \/ lastEnd'[n] \in {"ok", "restored", "blocked"}
     \/ lastEnd'[n] \in {"failed", "denied"} /\ (n \notin Tolerant => stage'[n] = "fail")
  /\ stage'[n] = "fail" => lastEnd'[n] \in {"failed", "denied"}
  /\ anyDenied' \in BOOLEAN /\ (anyDenied => anyDenied')
  /\ lastEnd'[n] = "denied" /\ lastEnd[n] # "denied" => anyDenied'
  /\ anyDenied' /\ ~anyDenied => lastEnd'[n] = "denied"
  /\ UNCHANGED pending \/ anyDenied'
  /\ passed' \subseteq All /\ results' \subseteq All
  /\ \A m \in passed \ passed' : lastEnd'[n] = "denied" /\ (m = n \/ <<n, m>> \in edges)
  /\ owed' \subseteq owed /\ (n \in completed \/ n \notin owed' \/ stage[n] # "start")
  /\ pending' \in (Nodes \X Gates) \cup {None}
  /\ revisions' \in [Nodes -> 0..MaxRevisions]
  /\ parked' \in BOOLEAN /\ held' \in BOOLEAN

LEMMA ReturnMoves ==
  ASSUME TypeOK, NEW n \in All, NEW control \in Ended, NEW how \in Ends,
         Return(n, control, how)
  PROVE  /\ stage' \in [All -> Stages] /\ lastEnd' \in [All -> Ends]
         /\ stage'[n] = control /\ lastEnd'[n] = how
         /\ \A m \in All \ {n} : stage'[m] = stage[m] /\ lastEnd'[m] = lastEnd[m]
BY DEF TypeOK, Return, Ended, Stages

\* A denial, in whichever way it comes about.
LEMMA DeniedMoves ==
  ASSUME TypeOK, NEW n \in All, Denied(n)
  PROVE  /\ stage' \in [All -> Stages] /\ lastEnd' \in [All -> Ends]
         /\ stage'[n] \notin {"idle", "start"} /\ (n \notin Tolerant => stage'[n] = "fail")
         /\ lastEnd'[n] = "denied" /\ anyDenied'
         /\ \A m \in All \ {n} : stage'[m] = stage[m] /\ lastEnd'[m] = lastEnd[m]
         /\ passed' \subseteq All
         /\ \A m \in passed \ passed' : m = n \/ <<n, m>> \in edges
<1>1. Unless(n, "fail") \in Ended /\ "denied" \in Ends
  BY DEF Unless, Ended, Ends
<1>2. Return(n, Unless(n, "fail"), "denied")
  BY DEF Denied
<1>3. /\ stage' \in [All -> Stages] /\ lastEnd' \in [All -> Ends]
      /\ stage'[n] = Unless(n, "fail") /\ lastEnd'[n] = "denied"
      /\ \A m \in All \ {n} : stage'[m] = stage[m] /\ lastEnd'[m] = lastEnd[m]
  BY <1>1, <1>2, ReturnMoves
<1>4. ASSUME NEW m \in Targets(n) PROVE m \in All /\ <<n, m>> \in edges
  <2>1. PICK e \in edges : e[1] = n /\ e[2] = m
    BY DEF Targets
  <2>2. e \in All \X All
    BY <2>1 DEF TypeOK
  <2>3. e = <<n, m>> /\ m \in All
    BY <2>1, <2>2
  <2> QED
    BY <2>1, <2>3
<1>5. passed' = passed \ ({n} \cup Targets(n)) /\ anyDenied'
  BY DEF Denied
<1> QED
  BY <1>3, <1>4, <1>5 DEF Unless, TypeOK

\* Registering a revision fills the slot and counts it, within the limit.
LEMMA RevisionCounts ==
  ASSUME TypeOK, NEW n \in All,
         IF CanRevise(n)
           THEN /\ pending' = <<ReviseTo[n], n>>
                /\ revisions' = [revisions EXCEPT ![ReviseTo[n]] = @ + 1]
           ELSE UNCHANGED rev
  PROVE  /\ pending' \in (Nodes \X Gates) \cup {None}
         /\ revisions' \in [Nodes -> 0..MaxRevisions]
<1>1. CASE CanRevise(n)
  <2>1. n \in Gates /\ ReviseTo[n] \in Nodes /\ revisions[ReviseTo[n]] < MaxRevisions
    BY <1>1, WorkflowAssumption DEF CanRevise
  <2>2. revisions[ReviseTo[n]] + 1 \in 0..MaxRevisions
    BY <2>1, BoundsAssumption DEF TypeOK
  <2>3. pending' = <<ReviseTo[n], n>>
        /\ revisions' = [revisions EXCEPT ![ReviseTo[n]] = revisions[ReviseTo[n]] + 1]
    BY <1>1
  <2>4. revisions \in [Nodes -> 0..MaxRevisions]
    BY DEF TypeOK
  <2>5. revisions' \in [Nodes -> 0..MaxRevisions]
    BY <2>2, <2>3, <2>4
  <2>6. <<ReviseTo[n], n>> \in Nodes \X Gates
    BY <2>1
  <2> QED
    BY <2>3, <2>5, <2>6
<1>2. CASE ~CanRevise(n)
  BY <1>2 DEF rev, TypeOK
<1> QED
  BY <1>1, <1>2

\* Every step of a node is a move of that node.
LEMMA NodeMoves ==
  ASSUME TypeOK, NEW n \in All, NodeStep(n) \/ Answer(n)
  PROVE  Moved(n)
<1> USE DEF Moved, NodeFrame, run, data, rev
<1>1. CASE Skip(n)
  <2>1. Return(n, "continue", "restored") /\ "continue" \in Ended /\ "restored" \in Ends
    BY <1>1 DEF Skip, Ended, Ends
  <2> QED
    BY <1>1, <2>1, ReturnMoves DEF Skip, TypeOK
<1>2. CASE Enter(n)
  BY <1>2 DEF Enter, TypeOK, Stages
<1>3. CASE Blocked(n)
  <2>1. CASE Return(n, "fail", "failed")
    BY <1>3, <2>1, ReturnMoves DEF Blocked, TypeOK, Ended, Ends
  <2>2. CASE Return(n, Unless(n, "cancel"), "blocked")
    <3>1. Unless(n, "cancel") \in Ended /\ "blocked" \in Ends
      BY DEF Unless, Ended, Ends
    <3>2. Unless(n, "cancel") \notin {"idle", "start", "fail"}
      BY DEF Unless
    <3> QED
      BY <1>3, <2>2, <3>1, <3>2, ReturnMoves DEF Blocked, TypeOK
  <2> QED
    BY <1>3, <2>1, <2>2 DEF Blocked
<1>4. CASE DenyFast(n)
  BY <1>4, DeniedMoves DEF DenyFast, TypeOK
<1>5. CASE Ask(n)
  BY <1>5 DEF Ask, TypeOK, Stages
<1>6. CASE AskTimeout(n)
  BY <1>6, DeniedMoves DEF AskTimeout, TypeOK
<1>7. CASE AskCancelled(n)
  BY <1>7, DeniedMoves DEF AskCancelled, TypeOK
<1>8. CASE Succeed(n)
  <2>1. Return(n, "continue", "ok") /\ "continue" \in Ended /\ "ok" \in Ends
    BY <1>8 DEF Succeed, Ended, Ends
  <2> QED
    BY <1>8, <2>1, ReturnMoves DEF Succeed, TypeOK
<1>9. CASE Retry(n)
  <2>1. attempt[n] + 1 \in 0..MaxRetries
    BY <1>9, BoundsAssumption DEF Retry, TypeOK
  <2> QED
    BY <1>9, <2>1 DEF Retry, TypeOK
<1>10. CASE Fail(n)
  <2>1. Unless(n, "fail") \in Ended /\ "failed" \in Ends
    BY DEF Unless, Ended, Ends
  <2>2. Return(n, Unless(n, "fail"), "failed")
    BY <1>10 DEF Fail
  <2>3. /\ Unless(n, "fail") \notin {"idle", "start"}
        /\ n \notin Tolerant => Unless(n, "fail") = "fail"
    BY DEF Unless
  <2>4. passed \subseteq passed' /\ passed' \subseteq All /\ results' \subseteq All
    BY <1>10 DEF Fail, TypeOK
  <2> QED
    BY <1>10, <2>1, <2>2, <2>3, <2>4, ReturnMoves DEF Fail, TypeOK
<1>11. CASE Approve(n)
  <2>1. CASE Denied(n)
    BY <1>11, <2>1, DeniedMoves DEF Approve, TypeOK
  <2>2. CASE ~Denied(n)
    <3>1. stage[n] = "asking" /\ stage' = [stage EXCEPT ![n] = "run"] /\ parked' = FALSE
      BY <1>11, <2>2 DEF Approve
    <3>2. /\ stage' \in [All -> Stages] /\ stage'[n] = "run"
          /\ \A m \in All \ {n} : stage'[m] = stage[m]
      BY <3>1 DEF TypeOK, Stages
    <3>3. UNCHANGED <<NodeFrame, attempt, rev, owed, data, anyDenied, lastEnd>>
      BY <1>11, <2>2 DEF Approve
    <3> QED
      BY <3>1, <3>2, <3>3 DEF TypeOK
  <2> QED
    BY <2>1, <2>2
<1>12. CASE Reject(n)
  <2>1. /\ pending' \in (Nodes \X Gates) \cup {None}
        /\ revisions' \in [Nodes -> 0..MaxRevisions]
    BY <1>12, RevisionCounts DEF Reject
  <2> QED
    BY <1>12, <2>1, DeniedMoves DEF Reject, TypeOK
<1> QED
  BY <1>1, <1>2, <1>3, <1>4, <1>5, <1>6, <1>7, <1>8, <1>9, <1>10, <1>11, <1>12
  DEF NodeStep, Answer
----------------------------------------------------------------------------
(* The steps of the system, by what they change.                           *)

\* The end of a wave that is not rewound: its nodes are done.
Merged ==
  /\ done' = done \cup Wave
  /\ UNCHANGED <<idx, data, pending, forgiven, owed, leapt>>
  /\ \/ phase' = "ended" /\ outcome' \in {"cancelled", "failed"}
     \/ phase' = "boundary" /\ UNCHANGED outcome /\ ~Has("cancel") /\ ~Has("fail")

\* A call from outside, or the checkpoint's wait: the run itself stands still.
Aside ==
  /\ UNCHANGED <<outcome, run, stage, attempt, data, rev, anyDenied, hist>>
  /\ \/ UNCHANGED phase
     \/ phase \in {"boundary", "waiting"} /\ phase' \in {"waiting", "woken"}
  /\ directives' \in Seq(Directive) /\ sent' \in 0..MaxDirectives
  /\ cancelled' \in BOOLEAN /\ parked' \in BOOLEAN /\ held' \in BOOLEAN

\* The loop finds the run cancelled.
Stopped ==
  /\ phase \in {"boundary", "woken"} /\ Finish("cancelled")
  /\ UNCHANGED <<run, data, rev, directives, sent, cancelled, parked, anyDenied,
                 hist, held>>

Proceeded == phase \in {"boundary", "woken"} /\ Proceed

LEMMA StepKinds ==
  ASSUME TypeOK, [Next]_vars
  PROVE  Aside \/ Stopped \/ Proceeded \/ WaveDone \/ \E n \in All : Moved(n)
<1>1. CASE Boundary
  BY <1>1 DEF Boundary, Stopped, Proceeded, Aside, TypeOK
<1>2. CASE Woken
  BY <1>2 DEF Woken, Stopped, Proceeded
<1>3. CASE WaveDone
  BY <1>3
<1>4. CASE \E n \in All : NodeStep(n) \/ Answer(n)
  BY <1>4, NodeMoves
<1>5. CASE Cancel
  BY <1>5 DEF Cancel, Wake, Aside, TypeOK
<1>6. CASE Pause
  BY <1>6 DEF Pause, Aside, TypeOK
<1>7. CASE Resume
  <2>1. CASE Asking = {} \/ cancelled
    BY <1>7, <2>1 DEF Resume, Wake, Aside, TypeOK
  <2>2. CASE ~(Asking = {} \/ cancelled)
    <3>1. PICK n \in Asking :
            /\ parked' = FALSE /\ Denied(n)
            /\ IF CanRevise(n)
                 THEN /\ pending' = <<ReviseTo[n], n>>
                      /\ revisions' = [revisions EXCEPT ![ReviseTo[n]] = @ + 1]
                 ELSE UNCHANGED rev
            /\ UNCHANGED <<phase, outcome, run, attempt, results, directives,
                           sent, cancelled, forgiven, owed, leapt>>
      BY <1>7, <2>2 DEF Resume
    <3>2. n \in All /\ stage[n] = "asking" /\ held' = FALSE
      BY <1>7 DEF Asking, Resume
    <3>3. /\ pending' \in (Nodes \X Gates) \cup {None}
          /\ revisions' \in [Nodes -> 0..MaxRevisions]
      BY <3>1, <3>2, RevisionCounts
    <3>4. Moved(n)
      BY <3>1, <3>2, <3>3, DeniedMoves DEF Moved, run, TypeOK
    <3> QED
      BY <3>2, <3>4
  <2> QED
    BY <2>1, <2>2
<1>8. CASE \E d \in Directive : AddDirective(d)
  <2>1. PICK d \in Directive : AddDirective(d)
    BY <1>8
  <2>2. directives' \in Seq(Directive) /\ sent' \in 0..MaxDirectives
    BY <2>1, BoundsAssumption DEF AddDirective, TypeOK
  <2> QED
    BY <2>1, <2>2 DEF AddDirective, Aside, TypeOK
<1>9. CASE UNCHANGED vars
  BY <1>9 DEF vars, Aside, TypeOK
<1> QED
  BY <1>1, <1>2, <1>3, <1>4, <1>5, <1>6, <1>7, <1>8, <1>9 DEF Next, Engine

\* A rewind puts the cursor on a position of the order.
LEMMA ReviseTypes ==
  ASSUME TypeOK, NEW target \in Nodes, NEW gate \in Gates, Revise(target, gate)
  PROVE  /\ phase' = "boundary" /\ UNCHANGED outcome /\ pending' = None
         /\ done' = (done \cup Wave) \ {target, gate} /\ done' \subseteq All
         /\ passed' = passed \ {target, gate} /\ passed' \subseteq All
         /\ results' \subseteq All
         /\ idx' \in 1..(Len(order) + 1)
         /\ forgiven' = forgiven \cup {n \in Wave : stage[n] = "fail"}
         /\ owed' = owed \cup {target}
         /\ leapt' = leapt \cup ({order[k] : k \in 1..(idx' - 1)} \ done')
         /\ leapt' \subseteq All
<1> DEFINE at == IF target \in ToSet(order) THEN Pos(order, target) ELSE idx
<1>1. order \in Seq(All) /\ idx \in 1..(Len(order) + 1) /\ Len(order) \in Nat
  BY DEF TypeOK
<1>2. at \in 1..(Len(order) + 1)
  BY <1>1, PosFinds
<1>3. /\ idx' = at
      /\ leapt' = leapt \cup ({order[k] : k \in 1..(at - 1)} \ done')
  BY DEF Revise
<1> HIDE DEF at
<1>4. \A k \in 1..(at - 1) : order[k] \in All
  BY <1>1, <1>2
<1>5. leapt' \subseteq All
  BY <1>3, <1>4 DEF TypeOK
<1> QED
  BY <1>2, <1>3, <1>5 DEF Revise, Rewound, TypeOK, Wave

\* The end of a wave is a merge or a rewind.
LEMMA WaveEnds ==
  ASSUME TypeOK, WaveDone
  PROVE  /\ phase = "wave" /\ \A n \in Wave : stage[n] \in Ended
         /\ stage' = [n \in All |-> "idle"] /\ attempt' = [n \in All |-> 0]
         /\ UNCHANGED <<conc, completed, edges, extra, order, revisions, directives,
                        sent, cancelled, parked, anyDenied, lastEnd, held>>
         /\ \/ Merged
            \/ pending # None /\ \E target \in Nodes, gate \in Gates : Revise(target, gate)
<1>1. CASE ~Has("cancel") /\ Has("fail") /\ pending # None
  <2>1. Revise(pending[1], pending[2])
    BY <1>1 DEF WaveDone
  <2>2. pending[1] \in Nodes /\ pending[2] \in Gates
    BY <1>1 DEF TypeOK
  <2> QED
    BY <1>1, <2>1, <2>2 DEF WaveDone
<1>2. CASE ~(~Has("cancel") /\ Has("fail") /\ pending # None)
  BY <1>2 DEF WaveDone, Merged
<1> QED
  BY <1>1, <1>2

\* A boundary ends the run or starts a wave.
LEMMA ProceedEnds ==
  ASSUME Base, Proceed
  PROVE  /\ directives' = <<>>
         /\ UNCHANGED <<conc, completed, done, results, rev, sent, cancelled, parked,
                        anyDenied, hist, held, attempt>>
         /\ \/ /\ phase' = "ended" /\ UNCHANGED stage
               /\ \/ outcome' = Completion /\ idx' = Len(order') + 1
                  \/ outcome' = "failed"
            \/ /\ phase' = "wave" /\ UNCHANGED outcome /\ idx' <= Len(order')
               /\ stage' = [n \in All |->
                    IF n \in NextWave(order', idx', edges') THEN "start" ELSE "idle"]
<1>1. idx' \in 1..(Len(order') + 1) /\ Len(order') \in Nat
  BY ProceedKeeps
<1> QED
  BY <1>1 DEF Proceed, Finish

LEMMA NextBase ==
  ASSUME Base, [Next]_vars
  PROVE  Base'
<1>1. TypeOK /\ Shape(order, edges, extra)
  BY DEF Base
<1>2. CASE Aside
  BY <1>1, <1>2 DEF Aside, Base, TypeOK, Shape, run, data, rev, hist
<1>3. CASE Stopped
  BY <1>1, <1>3 DEF Stopped, Finish, Base, TypeOK, Shape, run, data, rev, hist, Outcomes
<1>4. CASE Proceeded
  <2>1. Proceed
    BY <1>4 DEF Proceeded
  <2>2. directives' \in Seq(Directive)
    BY <2>1, ProceedEnds
  <2>3. /\ phase' \in {"wave", "ended"} /\ outcome' \in Outcomes
        /\ stage' \in [All -> Stages]
    BY <1>1, <2>1, ProceedEnds DEF TypeOK, Stages, Outcomes, Completion
  <2>4. UNCHANGED <<conc, completed, done, results, rev, sent, cancelled, parked,
                    anyDenied, hist, held, attempt>>
    BY <2>1, ProceedEnds
  <2>5. /\ order' \in Seq(All) /\ idx' \in 1..(Len(order') + 1)
        /\ Shape(order', edges', extra') /\ passed' \subseteq All
        /\ edges' \subseteq All \X All /\ extra' \subseteq Extra
    BY <2>1, ProceedKeeps
  <2>6. Shape(order, edges, extra)'
    BY <2>5 DEF Shape
  <2>7. TypeOK'
    BY <1>1, <2>2, <2>3, <2>4, <2>5 DEF TypeOK, rev, hist
  <2> QED
    BY <2>6, <2>7 DEF Base
<1>5. CASE WaveDone
  <2>1. /\ stage' = [n \in All |-> "idle"] /\ attempt' = [n \in All |-> 0]
        /\ UNCHANGED <<conc, completed, edges, extra, order, revisions, directives,
                       sent, cancelled, parked, anyDenied, lastEnd, held>>
    BY <1>1, <1>5, WaveEnds
  <2>2. stage' \in [All -> Stages] /\ attempt' \in [All -> 0..MaxRetries]
    BY <2>1, BoundsAssumption DEF Stages
  <2>3. Shape(order, edges, extra)'
    BY <1>1, <2>1 DEF Shape
  <2>4. CASE Merged
    <3>1. done' \subseteq All /\ phase' \in {"ended", "boundary"} /\ outcome' \in Outcomes
      BY <1>1, <2>4 DEF Merged, TypeOK, Outcomes, Wave
    <3> QED
      BY <1>1, <2>1, <2>2, <2>3, <2>4, <3>1 DEF Base, TypeOK, Merged, data
  <2>5. CASE \E target \in Nodes, gate \in Gates : Revise(target, gate)
    <3>1. PICK target \in Nodes, gate \in Gates : Revise(target, gate)
      BY <2>5
    <3>2. /\ phase' = "boundary" /\ UNCHANGED outcome /\ pending' = None
          /\ done' \subseteq All /\ passed' \subseteq All /\ results' \subseteq All
          /\ idx' \in 1..(Len(order) + 1) /\ leapt' \subseteq All
          /\ forgiven' = forgiven \cup {n \in Wave : stage[n] = "fail"}
          /\ owed' = owed \cup {target}
      BY <1>1, <3>1, ReviseTypes
    <3>3. forgiven' \subseteq All /\ owed' \subseteq Nodes
      BY <1>1, <3>2 DEF TypeOK, Wave
    <3> QED
      BY <1>1, <2>1, <2>2, <2>3, <3>2, <3>3 DEF Base, TypeOK
  <2> QED
    BY <1>1, <1>5, <2>4, <2>5, WaveEnds
<1>6. CASE \E n \in All : Moved(n)
  <2>1. PICK n \in All : Moved(n)
    BY <1>6
  <2>2. Shape(order, edges, extra)'
    BY <1>1, <2>1 DEF Moved, Shape
  <2>3. owed' \subseteq Nodes
    BY <1>1, <2>1 DEF Moved, TypeOK
  <2>4. TypeOK'
    BY <1>1, <2>1, <2>3 DEF Moved, TypeOK
  <2> QED
    BY <2>2, <2>4 DEF Base
<1> QED
  BY <1>1, <1>2, <1>3, <1>4, <1>5, <1>6, StepKinds

(* Type correctness: whatever the directives do to the order and the       *)
(* rewinds to the cursor, the cursor stays on the order or just behind it, *)
(* no counter of revisions or retries passes its limit, and the slot of    *)
(* the run holds no revision or one that _register_revision put there.     *)
THEOREM TypeCorrect == Spec => []TypeOK
<1>1. Base => TypeOK
  BY DEF Base
<1> QED
  BY InitBase, NextBase, <1>1, PTL DEF Spec
----------------------------------------------------------------------------
(* The invariant.                                                          *)

\* A node behind the cursor is done, or a rewind jumped over it.
Behind == \A k \in 1..(idx - 1) : order[k] \in done \cup leapt

\* Nodes move only during a wave, and a run completes only at the end of its order.
Course ==
  /\ phase # "ended" => outcome = "running"
  /\ phase # "wave" => \A n \in All : stage[n] = "idle"
  /\ Complete => phase = "ended" /\ idx = Len(order) + 1

\* A denial is on record, a node that lets the wave fail has failed or was denied, and
\* a failure that nothing excuses is still to be seen by the end of the wave, or has been.
Accounts ==
  /\ \A n \in All : lastEnd[n] = "denied" => anyDenied
  /\ pending # None => anyDenied
  /\ \A n \in All : stage[n] = "fail" => lastEnd[n] \in {"failed", "denied"}
  /\ \A n \in All \ Tolerant :
       lastEnd[n] \in {"failed", "denied"} =>
         n \in forgiven \/ stage[n] = "fail" \/ outcome \in {"failed", "cancelled"}

\* A node that was sent back is not done before it has had its turn.
TurnsDue == \A t \in owed \ completed : t \notin done /\ stage[t] \in {"idle", "start"}

\* A gate enters a wave behind the node that it sends back, if it waits for it.
Awaited ==
  \A n \in DOMAIN ReviseTo :
    (stage[n] = "start" /\ <<ReviseTo[n], n>> \in edges)
      => ReviseTo[n] \in done \cup completed \cup leapt

IInv == Base /\ Behind /\ Course /\ Accounts /\ TurnsDue /\ Awaited

LEMMA InitInv == Init => IInv
<1> SUFFICES ASSUME Init PROVE IInv
  OBVIOUS
<1>1. Base
  BY InitBase
<1>2. \A n \in All : stage[n] = "idle" /\ lastEnd[n] = "none"
  BY DEF Init
<1>3. DOMAIN ReviseTo \subseteq All
  BY WorkflowAssumption DEF All
<1> QED
  BY <1>1, <1>2, <1>3 DEF Init, IInv, Behind, Course, Complete, Accounts, TurnsDue, Awaited

LEMMA MovedInv ==
  ASSUME IInv, NEW n \in All, Moved(n)
  PROVE  (Behind /\ Course /\ Accounts /\ TurnsDue /\ Awaited)'
<1>1. TypeOK
  BY DEF IInv, Base
<1>2. phase = "wave" /\ outcome = "running"
  BY DEF IInv, Course, Moved
<1>3. Behind'
  BY DEF IInv, Behind, Moved
<1>4. Course'
  BY <1>2 DEF IInv, Course, Complete, Moved
<1>5. Accounts'
  <2>1. ASSUME NEW m \in All, lastEnd'[m] = "denied" PROVE anyDenied'
    BY <2>1 DEF IInv, Accounts, Moved
  <2>2. ASSUME NEW m \in All \ Tolerant, lastEnd'[m] \in {"failed", "denied"}
        PROVE  m \in forgiven' \/ stage'[m] = "fail" \/ outcome' \in {"failed", "cancelled"}
    BY <2>2 DEF IInv, Accounts, Moved
  <2>3. pending' # None => anyDenied'
    BY DEF IInv, Accounts, Moved
  <2>4. ASSUME NEW m \in All, stage'[m] = "fail" PROVE lastEnd'[m] \in {"failed", "denied"}
    BY <2>4 DEF IInv, Accounts, Moved
  <2> QED
    BY <1>2, <2>1, <2>2, <2>3, <2>4 DEF Accounts
<1>6. TurnsDue'
  <2> SUFFICES ASSUME NEW t \in owed' \ completed'
               PROVE  t \notin done' /\ stage'[t] \in {"idle", "start"}
    BY DEF TurnsDue
  <2>1. t \in owed \ completed /\ t \in All
    BY <1>1 DEF Moved, TypeOK, All
  <2>2. t # n
    BY <2>1 DEF IInv, TurnsDue, Moved
  <2> QED
    BY <2>1, <2>2 DEF IInv, TurnsDue, Moved
<1>7. Awaited'
  <2>1. DOMAIN ReviseTo \subseteq All
    BY WorkflowAssumption DEF All
  <2> QED
    BY <2>1 DEF IInv, Awaited, Moved
<1> QED
  BY <1>3, <1>4, <1>5, <1>6, <1>7

LEMMA ProceedInv ==
  ASSUME IInv, Proceeded
  PROVE  (Behind /\ Course /\ Accounts /\ TurnsDue /\ Awaited)'
<1>1. Base /\ TypeOK /\ Proceed
  BY DEF IInv, Base, Proceeded
<1>2. /\ UNCHANGED <<conc, completed, done, pending, anyDenied, lastEnd, forgiven,
                     owed, leapt>>
      /\ \/ /\ phase' = "ended" /\ UNCHANGED stage
            /\ \/ outcome' = Completion /\ idx' = Len(order') + 1
               \/ outcome' = "failed"
         \/ /\ phase' = "wave" /\ UNCHANGED outcome /\ idx' <= Len(order')
            /\ stage' = [n \in All |->
                 IF n \in NextWave(order', idx', edges') THEN "start" ELSE "idle"]
  BY <1>1, ProceedEnds DEF rev, hist
<1>3. outcome = "running" /\ \A n \in All : stage[n] = "idle"
  BY DEF IInv, Course, Proceeded
<1>4. \A n \in All : stage'[n] \in {"idle", "start"}
  BY <1>2, <1>3
<1>5. /\ order' \in Seq(All) /\ idx' \in 1..(Len(order') + 1)
      /\ Shape(order', edges', extra') /\ extra' \subseteq Extra
      /\ edges' \subseteq All \X All
      /\ \A k \in 1..(idx' - 1) :
           order'[k] \in done \/ (k \in 1..(idx - 1) /\ order'[k] = order[k])
  BY <1>1, ProceedKeeps
<1>6. Behind'
  BY <1>2, <1>5 DEF IInv, Behind
<1>7. Course'
  BY <1>2, <1>3 DEF Course, Complete, Completion
<1>8. Accounts'
  BY <1>2, <1>3, <1>4 DEF IInv, Accounts, Completion
<1>9. TurnsDue'
  BY <1>1, <1>2, <1>4 DEF IInv, TurnsDue, TypeOK, All
<1>10. Awaited'
  <2> SUFFICES ASSUME NEW n \in DOMAIN ReviseTo, stage'[n] = "start",
                      <<ReviseTo[n], n>> \in edges'
               PROVE  ReviseTo[n] \in done' \cup completed' \cup leapt'
    BY DEF Awaited
  <2> DEFINE t == ReviseTo[n]
  <2>1. n \in Nodes /\ t \in Nodes /\ n \in All
    BY WorkflowAssumption DEF All
  <2>2. n \in NextWave(order', idx', edges') /\ idx' <= Len(order')
    BY <1>2, <1>3, <2>1
  <2>3. CASE Ready(order', idx', edges') = {}
    <3>1. n = order'[idx'] /\ idx' \in DOMAIN order'
      BY <1>5, <2>2, <2>3 DEF NextWave
    <3>2. <<t, n>> \in Edges
      BY <1>5, <2>1, WorkflowAssumption DEF Shape
    <3>3. PICK j \in DOMAIN order' : order'[j] = t
      BY <1>5, <3>1, <3>2 DEF Shape
    <3>4. j < idx'
      BY <1>5, <3>1, <3>3 DEF Shape
    <3>5. j \in 1..(idx' - 1)
      BY <1>5, <3>3, <3>4
    <3> QED
      BY <1>6, <3>3, <3>5 DEF Behind
  <2>4. CASE Ready(order', idx', edges') # {}
    <3>1. PICK k \in Ready(order', idx', edges') : n = order'[k]
      BY <2>2, <2>4 DEF NextWave
    <3>2. t \in done
      BY <3>1 DEF Ready
    <3> QED
      BY <1>2, <3>2
  <2> QED
    BY <2>3, <2>4
<1> QED
  BY <1>6, <1>7, <1>8, <1>9, <1>10

LEMMA WaveDoneInv ==
  ASSUME IInv, WaveDone
  PROVE  (Behind /\ Course /\ Accounts /\ TurnsDue /\ Awaited)'
<1>1. TypeOK
  BY DEF IInv, Base
<1>2. /\ phase = "wave" /\ \A n \in Wave : stage[n] \in Ended
      /\ stage' = [n \in All |-> "idle"]
      /\ UNCHANGED <<completed, edges, order, anyDenied, lastEnd>>
      /\ \/ Merged
         \/ pending # None /\ \E target \in Nodes, gate \in Gates : Revise(target, gate)
  BY <1>1, WaveEnds
<1>3. outcome = "running" /\ \A n \in All : stage'[n] = "idle"
  BY <1>2 DEF IInv, Course
<1>4. Awaited'
  BY <1>3, WorkflowAssumption DEF Awaited, All
<1>5. \A t \in owed \ completed : t \in All /\ t \notin done /\ t \notin Wave
  <2> SUFFICES ASSUME NEW t \in owed \ completed, t \in Wave PROVE FALSE
    BY <1>1 DEF IInv, TurnsDue, TypeOK, All
  <2> QED
    BY <1>2 DEF IInv, TurnsDue, Wave, Ended
<1>6. CASE Merged
  <2>1. Behind'
    BY <1>2, <1>6 DEF IInv, Behind, Merged
  <2>2. Course'
    BY <1>2, <1>3, <1>6 DEF Course, Complete, Merged
  <2>3. Accounts'
    <3>1. ASSUME NEW n \in All, stage[n] = "fail" PROVE outcome' \in {"failed", "cancelled"}
      BY <1>6, <3>1 DEF Merged, Has, Wave
    <3> QED
      BY <1>2, <1>3, <1>6, <3>1 DEF IInv, Accounts, Merged
  <2>4. TurnsDue'
    BY <1>2, <1>3, <1>5, <1>6 DEF TurnsDue, Merged
  <2> QED
    BY <1>4, <2>1, <2>2, <2>3, <2>4
<1>7. CASE \E target \in Nodes, gate \in Gates : Revise(target, gate)
  <2>1. PICK target \in Nodes, gate \in Gates : Revise(target, gate)
    BY <1>7
  <2>2. /\ phase' = "boundary" /\ UNCHANGED outcome
        /\ done' = (done \cup Wave) \ {target, gate}
        /\ forgiven' = forgiven \cup {n \in Wave : stage[n] = "fail"}
        /\ owed' = owed \cup {target}
        /\ leapt' = leapt \cup ({order[k] : k \in 1..(idx' - 1)} \ done')
        /\ pending' = None
    BY <1>1, <2>1, ReviseTypes
  <2>3. Behind'
    BY <1>2, <2>2 DEF Behind
  <2>4. Course'
    BY <1>3, <2>2 DEF Course, Complete
  <2>5. Accounts'
    <3>1. \A n \in All : stage[n] = "fail" => n \in forgiven'
      BY <2>2 DEF Wave
    <3> QED
      BY <1>2, <1>3, <2>2, <3>1 DEF IInv, Accounts
  <2>6. TurnsDue'
    BY <1>2, <1>3, <1>5, <2>2, WorkflowAssumption DEF TurnsDue, All
  <2> QED
    BY <1>4, <2>3, <2>4, <2>5, <2>6
<1> QED
  BY <1>2, <1>6, <1>7

LEMMA NextInv ==
  ASSUME IInv, [Next]_vars
  PROVE  IInv'
<1>1. Base /\ TypeOK /\ Base'
  BY NextBase DEF IInv, Base
<1>2. CASE Aside
  <2>1. (Behind /\ Accounts /\ TurnsDue /\ Awaited)'
    BY <1>2 DEF IInv, Aside, Behind, Accounts, TurnsDue, Awaited, run, rev, hist
  <2>2. Course'
    BY <1>2 DEF IInv, Aside, Course, Complete, run
  <2> QED
    BY <1>1, <2>1, <2>2 DEF IInv
<1>3. CASE Stopped
  <2>1. (Behind /\ TurnsDue /\ Awaited)'
    BY <1>3 DEF IInv, Stopped, Finish, Behind, TurnsDue, Awaited, run, hist
  <2>2. Course'
    BY <1>3 DEF IInv, Stopped, Finish, Course, Complete
  <2>3. Accounts'
    BY <1>3 DEF IInv, Stopped, Finish, Accounts, rev, hist
  <2> QED
    BY <1>1, <2>1, <2>2, <2>3 DEF IInv
<1>4. CASE Proceeded
  BY <1>1, <1>4, ProceedInv DEF IInv
<1>5. CASE WaveDone
  BY <1>1, <1>5, WaveDoneInv DEF IInv
<1>6. CASE \E n \in All : Moved(n)
  BY <1>1, <1>6, MovedInv DEF IInv
<1> QED
  BY <1>1, <1>2, <1>3, <1>4, <1>5, <1>6, StepKinds

LEMMA Invariant == Spec => []IInv
BY InitInv, NextInv, PTL DEF Spec

----------------------------------------------------------------------------
(* The refinement.                                                         *)

LEMMA InitKeeps == Init => Promise!Init
<1> SUFFICES ASSUME Init PROVE Promise!Init
  OBVIOUS
<1>1. ToSet(order) \subseteq All
  BY InitBase DEF Base, TypeOK, ToSet
<1> QED
  BY <1>1 DEF Init, Promise!Init

\* What is left to do.
Due == ToSet(order) \ (done \cup leapt)

\* A node's step ends it or is invisible; a boundary and the end of a wave replan, end
\* the run or send it back; the other steps are invisible.
LEMMA StepKeeps ==
  ASSUME IInv, [Next]_vars
  PROVE  [Promise!Next]_(Promise!vars)
<1> USE DEF Promise!Complete, Promise!Verdicts, Promise!Failures
<1>1. Base /\ TypeOK /\ IInv'
  BY NextInv DEF IInv, Base
<1>2. Due' \subseteq All
  BY <1>1 DEF IInv, Base, TypeOK, Due, ToSet
<1>3. ASSUME NEW n \in All, Moved(n)
      PROVE  [Promise!Next]_(Promise!vars)
  <2>1. UNCHANGED <<outcome, forgiven, Due>> /\ outcome = "running"
    BY <1>3 DEF IInv, Course, Moved, Due
  <2>2. CASE lastEnd'[n] = lastEnd[n]
    <3>1. UNCHANGED lastEnd
      BY <1>1, <1>3, <2>2 DEF Moved, TypeOK
    <3>2. UNCHANGED anyDenied
      BY <1>1, <1>3, <2>2 DEF Moved, IInv, Accounts, TypeOK
    <3> QED
      BY <2>1, <3>1, <3>2 DEF Promise!vars, Due
  <2>3. CASE lastEnd'[n] # lastEnd[n]
    <3> DEFINE how == lastEnd'[n]
    <3>1. how \in {"ok", "failed", "denied", "restored", "blocked"}
      BY <1>3, <2>3 DEF Moved
    <3>2. lastEnd' = [lastEnd EXCEPT ![n] = how]
      BY <1>1, <1>3 DEF Moved, TypeOK
    <3>3. anyDenied' = (anyDenied \/ how = "denied")
      BY <1>1, <1>3, <2>3 DEF Moved, TypeOK
    <3> HIDE DEF how
    <3>4. Promise!NodeEnds(n, how)
      BY <2>1, <3>2, <3>3 DEF Promise!NodeEnds, Due
    <3> QED
      BY <3>1, <3>4 DEF Promise!Next
  <2> QED
    BY <2>2, <2>3
<1>4. CASE Proceeded
  <2>1. outcome = "running" /\ \A n \in All : stage[n] = "idle"
    BY <1>4 DEF IInv, Course, Proceeded
  <2>2. /\ UNCHANGED <<anyDenied, lastEnd, forgiven>>
        /\ \/ phase' = "wave" /\ UNCHANGED outcome
           \/ phase' = "ended" /\ outcome' = Completion
           \/ phase' = "ended" /\ outcome' = "failed"
    BY <1>1, <1>4, ProceedEnds DEF Proceeded, hist
  <2>3. CASE UNCHANGED outcome
    <3>1. Promise!Replan
      BY <1>2, <2>1, <2>2, <2>3 DEF Promise!Replan, Due
    <3> QED
      BY <3>1 DEF Promise!Next
  <2>4. CASE outcome' = "failed"
    <3>1. Promise!Finish("failed")
      BY <1>2, <2>1, <2>2, <2>4 DEF Promise!Finish, Due
    <3> QED
      BY <3>1 DEF Promise!Next
  <2>5. CASE outcome' = Completion
    <3>1. Completion \in {"success", "completed_with_denials"}
          /\ (anyDenied <=> Completion = "completed_with_denials")
      BY DEF Completion
    <3>2. Due' = {}
      <4>1. idx' = Len(order') + 1 /\ order' \in Seq(All)
        BY <1>1, <2>5, <3>1 DEF IInv, Course, Complete, Base, TypeOK
      <4>2. \A k \in DOMAIN order' : order'[k] \in done' \cup leapt'
        BY <1>1, <4>1 DEF IInv, Behind
      <4> QED
        BY <4>2 DEF Due, ToSet
    <3>3. \A n \in All : lastEnd[n] \in {"failed", "denied"} => n \in Tolerant \cup forgiven
      BY <2>1 DEF IInv, Accounts
    <3>4. Promise!Finish(Completion)
      BY <2>1, <2>2, <2>5, <3>1, <3>2, <3>3 DEF Promise!Finish, Due
    <3> QED
      BY <3>1, <3>4 DEF Promise!Next
  <2> QED
    BY <2>2, <2>3, <2>4, <2>5
<1>5. CASE WaveDone
  <2>1. /\ phase = "wave" /\ UNCHANGED <<anyDenied, lastEnd>>
        /\ \/ Merged
           \/ pending # None /\ \E target \in Nodes, gate \in Gates : Revise(target, gate)
    BY <1>1, <1>5, WaveEnds
  <2>2. outcome = "running"
    BY <2>1 DEF IInv, Course
  <2>3. CASE Merged
    <3>1. UNCHANGED forgiven /\ outcome' \in {"running", "failed", "cancelled"}
      BY <2>2, <2>3 DEF Merged
    <3>2. CASE outcome' = "running"
      <4>1. Promise!Replan
        BY <1>2, <2>1, <2>2, <3>1, <3>2 DEF Promise!Replan, Due
      <4> QED
        BY <4>1 DEF Promise!Next
    <3>3. CASE outcome' \in {"failed", "cancelled"}
      <4>1. Promise!Finish(outcome')
        BY <1>2, <2>1, <2>2, <3>1, <3>3 DEF Promise!Finish, Due
      <4> QED
        BY <3>3, <4>1 DEF Promise!Next
    <3> QED
      BY <3>1, <3>2, <3>3
  <2>4. CASE pending # None /\ \E target \in Nodes, gate \in Gates : Revise(target, gate)
    <3>1. UNCHANGED outcome /\ forgiven' = forgiven \cup {n \in Wave : stage[n] = "fail"}
      BY <1>1, <2>4, ReviseTypes
    <3>2. anyDenied /\ \A n \in Wave : stage[n] = "fail" => lastEnd[n] \in {"failed", "denied"}
      BY <2>4 DEF IInv, Accounts, Wave
    <3>3. Promise!Rewind
      BY <1>2, <2>1, <2>2, <3>1, <3>2 DEF Promise!Rewind, Wave, Due
    <3> QED
      BY <3>3 DEF Promise!Next
  <2> QED
    BY <2>1, <2>3, <2>4
<1>6. CASE Stopped
  <2>1. outcome = "running" /\ outcome' = "cancelled"
    BY <1>6 DEF IInv, Course, Stopped, Finish
  <2>2. UNCHANGED <<anyDenied, lastEnd, forgiven>>
    BY <1>6 DEF Stopped, hist
  <2>3. Promise!Finish("cancelled")
    BY <1>2, <2>1, <2>2 DEF Promise!Finish, Due
  <2> QED
    BY <2>3 DEF Promise!Next
<1>7. CASE Aside
  BY <1>7 DEF Aside, run, hist, Promise!vars
<1> QED
  BY <1>1, <1>3, <1>4, <1>5, <1>6, <1>7, StepKinds

(* The run loop implements RunPromise: every step of it is a step of the   *)
(* promise or invisible there.                                             *)
THEOREM RunKeepsPromise == Spec => KeepsPromise
<1>1. IInv /\ [Next]_vars => [Promise!Next]_(Promise!vars)
  BY StepKeeps
<1> QED
  BY Invariant, InitKeeps, <1>1, PTL DEF Spec, KeepsPromise, Promise!Spec

\* What the promise says of every run that has one: its outcome is honest.
LEMMA PromiseIsHonest == Promise!Spec => []Promise!Honest
<1> DEFINE Told == /\ \A n \in All : lastEnd[n] = "denied" => anyDenied
                   /\ forgiven # {} => anyDenied
                   /\ Promise!Honest
<1> USE DEF Promise!Honest, Promise!Complete, Promise!Failures
<1>1. Promise!Init => Told
  BY DEF Promise!Init
<1>2. Told /\ [Promise!Next]_(Promise!vars) => Told'
  <2> SUFFICES ASSUME Told, [Promise!Next]_(Promise!vars) PROVE Told'
    OBVIOUS
  <2>1. ASSUME NEW n \in All, NEW how \in Promise!Verdicts, Promise!NodeEnds(n, how)
        PROVE  Told'
    <3>1. \A m \in All : lastEnd'[m] = "denied" => lastEnd[m] = "denied" \/ how = "denied"
      BY <2>1 DEF Promise!NodeEnds
    <3> QED
      BY <2>1, <3>1 DEF Promise!NodeEnds
  <2>2. CASE Promise!Replan
    BY <2>2 DEF Promise!Replan
  <2>3. CASE Promise!Rewind
    BY <2>3 DEF Promise!Rewind
  <2>4. ASSUME NEW how, Promise!Finish(how) PROVE Told'
    BY <2>4 DEF Promise!Finish
  <2>5. CASE UNCHANGED Promise!vars
    BY <2>5 DEF Promise!vars
  <2> QED
    BY <2>1, <2>2, <2>3, <2>4, <2>5 DEF Promise!Next
<1>3. Told => Promise!Honest
  OBVIOUS
<1> HIDE DEF Told
<1> QED
  BY <1>1, <1>2, <1>3, PTL DEF Promise!Spec

(* A run that reports success had no denial, and no failure of a node that *)
(* must not fail; one that completes with denials had some, and each other *)
(* failure was excused by a revision.                                      *)
THEOREM CompletionHonest == Spec => []Promise!Honest
BY RunKeepsPromise, PromiseIsHonest, PTL DEF KeepsPromise

----------------------------------------------------------------------------
(* The properties.                                                         *)

(* A run that completes has run every node of its order, except the nodes  *)
(* that a rewind jumped over.                                              *)
THEOREM CompletionWhole == Spec => []CompletionIsWhole
<1>1. IInv => CompletionIsWhole
  <2> SUFFICES ASSUME IInv, Complete, NEW n \in ToSet(order) PROVE n \in done \cup leapt
    BY DEF CompletionIsWhole
  <2>1. order \in Seq(All) /\ idx = Len(order) + 1
    BY DEF IInv, Base, TypeOK, Course
  <2>2. PICK k \in 1..Len(order) : order[k] = n
    BY <2>1 DEF ToSet
  <2> QED
    BY <2>1, <2>2 DEF IInv, Behind
<1> QED
  BY Invariant, <1>1, PTL

(* A gate that sent a direct predecessor back asks again only after that   *)
(* node has had its turn, unless it is restored or was jumped over.        *)
THEOREM GateRework == Spec => GateSeesRework
<1> DEFINE Sees ==
      \A n \in DOMAIN ReviseTo :
        (stage[n] = "start" /\ stage'[n] = "asking" /\ ReviseTo[n] \in Preds(n))
          => ReviseTo[n] \in completed \cup leapt \/ ReviseTo[n] \notin owed
<1>1. IInv => Sees
  <2> SUFFICES ASSUME IInv, NEW n \in DOMAIN ReviseTo, stage[n] = "start",
                      ReviseTo[n] \in Preds(n)
               PROVE  ReviseTo[n] \in completed \cup leapt \/ ReviseTo[n] \notin owed
    OBVIOUS
  <2>1. <<ReviseTo[n], n>> \in edges
    <3>1. PICK e \in edges : e[1] = ReviseTo[n] /\ e[2] = n
      BY DEF Preds
    <3>2. e \in All \X All
      BY <3>1 DEF IInv, Base, TypeOK
    <3> QED
      BY <3>1, <3>2
  <2> QED
    BY <2>1 DEF IInv, Awaited, TurnsDue
<1> HIDE DEF Sees
<1>2. Spec => [][Sees]_vars
  BY Invariant, <1>1, PTL
<1> QED
  BY <1>2 DEF GateSeesRework, Sees

\* The least of a set of naturals is the one that none of the set is below.
LEMMA NoneBelow ==
  ASSUME NEW S, S \subseteq Nat, NEW j \in S, Cardinality({l \in S : l < j}) < 1
  PROVE  \A l \in S : j <= l
<1> DEFINE B == {l \in S : l < j}
<1>1. IsFiniteSet(B)
  <2>1. j \in Nat /\ B \in SUBSET Nat
    OBVIOUS
  <2>2. ASSUME NEW b \in B PROVE b <= j
    <3>1. b \in Nat /\ b < j /\ j \in Nat
      OBVIOUS
    <3> QED
      BY <3>1
  <2> HIDE DEF B
  <2> QED
    BY <2>1, <2>2, FS_BoundedSetOfNaturals
<1>2. Cardinality(B) \in Nat /\ Cardinality(B) < 1
  BY <1>1, FS_CardinalityType
<1>3. B = {}
  BY <1>1, <1>2, FS_EmptySet
<1> QED
  BY <1>3

(* At concurrency 1 the loop repeats a done node only when it was sent     *)
(* back, or when the node at the cursor waits for one that will never run: *)
(* a skipped one, or one that a rewind jumped over.                        *)
THEOREM SerialOnce == Spec => SerialRunsOnce
<1> DEFINE Once ==
      \A n \in done : conc = 1 /\ stage[n] = "idle" /\ stage'[n] # "idle"
        => \E p \in (leapt \cup (All \ ToSet(order'))) \ done :
             <<p, order'[idx']>> \in edges'
<1>1. IInv /\ [Next]_vars => Once
  <2> SUFFICES ASSUME IInv, [Next]_vars, NEW n \in done, conc = 1,
                      stage[n] = "idle", stage'[n] # "idle"
               PROVE  \E p \in (leapt \cup (All \ ToSet(order'))) \ done :
                        <<p, order'[idx']>> \in edges'
    OBVIOUS
  <2>1. Base /\ TypeOK /\ n \in All
    BY DEF IInv, Base, TypeOK
  <2>2. Proceeded
    <3>1. ~Aside /\ ~Stopped
      BY DEF Aside, Stopped, Finish
    <3>2. ~WaveDone
      BY <2>1, WaveEnds
    <3>3. ~\E m \in All : Moved(m)
      BY <2>1 DEF Moved
    <3> QED
      BY <2>1, <3>1, <3>2, <3>3, StepKinds
  <2>3. /\ idx' <= Len(order') /\ n \in NextWave(order', idx', edges')
        /\ UNCHANGED <<done, leapt>>
    BY <2>1, <2>2, ProceedEnds DEF Proceeded, hist
  <2>4. /\ order' \in Seq(All) /\ idx' \in 1..(Len(order') + 1)
        /\ Shape(order', edges', extra') /\ edges' \subseteq All \X All
        /\ idx' = Len(order') + 1 \/ order'[idx'] \notin done
    BY <2>1, <2>2, ProceedKeeps DEF Proceeded
  <2>5. order'[idx'] \notin done /\ idx' \in DOMAIN order'
    BY <2>3, <2>4
  <2> DEFINE R == Ready(order', idx', edges')
  <2>6. R \subseteq idx'..Len(order') /\ R \subseteq Nat
    BY <2>4 DEF Ready
  <2>7. idx' \notin R
    <3> SUFFICES ASSUME idx' \in R PROVE FALSE
      OBVIOUS
    <3>1. PICK k \in R : n = order'[k] /\ Cardinality({l \in R : l < k}) < conc
      BY <2>3 DEF NextWave
    <3> HIDE DEF R
    <3>2. k <= idx'
      BY <2>6, <3>1, NoneBelow
    <3> QED
      BY <2>4, <2>5, <2>6, <3>1, <3>2
  <2>8. PICK e \in edges' : e[2] = order'[idx'] /\ e[1] \notin done
    BY <2>3, <2>4, <2>7 DEF Ready
  <2>9. e \in All \X All /\ e = <<e[1], order'[idx']>> /\ e[1] \in All
    BY <2>4, <2>8
  <2>10. e[1] \in ToSet(order') => e[1] \in leapt
    <3> SUFFICES ASSUME e[1] \in ToSet(order') PROVE e[1] \in leapt
      OBVIOUS
    <3>1. PICK j \in DOMAIN order' : order'[j] = e[1]
      BY DEF ToSet
    <3>2. j < idx'
      BY <2>4, <2>5, <2>8, <2>9, <3>1 DEF Shape
    <3>3. j \in 1..(idx' - 1)
      BY <2>4, <3>1, <3>2
    <3>4. Behind'
      BY <2>2, ProceedInv
    <3> QED
      BY <2>3, <2>8, <3>1, <3>3, <3>4 DEF Behind
  <2> QED
    BY <2>8, <2>9, <2>10
<1> HIDE DEF Once
<1>2. Spec => [][Once]_vars
  BY Invariant, <1>1, PTL DEF Spec
<1> QED
  BY <1>2 DEF SerialRunsOnce, Once

(* The output of a node that stays done is taken from its successors only  *)
(* by a denial, of the node or of a direct predecessor.                    *)
THEOREM OutputsStay == Spec => OutputsKept
<1> DEFINE Kept ==
      \A n \in passed \ passed' :
        (n \in done' /\ lastEnd[n] \in {"ok", "restored"})
          => \E p \in Preds(n) \cup {n} : lastEnd'[p] = "denied"
<1>1. IInv /\ [Next]_vars => Kept
  <2> SUFFICES ASSUME IInv, [Next]_vars, NEW n \in passed \ passed', n \in done'
               PROVE  \E p \in Preds(n) \cup {n} : lastEnd'[p] = "denied"
    OBVIOUS
  <2>1. Base /\ TypeOK
    BY DEF IInv, Base
  <2>2. ~Aside /\ ~Stopped
    BY DEF Aside, Stopped, data
  <2>3. ~Proceeded
    BY <2>1, ProceedKeeps DEF Proceeded
  <2>4. ~WaveDone
    <3> SUFFICES ASSUME WaveDone PROVE FALSE
      OBVIOUS
    <3>1. ~Merged
      BY DEF Merged, data
    <3>2. PICK target \in Nodes, gate \in Gates : Revise(target, gate)
      BY <2>1, <3>1, WaveEnds
    <3> QED
      BY <2>1, <3>2, ReviseTypes
  <2>5. PICK m \in All : Moved(m)
    BY <2>1, <2>2, <2>3, <2>4, StepKinds
  <2>6. lastEnd'[m] = "denied" /\ (n = m \/ <<m, n>> \in edges)
    BY <2>5 DEF Moved
  <2>7. <<m, n>> \in edges => m \in Preds(n)
    BY DEF Preds
  <2> QED
    BY <2>6, <2>7
<1> HIDE DEF Kept
<1>2. Spec => [][Kept]_vars
  BY Invariant, <1>1, PTL DEF Spec
<1> QED
  BY <1>2 DEF OutputsKept, Kept
=============================================================================
