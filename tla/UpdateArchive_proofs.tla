------------------------ MODULE UpdateArchive_proofs ------------------------
EXTENDS UpdateArchive, TLAPS, FiniteSetTheorems

-----------------------------------------------------------------------------
(* Induction, by least counterexamples.                                    *)

Within(U, T) == U \subseteq T /\ U # T

(* A set of finite sets has a least one.                                   *)
LEMMA LeastSet ==
  ASSUME NEW S, NEW B, B \subseteq FiniteSubsetsOf(S), B # {}
  PROVE  \E T \in B : \A U \in B : ~Within(U, T)
<1>1. PICK T \in B : \A U \in B : ~(<<U, T>> \in StrictSubsetOrdering(S))
  BY FS_StrictSubsetOrderingWellFounded, WFMin
<1>2. B \subseteq SUBSET S
  BY DEF FiniteSubsetsOf
<1> QED BY <1>1, <1>2 DEF StrictSubsetOrdering, Within

(* A set of numbers has a least one.                                       *)
LEMMA LeastNumber ==
  ASSUME NEW T \in SUBSET Nat, T # {}
  PROVE  \E n \in T : \A m \in T : n <= m
<1> DEFINE B == {1..n : n \in T}
<1>1. B \subseteq FiniteSubsetsOf(Nat)
  <2> SUFFICES ASSUME NEW n \in T PROVE 1..n \subseteq Nat /\ IsFiniteSet(1..n)
    BY DEF FiniteSubsetsOf
  <2> QED BY FS_Interval
<1>2. B # {}
  OBVIOUS
<1>3. PICK x \in B : \A y \in B : ~Within(y, x)
  <2> HIDE DEF B
  <2> QED BY <1>1, <1>2, LeastSet
<1>4. PICK n \in T : x = 1..n
  OBVIOUS
<1>5. ASSUME NEW m \in T, m < n PROVE FALSE
  <2>1. 1..m \in B
    OBVIOUS
  <2>2. 1..m \subseteq 1..n /\ n \in 1..n /\ n \notin 1..m
    BY <1>5
  <2> QED BY <2>1, <2>2, <1>3, <1>4 DEF Within
<1> QED BY <1>5

(* A finite set with an order has a last element, ...                      *)
LEMMA LastElement ==
  ASSUME NEW S, IsFiniteSet(S), S # {}, NEW R,
         \A x, y \in S : x # y => <<x, y>> \in R \/ <<y, x>> \in R,
         \A x, y, z \in S : <<x, y>> \in R /\ <<y, z>> \in R => <<x, z>> \in R
  PROVE  \E x \in S : \A y \in S : y # x => <<y, x>> \in R
<1> DEFINE Latest(T, x) == x \in T /\ \A y \in T : y # x => <<y, x>> \in R
           B == {T \in SUBSET S : T # {} /\ ~\E x \in T : Latest(T, x)}
<1> SUFFICES ASSUME B # {} PROVE FALSE
  OBVIOUS
<1>1. B \subseteq FiniteSubsetsOf(S)
  BY FS_Subset DEF FiniteSubsetsOf
<1>2. PICK T \in B : \A U \in B : ~Within(U, T)
  <2> HIDE DEF B
  <2> QED BY <1>1, LeastSet
<1>3. PICK a \in T : TRUE
  OBVIOUS
<1>4. CASE T = {a}
  BY <1>4
<1>5. CASE T # {a}
  <2>0. T \ {a} \in SUBSET S /\ T \ {a} # {} /\ T \ {a} # T /\ T \ {a} \subseteq T
    BY <1>3, <1>5
  <2>1. T \ {a} \notin B
    <3> HIDE DEF B
    <3> QED BY <1>2, <2>0 DEF Within
  <2>2. PICK b \in T \ {a} : Latest(T \ {a}, b)
    BY <2>0, <2>1
  <2>3. CASE <<a, b>> \in R
    BY <2>2, <2>3
  <2>4. CASE <<b, a>> \in R
    <3>1. \A y \in T : y # a => <<y, a>> \in R
      BY <2>2, <2>4
    <3> QED BY <3>1
  <2> QED BY <2>2, <2>3, <2>4
<1> QED BY <1>4, <1>5

(* ... and can be written down in this order.                              *)
LEMMA SortedSequence ==
  ASSUME NEW S, IsFiniteSet(S), NEW R,
         \A x, y \in S : x # y => <<x, y>> \in R \/ <<y, x>> \in R,
         \A x, y, z \in S : <<x, y>> \in R /\ <<y, z>> \in R => <<x, z>> \in R
  PROVE  \E q \in [1..Cardinality(S) -> S] :
           \A m, n \in 1..Cardinality(S) : m < n => <<q[m], q[n]>> \in R
<1> DEFINE Ordered(q, T) == /\ q \in [1..Cardinality(T) -> T]
                            /\ \A m, n \in 1..Cardinality(T) : m < n => <<q[m], q[n]>> \in R
           B == {T \in SUBSET S : ~\E q : Ordered(q, T)}
<1> SUFFICES ASSUME B # {} PROVE FALSE
  OBVIOUS
<1>1. B \subseteq FiniteSubsetsOf(S)
  BY FS_Subset DEF FiniteSubsetsOf
<1>2. PICK T \in B : \A U \in B : ~Within(U, T)
  <2> HIDE DEF B
  <2> QED BY <1>1, LeastSet
<1>3. CASE T = {}
  <2>1. Ordered([n \in 1..0 |-> 0], T)
    BY <1>3, FS_EmptySet
  <2> QED BY <2>1
<1>4. CASE T # {}
  <2>1. PICK x \in T : \A y \in T : y # x => <<y, x>> \in R
    <3> HIDE DEF B
    <3> QED BY <1>1, <1>2, <1>4, LastElement DEF FiniteSubsetsOf
  <2>2. T \ {x} \in SUBSET S /\ T \ {x} # T /\ T \ {x} \subseteq T
    OBVIOUS
  <2> T \ {x} \notin B
    <3> HIDE DEF B
    <3> QED BY <1>2, <2>2 DEF Within
  <2>3. PICK q : Ordered(q, T \ {x})
    BY <2>2
  <2> DEFINE N == Cardinality(T \ {x})
             r == [n \in 1..(N + 1) |-> IF n = N + 1 THEN x ELSE q[n]]
  <2>4. N \in Nat /\ Cardinality(T) = N + 1
    BY <1>1, FS_RemoveElement, FS_CardinalityType DEF FiniteSubsetsOf
  <2>5. q \in [1..N -> T \ {x}] /\ \A m, n \in 1..N : m < n => <<q[m], q[n]>> \in R
    BY <2>3
  <2> HIDE DEF N
  <2>6. r \in [1..(N + 1) -> T] /\ \A m, n \in 1..(N + 1) : m < n => <<r[m], r[n]>> \in R
    <3>1. r \in [1..(N + 1) -> T]
      BY <2>4, <2>5
    <3>2. ASSUME NEW m \in 1..(N + 1), NEW n \in 1..(N + 1), m < n PROVE <<r[m], r[n]>> \in R
      <4>1. m \in 1..N /\ r[m] = q[m] /\ q[m] \in T \ {x}
        BY <2>4, <2>5, <3>2
      <4>2. CASE n = N + 1
        BY <2>1, <4>1, <4>2
      <4>3. CASE n # N + 1
        BY <2>4, <2>5, <3>2, <4>1, <4>3
      <4> QED BY <4>2, <4>3
    <3> QED BY <3>1, <3>2
  <2>7. Ordered(r, T)
    <3> HIDE DEF r
    <3> QED BY <2>4, <2>6
  <2> QED BY <2>7
<1> QED BY <1>3, <1>4

(* A sequence of different elements has every one.                         *)
LEMMA DistinctHasAll ==
  ASSUME NEW S, IsFiniteSet(S), NEW q \in [1..Cardinality(S) -> S],
         \A m, n \in 1..Cardinality(S) : m < n => q[m] # q[n]
  PROVE  \A x \in S : \E n \in 1..Cardinality(S) : q[n] = x
<1>1. Cardinality(S) \in Nat
  BY FS_CardinalityType
<1>2. \A m, n \in 1..Cardinality(S) : q[m] = q[n] => m = n
  <2> SUFFICES ASSUME NEW m \in 1..Cardinality(S), NEW n \in 1..Cardinality(S),
                      q[m] = q[n], m # n
               PROVE  FALSE
    OBVIOUS
  <2>1. m < n \/ n < m
    BY <1>1
  <2> QED BY <2>1
<1>3. q \in Injection(1..Cardinality(S), S)
  BY <1>2 DEF Injection, IsInjective
<1>4. Cardinality(1..Cardinality(S)) = Cardinality(S)
  BY <1>1, FS_Interval
<1>5. q \in Surjection(1..Cardinality(S), S)
  BY <1>3, <1>4, FS_Injection
<1> QED BY <1>2, <1>5 DEF Surjection

-----------------------------------------------------------------------------
(* The orders of UpdatePairs.                                              *)

IsEntry(x) == x.name \in Nat /\ x.isDir \in BOOLEAN

LEMMA BeforeIsOrder ==
  /\ \A x, y : IsEntry(x) /\ IsEntry(y) => Before(x, y) \/ Before(y, x) \/ Same(x, y)
  /\ \A x, y : IsEntry(x) /\ IsEntry(y) /\ Before(x, y) => ~Same(x, y) /\ ~Same(y, x) /\ ~Before(y, x)
  /\ \A x, y, z : IsEntry(x) /\ IsEntry(y) /\ IsEntry(z) =>
       /\ Before(x, y) /\ (Before(y, z) \/ Same(y, z)) => Before(x, z)
       /\ Same(x, y) /\ Before(y, z) => Before(x, z)
       /\ Same(x, y) /\ Same(y, z) => Same(x, z)
       /\ Same(x, y) => Same(y, x)
<1>1. \A x, y : IsEntry(x) /\ IsEntry(y) => Before(x, y) \/ Before(y, x) \/ Same(x, y)
  BY DEF IsEntry, Before, Same
<1>2. \A x, y : IsEntry(x) /\ IsEntry(y) /\ Before(x, y) => ~Same(x, y) /\ ~Same(y, x) /\ ~Before(y, x)
  BY DEF IsEntry, Before, Same
<1>3. \A x, y, z : IsEntry(x) /\ IsEntry(y) /\ IsEntry(z) =>
       /\ Before(x, y) /\ (Before(y, z) \/ Same(y, z)) => Before(x, z)
       /\ Same(x, y) /\ Before(y, z) => Before(x, z)
       /\ Same(x, y) /\ Same(y, z) => Same(x, z)
       /\ Same(x, y) => Same(y, x)
  BY DEF IsEntry, Before, Same
<1> QED BY <1>1, <1>2, <1>3

Files(dirs) ==
  /\ IsFiniteSet(dirs) /\ dirs \subseteq DirItemType
  /\ \A x, y \in dirs : x.path = y.path => x = y

LEMMA DirOrderSorts ==
  ASSUME NEW dirs, Files(dirs)
  PROVE  LET D == DirOrder(dirs)  N == Cardinality(dirs) IN
         /\ N \in Nat /\ D \in [1..N -> dirs] /\ D \in Seq(dirs) /\ Len(D) = N
         /\ \A m, n \in 1..N : m < n => DirBefore(D[m], D[n])
         /\ \A d \in dirs : \E n \in 1..N : D[n] = d
<1> DEFINE D == DirOrder(dirs)
           N == Cardinality(dirs)
           R == {p \in dirs \X dirs : DirBefore(p[1], p[2])}
<1>0. \A x, y \in dirs : <<x, y>> \in R <=> DirBefore(x, y)
  OBVIOUS
<1>1. \A d \in dirs : d.name \in Nat /\ d.path \in Nat
  BY DEF Files, DirItemType
<1>2. \A x, y \in dirs : x # y => <<x, y>> \in R \/ <<y, x>> \in R
  BY <1>0, <1>1 DEF Files, DirBefore
<1>3. \A x, y, z \in dirs : <<x, y>> \in R /\ <<y, z>> \in R => <<x, z>> \in R
  BY <1>0, <1>1 DEF DirBefore
<1>4. \A x \in dirs : <<x, x>> \notin R
  BY <1>0, <1>1 DEF DirBefore
<1> HIDE DEF R
<1>5. \E q \in [1..N -> dirs] : \A m, n \in 1..N : m < n => <<q[m], q[n]>> \in R
  BY <1>2, <1>3, SortedSequence DEF Files
<1>6. D \in [1..N -> dirs] /\ \A m, n \in 1..N : m < n => DirBefore(D[m], D[n])
  <2>1. \E q \in [1..N -> dirs] : \A m, n \in DOMAIN q : m < n => DirBefore(q[m], q[n])
    BY <1>0, <1>5
  <2>2. D \in [1..N -> dirs] /\ \A m, n \in DOMAIN D : m < n => DirBefore(D[m], D[n])
    BY <2>1 DEF DirOrder
  <2> QED BY <2>2
<1>7. N \in Nat
  BY FS_CardinalityType DEF Files
<1>8. \A d \in dirs : \E n \in 1..N : D[n] = d
  <2>1. \A m, n \in 1..N : m < n => D[m] # D[n]
    BY <1>0, <1>4, <1>6
  <2>2. IsFiniteSet(dirs)
    BY DEF Files
  <2> HIDE DEF D
  <2> QED BY <1>6, <2>1, <2>2, DistinctHasAll
<1> QED BY <1>6, <1>7, <1>8

LEMMA ArcOrderSorts ==
  ASSUME NEW items \in Seq(ItemType)
  PROVE  LET A == ArcOrder(items)  M == Len(items) IN
         /\ M \in Nat /\ A \in [1..M -> 1..M] /\ A \in Seq(1..M) /\ Len(A) = M
         /\ \A m, n \in 1..M : m < n => ArcBefore(items, A[m], A[n])
         /\ \A i \in 1..M : \E n \in 1..M : A[n] = i
<1> DEFINE A == ArcOrder(items)
           M == Len(items)
           S == 1..M
           R == {p \in S \X S : ArcBefore(items, p[1], p[2])}
<1>0. \A i, j \in S : <<i, j>> \in R <=> ArcBefore(items, i, j)
  OBVIOUS
<1>1. M \in Nat /\ DOMAIN items = S /\ \A i \in S : IsEntry(items[i])
  <2>1. \A a \in ItemType : IsEntry(a)
    BY DEF ItemType, IsEntry
  <2> QED BY <2>1
<1>2. IsFiniteSet(S) /\ Cardinality(S) = M
  BY <1>1, FS_Interval
<1>3. \A i, j \in S : i # j => <<i, j>> \in R \/ <<j, i>> \in R
  BY <1>0, <1>1, BeforeIsOrder DEF ArcBefore
<1>4. \A i, j, l \in S : <<i, j>> \in R /\ <<j, l>> \in R => <<i, l>> \in R
  BY <1>0, <1>1, BeforeIsOrder DEF ArcBefore
<1>5. \A i \in S : <<i, i>> \notin R
  BY <1>0, <1>1, BeforeIsOrder DEF ArcBefore
<1> HIDE DEF R
<1>6. \E q \in [S -> S] : \A m, n \in S : m < n => <<q[m], q[n]>> \in R
  <2> HIDE DEF S
  <2>1. \E q \in [1..Cardinality(S) -> S] :
           \A m, n \in 1..Cardinality(S) : m < n => <<q[m], q[n]>> \in R
    BY <1>2, <1>3, <1>4, SortedSequence
  <2> QED BY <1>2, <2>1 DEF S
<1>7. A \in [S -> S] /\ \A m, n \in S : m < n => ArcBefore(items, A[m], A[n])
  <2>1. \E q \in [S -> S] : \A m, n \in DOMAIN q : m < n => ArcBefore(items, q[m], q[n])
    BY <1>0, <1>6
  <2>2. A \in [S -> S] /\ \A m, n \in DOMAIN A : m < n => ArcBefore(items, A[m], A[n])
    BY <1>1, <2>1 DEF ArcOrder
  <2> QED BY <2>2
<1>8. \A i \in S : \E n \in S : A[n] = i
  <2>1. \A m, n \in S : m < n => A[m] # A[n]
    BY <1>0, <1>5, <1>7
  <2> HIDE DEF A, S
  <2>2. A \in [1..Cardinality(S) -> S] /\ \A m, n \in 1..Cardinality(S) : m < n => A[m] # A[n]
    BY <1>2, <1>7, <2>1 DEF S
  <2>3. \A i \in S : \E n \in 1..Cardinality(S) : A[n] = i
    BY <1>2, <2>2, DistinctHasAll
  <2> QED BY <1>2, <2>3 DEF S
<1> QED BY <1>1, <1>7, <1>8, SMTT(30)

-----------------------------------------------------------------------------
(* The merge, as a function that is known to exist.                        *)

MergeStep(arc, masked, D, A, merge, x, y) ==
  CASE x > Len(D) /\ y > Len(A) -> <<>>
    [] x <= Len(D) /\ (y <= Len(A) => Before(D[x], arc[A[y]])) ->
         <<Pair("onlyOnDisk", D[x].path, None)>> \o merge[<<x + 1, y>>]
    [] y <= Len(A) /\ (x <= Len(D) => Before(arc[A[y]], D[x])) ->
         <<Pair(IF arc[A[y]].name \in masked THEN "onlyInArchive" ELSE "notMasked", None, A[y])>>
         \o merge[<<x, y + 1>>]
    [] OTHER ->
         IF Duplicated(A, arc, y) \/ arc[A[y]].name \notin masked THEN <<Error>>
         ELSE <<Pair(StateOfBoth(D[x], arc[A[y]]), D[x].path, A[y])>>
              \o merge[<<x + 1, y + 1>>]

Places(D, A) == (1..(Len(D) + 1)) \X (1..(Len(A) + 1))
Left(D, A, p) == (Len(D) + 1 - p[1]) + (Len(A) + 1 - p[2])

AgreeAhead(D, A, f, g, p) ==
  \A q \in Places(D, A) : Left(D, A, q) < Left(D, A, p) => f[q] = g[q]

LEMMA MergeLooksAhead ==
  ASSUME NEW arc, NEW masked, NEW D, NEW A, Len(D) \in Nat, Len(A) \in Nat,
         NEW f, NEW g, NEW p \in Places(D, A), AgreeAhead(D, A, f, g, p)
  PROVE  MergeStep(arc, masked, D, A, f, p[1], p[2]) = MergeStep(arc, masked, D, A, g, p[1], p[2])
<1> DEFINE x == p[1]
           y == p[2]
<1>1. x \in 1..(Len(D) + 1) /\ y \in 1..(Len(A) + 1) /\ p = <<x, y>>
  BY DEF Places
<1>2. ASSUME NEW a \in 1..(Len(D) + 1), NEW b \in 1..(Len(A) + 1),
             (Len(D) + 1 - a) + (Len(A) + 1 - b) < (Len(D) + 1 - x) + (Len(A) + 1 - y)
      PROVE  f[<<a, b>>] = g[<<a, b>>]
  <2>1. <<a, b>> \in Places(D, A) /\ Left(D, A, <<a, b>>) < Left(D, A, p)
    BY <1>2 DEF Places, Left
  <2> QED BY <2>1 DEF AgreeAhead
<1>3. x <= Len(D) => f[<<x + 1, y>>] = g[<<x + 1, y>>]
  <2> HIDE DEF x, y
  <2> SUFFICES ASSUME x <= Len(D) PROVE f[<<x + 1, y>>] = g[<<x + 1, y>>]
    OBVIOUS
  <2>1. x + 1 \in 1..(Len(D) + 1) /\ (Len(D) + 1 - (x + 1)) + (Len(A) + 1 - y) < (Len(D) + 1 - x) + (Len(A) + 1 - y)
    BY <1>1
  <2> QED BY <1>1, <1>2, <2>1
<1>4. y <= Len(A) => f[<<x, y + 1>>] = g[<<x, y + 1>>]
  <2> HIDE DEF x, y
  <2> SUFFICES ASSUME y <= Len(A) PROVE f[<<x, y + 1>>] = g[<<x, y + 1>>]
    OBVIOUS
  <2>1. y + 1 \in 1..(Len(A) + 1) /\ (Len(D) + 1 - x) + (Len(A) + 1 - (y + 1)) < (Len(D) + 1 - x) + (Len(A) + 1 - y)
    BY <1>1
  <2> QED BY <1>1, <1>2, <2>1
<1>5. x <= Len(D) /\ y <= Len(A) => f[<<x + 1, y + 1>>] = g[<<x + 1, y + 1>>]
  <2> HIDE DEF x, y
  <2> SUFFICES ASSUME x <= Len(D), y <= Len(A) PROVE f[<<x + 1, y + 1>>] = g[<<x + 1, y + 1>>]
    OBVIOUS
  <2>1. /\ x + 1 \in 1..(Len(D) + 1) /\ y + 1 \in 1..(Len(A) + 1)
        /\ (Len(D) + 1 - (x + 1)) + (Len(A) + 1 - (y + 1)) < (Len(D) + 1 - x) + (Len(A) + 1 - y)
    BY <1>1
  <2> QED BY <1>1, <1>2, <2>1
<1>6. x > Len(D) \/ x <= Len(D)
  BY <1>1
<1>7. y > Len(A) \/ y <= Len(A)
  BY <1>1
<1> HIDE DEF x, y
<1>8. MergeStep(arc, masked, D, A, f, x, y) = MergeStep(arc, masked, D, A, g, x, y)
  <2>1. CASE x > Len(D) /\ y > Len(A)
    BY <1>1, <2>1 DEF MergeStep
  <2>2. CASE x <= Len(D) /\ y > Len(A)
    BY <1>1, <1>3, <2>2 DEF MergeStep
  <2>3. CASE x > Len(D) /\ y <= Len(A)
    BY <1>1, <1>4, <2>3 DEF MergeStep
  <2>4. CASE x <= Len(D) /\ y <= Len(A)
    BY <1>1, <1>3, <1>4, <1>5, <2>4 DEF MergeStep
  <2> QED BY <1>6, <1>7, <2>1, <2>2, <2>3, <2>4
<1> QED BY <1>8 DEF x, y

MergeAll(arc, masked, D, A, f) ==
  [p \in Places(D, A) |-> MergeStep(arc, masked, D, A, f, p[1], p[2])]

LEMMA MergeExists ==
  ASSUME NEW arc, NEW masked, NEW D, NEW A, Len(D) \in Nat, Len(A) \in Nat
  PROVE  \E f : f = MergeAll(arc, masked, D, A, f)
<1> DEFINE P == Places(D, A)
           Step(f, p) == MergeStep(arc, masked, D, A, f, p[1], p[2])
           Upto(f, n) == \A p \in P : Left(D, A, p) <= n => f[p] = Step(f, p)
           B == {n \in Nat : ~\E f : Upto(f, n)}
<1>1. \A p \in P : Left(D, A, p) \in 0..(Len(D) + Len(A))
  BY DEF Left, Places
<1>2. B = {}
  <2> SUFFICES ASSUME B # {} PROVE FALSE
    OBVIOUS
  <2>1. PICK n \in B : \A m \in B : n <= m
    <3> HIDE DEF B
    <3>1. B \in SUBSET Nat
      BY DEF B
    <3> QED BY <3>1, LeastNumber
  <2>2. PICK f : \A p \in P : Left(D, A, p) < n => f[p] = Step(f, p)
    <3>1. CASE n = 0
      <4>1. \A p \in P : ~(Left(D, A, p) < n)
        BY <1>1, <3>1
      <4> QED BY <4>1
    <3>2. CASE n # 0
      <4>1. n - 1 \in Nat /\ n - 1 \notin B
        BY <2>1, <3>2
      <4>2. PICK f : Upto(f, n - 1)
        BY <4>1
      <4>3. \A p \in P : Left(D, A, p) < n => Left(D, A, p) <= n - 1
        BY <1>1, <4>1
      <4> QED BY <4>2, <4>3
    <3> QED BY <3>1, <3>2
  <2> DEFINE g == [p \in P |-> IF Left(D, A, p) < n THEN f[p] ELSE Step(f, p)]
  <2>3. ASSUME NEW p \in P, Left(D, A, p) <= n PROVE g[p] = Step(g, p)
    <3>1. \A q \in P : Left(D, A, q) < Left(D, A, p) => g[q] = f[q]
      BY <1>1, <2>3
    <3>2. Step(g, p) = Step(f, p)
      <4> HIDE DEF g
      <4>1. p \in Places(D, A) /\ AgreeAhead(D, A, g, f, p)
        BY <3>1 DEF AgreeAhead
      <4> HIDE DEF P, Upto, B
      <4>2. MergeStep(arc, masked, D, A, g, p[1], p[2]) = MergeStep(arc, masked, D, A, f, p[1], p[2])
        BY <4>1, MergeLooksAhead
      <4> QED BY <4>2
    <3>3. g[p] = IF Left(D, A, p) < n THEN f[p] ELSE Step(f, p)
      OBVIOUS
    <3> HIDE DEF g, Step
    <3> QED BY <2>2, <3>2, <3>3
  <2>4. Upto(g, n)
    <3> HIDE DEF g, Step
    <3> QED BY <2>3
  <2>5. \E h : Upto(h, n)
    <3> HIDE DEF Upto, g
    <3> QED BY <2>4
  <2> QED BY <2>1, <2>5
<1>3. PICK f : Upto(f, Len(D) + Len(A))
  <2>1. Len(D) + Len(A) \in Nat /\ Len(D) + Len(A) \notin B
    <3> HIDE DEF B
    <3> QED BY <1>2
  <2> HIDE DEF Upto
  <2> QED BY <2>1
<1> DEFINE g == [p \in P |-> Step(f, p)]
<1>4. \A p \in P : g[p] = f[p]
  <2> HIDE DEF Step
  <2> QED BY <1>1, <1>3
<1>5. \A p \in P : Step(g, p) = Step(f, p)
  <2> SUFFICES ASSUME NEW p \in P PROVE Step(g, p) = Step(f, p)
    OBVIOUS
  <2> HIDE DEF g
  <2>1. p \in Places(D, A) /\ AgreeAhead(D, A, g, f, p)
    BY <1>4 DEF AgreeAhead
  <2> HIDE DEF P
  <2> QED BY <2>1, MergeLooksAhead
<1>6. g = [p \in P |-> Step(g, p)]
  <2>1. \A p \in P : g[p] = Step(g, p)
    <3> HIDE DEF Step
    <3>1. \A p \in P : g[p] = Step(f, p)
      OBVIOUS
    <3> HIDE DEF g
    <3> QED BY <1>5, <3>1
  <2> DEFINE h == [p \in P |-> Step(g, p)]
  <2>2. DOMAIN h = P /\ DOMAIN g = P /\ \A p \in P : h[p] = g[p]
    <3> HIDE DEF Step
    <3> QED BY <2>1
  <2>3. h = g
    <3> HIDE DEF Step
    <3> QED BY <2>2
  <2> QED BY <2>3
<1>7. g = MergeAll(arc, masked, D, A, g)
  BY <1>6 DEF MergeAll
<1> HIDE DEF g
<1> QED BY <1>7

LEMMA PairsAreMerged ==
  ASSUME NEW dirs, NEW arc, NEW masked, Files(dirs), arc \in Seq(ItemType),
         \A x, y \in dirs : x.name = y.name => x = y
  PROVE  \E f : /\ UpdatePairs(dirs, arc, masked) = f[<<1, 1>>]
                /\ \A p \in Places(DirOrder(dirs), ArcOrder(arc)) :
                     f[p] = MergeStep(arc, masked, DirOrder(dirs), ArcOrder(arc), f, p[1], p[2])
<1> DEFINE D == DirOrder(dirs)
           A == ArcOrder(arc)
           F(f) == MergeAll(arc, masked, D, A, f)
<1>1. Len(D) \in Nat /\ Len(A) \in Nat
  BY DirOrderSorts, ArcOrderSorts
<1>2. \E f : f = F(f)
  <2> HIDE DEF D, A
  <2> QED BY <1>1, MergeExists
<1> DEFINE m == CHOOSE f : f = F(f)
<1>3. m = F(m)
  <2> HIDE DEF F
  <2> QED BY <1>2
<1>4. UpdatePairs(dirs, arc, masked) = m[<<1, 1>>]
  BY DEF UpdatePairs, MergeAll, MergeStep, Places
<1>5. \A p \in Places(D, A) : m[p] = MergeStep(arc, masked, D, A, m, p[1], p[2])
  <2> HIDE DEF m, D, A
  <2> QED BY <1>3 DEF MergeAll
<1> QED BY <1>4, <1>5

-----------------------------------------------------------------------------
(* What the merge makes: pairs of T, for each path of P and each index of I *)
(* one.                                                                    *)

CoversOnce(s, T, P, I) ==
  /\ s \in Seq(T)
  /\ \A n \in 1..Len(s) : (s[n].dir = None \/ s[n].dir \in P) /\ (s[n].arc = None \/ s[n].arc \in I)
  /\ \A u \in P : \E n \in 1..Len(s) : s[n].dir = u
  /\ \A i \in I : \E n \in 1..Len(s) : s[n].arc = i
  /\ \A m, n \in 1..Len(s) : m # n /\ s[m].dir = s[n].dir => s[m].dir = None
  /\ \A m, n \in 1..Len(s) : m # n /\ s[m].arc = s[n].arc => s[m].arc = None

LEMMA Prepend ==
  ASSUME NEW T, NEW P, NEW I, NEW s, CoversOnce(s, T, P, I), None \notin P, None \notin I,
         NEW p \in T, p.dir \notin P, p.arc \notin I
  PROVE  CoversOnce(<<p>> \o s, T, (P \cup {p.dir}) \ {None}, (I \cup {p.arc}) \ {None})
<1> DEFINE r == <<p>> \o s
<1>1. s \in Seq(T) /\ Len(s) \in Nat
  BY DEF CoversOnce
<1>2. r \in Seq(T) /\ Len(r) = Len(s) + 1 /\ r[1] = p /\ \A n \in 1..Len(s) : r[n + 1] = s[n]
  BY <1>1
<1>3. \A n \in 1..Len(r) : n = 1 \/ (n - 1 \in 1..Len(s) /\ r[n] = s[n - 1])
  BY <1>1, <1>2
<1>4. \A n \in 1..Len(s) : n + 1 \in 1..Len(r) /\ 1 \in 1..Len(r)
  BY <1>1, <1>2
<1>5. 1 \in 1..Len(r)
  BY <1>1, <1>2
<1> HIDE DEF r
<1>a. /\ \A n \in 1..Len(s) : s[n].dir = None \/ s[n].dir \in P
      /\ \A n \in 1..Len(s) : s[n].arc = None \/ s[n].arc \in I
  BY DEF CoversOnce
<1>b. /\ \A m, n \in 1..Len(s) : m # n /\ s[m].dir = s[n].dir => s[m].dir = None
      /\ \A m, n \in 1..Len(s) : m # n /\ s[m].arc = s[n].arc => s[m].arc = None
  BY DEF CoversOnce
<1>6. /\ \A n \in 1..Len(r) : r[n].dir = None \/ r[n].dir \in (P \cup {p.dir}) \ {None}
      /\ \A n \in 1..Len(r) : r[n].arc = None \/ r[n].arc \in (I \cup {p.arc}) \ {None}
  <2> SUFFICES ASSUME NEW n \in 1..Len(r)
               PROVE  /\ r[n].dir = None \/ r[n].dir \in (P \cup {p.dir}) \ {None}
                      /\ r[n].arc = None \/ r[n].arc \in (I \cup {p.arc}) \ {None}
    OBVIOUS
  <2>1. CASE n = 1
    BY <1>2, <2>1
  <2>2. CASE n - 1 \in 1..Len(s) /\ r[n] = s[n - 1]
    BY <1>a, <2>2
  <2> QED BY <1>3, <2>1, <2>2
<1>7. \A u \in (P \cup {p.dir}) \ {None} : \E n \in 1..Len(r) : r[n].dir = u
  BY <1>2, <1>4, <1>5, SMTT(30) DEF CoversOnce
<1>8. \A i \in (I \cup {p.arc}) \ {None} : \E n \in 1..Len(r) : r[n].arc = i
  BY <1>2, <1>4, <1>5 DEF CoversOnce
<1>9. /\ \A m, n \in 1..Len(r) : m # n /\ r[m].dir = r[n].dir => r[m].dir = None
      /\ \A m, n \in 1..Len(r) : m # n /\ r[m].arc = r[n].arc => r[m].arc = None
  <2> SUFFICES ASSUME NEW m \in 1..Len(r), NEW n \in 1..Len(r), m # n
               PROVE  /\ r[m].dir = r[n].dir => r[m].dir = None
                      /\ r[m].arc = r[n].arc => r[m].arc = None
    OBVIOUS
  <2>1. CASE m = 1
    <3>1. n - 1 \in 1..Len(s) /\ r[n] = s[n - 1] /\ r[m] = p
      BY <1>2, <1>3, <2>1
    <3> QED BY <1>a, <3>1
  <2>2. CASE n = 1
    <3>1. m - 1 \in 1..Len(s) /\ r[m] = s[m - 1] /\ r[n] = p
      BY <1>2, <1>3, <2>2
    <3> QED BY <1>a, <3>1
  <2>3. CASE m # 1 /\ n # 1
    <3>1. m - 1 \in 1..Len(s) /\ r[m] = s[m - 1] /\ n - 1 \in 1..Len(s) /\ r[n] = s[n - 1]
      BY <1>3, <2>3
    <3>2. m - 1 # n - 1
      OBVIOUS
    <3> QED BY <1>b, <3>1, <3>2
  <2> QED BY <2>1, <2>2, <2>3
<1>10. CoversOnce(r, T, (P \cup {p.dir}) \ {None}, (I \cup {p.arc}) \ {None})
  <2>1. r \in Seq(T)
    BY <1>2
  <2> DEFINE Q == (P \cup {p.dir}) \ {None}
             J == (I \cup {p.arc}) \ {None}
  <2> HIDE DEF Q, J
  <2>2. CoversOnce(r, T, Q, J)
    <3>1. /\ \A n \in 1..Len(r) : r[n].dir = None \/ r[n].dir \in Q
          /\ \A n \in 1..Len(r) : r[n].arc = None \/ r[n].arc \in J
      BY <1>6 DEF Q, J
    <3>2. \A u \in Q : \E n \in 1..Len(r) : r[n].dir = u
      BY <1>7 DEF Q
    <3>3. \A i \in J : \E n \in 1..Len(r) : r[n].arc = i
      BY <1>8 DEF J
    <3> QED BY <1>9, <2>1, <3>1, <3>2, <3>3 DEF CoversOnce
  <2> QED BY <2>2 DEF Q, J
<1> QED BY <1>10 DEF r

PairType == [state : States \cup {"error"}, dir : Nat, arc : Nat]

(* A pair whose state is the one the file and the item have.               *)
FittingPairs(dirs, items) ==
  {p \in [state : States, dir : Nat, arc : Nat] :
     /\ p.dir # None => \E d \in dirs : d.path = p.dir /\ p.state = DirItemState(d, items)
     /\ p.arc # None => p.arc \in DOMAIN items /\ p.state = ArcItemState(items[p.arc], dirs)
     /\ p.dir = None => p.arc # None /\ p.state \in {"notMasked", "onlyInArchive"}
     /\ p.arc = None => p.dir # None /\ p.state = "onlyOnDisk"}

(* Files and items in order, the files with different names.               *)
InOrder(dirs, items, D, A) ==
  /\ dirs \subseteq DirItemType /\ items \in Seq(ItemType)
  /\ Len(D) \in Nat /\ D \in [1..Len(D) -> dirs]
  /\ Len(A) \in Nat /\ A \in [1..Len(A) -> DOMAIN items]
  /\ \A m, n \in 1..Len(D) : m < n => D[m].name < D[n].name /\ D[m].path # D[n].path
  /\ \A m, n \in 1..Len(A) : m < n =>
       A[m] # A[n] /\ (Before(items[A[m]], items[A[n]]) \/ Same(items[A[m]], items[A[n]]))
  /\ \A d \in dirs : \E n \in 1..Len(D) : D[n] = d
  /\ \A i \in DOMAIN items : \E n \in 1..Len(A) : A[n] = i

PathsFrom(D, x) == {D[n].path : n \in x..Len(D)}
IndicesFrom(A, y) == {A[n] : n \in y..Len(A)}

(* What is before this place in one order is not with what is behind it in *)
(* the other.                                                              *)
Split(items, D, A, x, y) ==
  \A m \in 1..Len(D), n \in 1..Len(A) : (m < x) # (n < y) => ~Same(D[m], items[A[n]])

LEMMA InOrderFacts ==
  ASSUME NEW dirs, NEW items, Files(dirs), items \in Seq(ItemType),
         \A x, y \in dirs : x.name = y.name => x = y
  PROVE  InOrder(dirs, items, DirOrder(dirs), ArcOrder(items))
<1> DEFINE D == DirOrder(dirs)
           A == ArcOrder(items)
           N == Cardinality(dirs)
           M == Len(items)
<1>1. /\ N \in Nat /\ D \in [1..N -> dirs] /\ D \in Seq(dirs) /\ Len(D) = N
      /\ \A m, n \in 1..N : m < n => DirBefore(D[m], D[n])
      /\ \A d \in dirs : \E n \in 1..N : D[n] = d
  BY DirOrderSorts
<1>2. /\ M \in Nat /\ A \in [1..M -> 1..M] /\ A \in Seq(1..M) /\ Len(A) = M
      /\ \A m, n \in 1..M : m < n => ArcBefore(items, A[m], A[n])
      /\ \A i \in 1..M : \E n \in 1..M : A[n] = i
  BY ArcOrderSorts
<1>3. DOMAIN items = 1..M
  OBVIOUS
<1>4. dirs \subseteq DirItemType /\ \A d \in dirs : d.name \in Nat /\ d.path \in Nat
  BY DEF Files, DirItemType
<1>5. \A i \in 1..M : IsEntry(items[i])
  <2>1. \A a \in ItemType : IsEntry(a)
    BY DEF ItemType, IsEntry
  <2> QED BY <2>1
<1> HIDE DEF D, A, N, M
<1>6. \A m, n \in 1..N : m < n => D[m].name < D[n].name /\ D[m].path # D[n].path
  <2> SUFFICES ASSUME NEW m \in 1..N, NEW n \in 1..N, m < n
               PROVE  D[m].name < D[n].name /\ D[m].path # D[n].path
    OBVIOUS
  <2>1. D[m] \in dirs /\ D[n] \in dirs /\ DirBefore(D[m], D[n])
    BY <1>1
  <2>2. D[m].name \in Nat /\ D[n].name \in Nat /\ D[m].path \in Nat /\ D[n].path \in Nat
    BY <1>4, <2>1
  <2>3. D[m] # D[n]
    BY <2>1, <2>2 DEF DirBefore
  <2>4. D[m].name # D[n].name /\ D[m].path # D[n].path
    BY <2>1, <2>3 DEF Files
  <2> QED BY <2>1, <2>2, <2>4 DEF DirBefore
<1>7. \A m, n \in 1..M : m < n =>
       A[m] # A[n] /\ (Before(items[A[m]], items[A[n]]) \/ Same(items[A[m]], items[A[n]]))
  <2> SUFFICES ASSUME NEW m \in 1..M, NEW n \in 1..M, m < n
               PROVE  A[m] # A[n] /\ (Before(items[A[m]], items[A[n]]) \/ Same(items[A[m]], items[A[n]]))
    OBVIOUS
  <2>1. A[m] \in 1..M /\ A[n] \in 1..M /\ ArcBefore(items, A[m], A[n])
    BY <1>2
  <2>2. IsEntry(items[A[m]]) /\ IsEntry(items[A[n]])
    BY <1>5, <2>1
  <2>3. Before(items[A[m]], items[A[n]]) \/ (Same(items[A[m]], items[A[n]]) /\ A[m] < A[n])
    BY <2>1 DEF ArcBefore
  <2>4. A[m] = A[n] => FALSE
    BY <2>1, <2>2, <2>3, BeforeIsOrder
  <2> QED BY <2>3, <2>4
<1>8. InOrder(dirs, items, D, A)
  BY <1>1, <1>2, <1>3, <1>4, <1>6, <1>7 DEF InOrder
<1> QED BY <1>8 DEF D, A

LEMMA InOrderEntries ==
  ASSUME NEW dirs, NEW items, NEW D, NEW A, InOrder(dirs, items, D, A)
  PROVE  /\ \A m \in 1..Len(D) : IsEntry(D[m]) /\ D[m] \in dirs /\ D[m].path \in Nat \ {None}
         /\ \A n \in 1..Len(A) : /\ IsEntry(items[A[n]]) /\ A[n] \in DOMAIN items
                                 /\ A[n] \in Nat \ {None} /\ items[A[n]] \in ItemType
<1>1. \A d \in DirItemType : IsEntry(d) /\ d.path \in Nat \ {None}
  BY DEF DirItemType, IsEntry
<1>2. \A a \in ItemType : IsEntry(a)
  BY DEF ItemType, IsEntry
<1>3. items \in Seq(ItemType)
  BY DEF InOrder
<1>4. \A i \in DOMAIN items : items[i] \in ItemType /\ i \in Nat \ {None}
  BY <1>3 DEF None
<1>5. /\ \A m \in 1..Len(D) : D[m] \in dirs /\ D[m] \in DirItemType
      /\ \A n \in 1..Len(A) : A[n] \in DOMAIN items
  BY DEF InOrder
<1> QED BY <1>1, <1>2, <1>4, <1>5

LEMMA DiskOnlyFits ==
  ASSUME NEW dirs, NEW items, NEW D, NEW A, InOrder(dirs, items, D, A),
         NEW x \in 1..Len(D), NEW y \in 1..(Len(A) + 1), Split(items, D, A, x, y),
         y <= Len(A) => Before(D[x], items[A[y]])
  PROVE  /\ Pair("onlyOnDisk", D[x].path, None) \in FittingPairs(dirs, items)
         /\ Split(items, D, A, x + 1, y)
<1>1. Len(D) \in Nat /\ Len(A) \in Nat
  BY DEF InOrder
<1>2. ASSUME NEW n \in 1..Len(A) PROVE ~Same(D[x], items[A[n]])
  <2>1. CASE n < y
    BY <2>1 DEF Split
  <2>2. CASE n = y
    BY <2>2, InOrderEntries, BeforeIsOrder
  <2>3. CASE y < n
    <3>1. y \in 1..Len(A) /\ Before(D[x], items[A[y]])
      BY <1>1, <2>3
    <3>2. Before(items[A[y]], items[A[n]]) \/ Same(items[A[y]], items[A[n]])
      BY <2>3, <3>1 DEF InOrder
    <3> QED BY <3>1, <3>2, InOrderEntries, BeforeIsOrder
  <2> QED BY <1>1, <2>1, <2>2, <2>3
<1>3. D[x] \in dirs /\ D[x].path \in Nat \ {None}
  BY InOrderEntries
<1>4. \A a \in ToSet(items) : ~Same(D[x], a)
  <2> SUFFICES ASSUME NEW i \in DOMAIN items PROVE ~Same(D[x], items[i])
    BY DEF ToSet
  <2>1. PICK n \in 1..Len(A) : A[n] = i
    BY DEF InOrder
  <2> QED BY <1>2, <2>1
<1>5. DirItemState(D[x], items) = "onlyOnDisk"
  BY <1>4 DEF DirItemState
<1>6. Pair("onlyOnDisk", D[x].path, None) \in FittingPairs(dirs, items)
  BY <1>3, <1>5 DEF Pair, FittingPairs, None, States
<1>7. Split(items, D, A, x + 1, y)
  <2> SUFFICES ASSUME NEW m \in 1..Len(D), NEW n \in 1..Len(A), (m < x + 1) # (n < y)
               PROVE  ~Same(D[m], items[A[n]])
    BY DEF Split
  <2>1. CASE m = x
    BY <1>2, <2>1
  <2>2. CASE m # x
    <3>1. (m < x) # (n < y)
      BY <1>1, <2>2
    <3> QED BY <3>1 DEF Split
  <2> QED BY <2>1, <2>2
<1> QED BY <1>6, <1>7

LEMMA ArchiveOnlyFits ==
  ASSUME NEW dirs, NEW items, NEW D, NEW A, InOrder(dirs, items, D, A),
         NEW x \in 1..(Len(D) + 1), NEW y \in 1..Len(A), Split(items, D, A, x, y),
         x <= Len(D) => Before(items[A[y]], D[x])
  PROVE  /\ Pair(IF items[A[y]].name \in scene.masked THEN "onlyInArchive" ELSE "notMasked", None, A[y])
              \in FittingPairs(dirs, items)
         /\ Split(items, D, A, x, y + 1)
<1>1. Len(D) \in Nat /\ Len(A) \in Nat
  BY DEF InOrder
<1>2. ASSUME NEW m \in 1..Len(D) PROVE ~Same(D[m], items[A[y]])
  <2>1. CASE m < x
    BY <2>1 DEF Split
  <2>2. CASE m = x
    BY <2>2, InOrderEntries, BeforeIsOrder
  <2>3. CASE x < m
    <3>1. x \in 1..Len(D) /\ Before(items[A[y]], D[x])
      BY <1>1, <2>3
    <3>2. Before(D[x], D[m])
      BY <2>3, <3>1 DEF InOrder, Before
    <3> QED BY <3>1, <3>2, InOrderEntries, BeforeIsOrder
  <2> QED BY <1>1, <2>1, <2>2, <2>3
<1>3. A[y] \in DOMAIN items /\ A[y] \in Nat \ {None}
  BY InOrderEntries
<1>4. Partner(items[A[y]], dirs) = {}
  <2> SUFFICES ASSUME NEW d \in dirs PROVE ~Same(d, items[A[y]])
    BY DEF Partner
  <2>1. PICK m \in 1..Len(D) : D[m] = d
    BY DEF InOrder
  <2> QED BY <1>2, <2>1
<1> DEFINE st == IF items[A[y]].name \in scene.masked THEN "onlyInArchive" ELSE "notMasked"
<1>5. ArcItemState(items[A[y]], dirs) = st
  <2>1. CASE items[A[y]].name \in scene.masked
    BY <1>4, <2>1 DEF ArcItemState
  <2>2. CASE items[A[y]].name \notin scene.masked
    BY <2>2 DEF ArcItemState
  <2> QED BY <2>1, <2>2
<1>6. st \in States /\ st \in {"notMasked", "onlyInArchive"}
  BY DEF States
<1> HIDE DEF st
<1>7. Pair(st, None, A[y]) \in FittingPairs(dirs, items)
  BY <1>3, <1>5, <1>6 DEF Pair, FittingPairs, None
<1>8. Split(items, D, A, x, y + 1)
  <2> SUFFICES ASSUME NEW m \in 1..Len(D), NEW n \in 1..Len(A), (m < x) # (n < y + 1)
               PROVE  ~Same(D[m], items[A[n]])
    BY DEF Split
  <2>1. CASE n = y
    BY <1>2, <2>1
  <2>2. CASE n # y
    <3>1. (m < x) # (n < y)
      BY <1>1, <2>2
    <3> QED BY <3>1 DEF Split
  <2> QED BY <2>1, <2>2
<1> QED BY <1>7, <1>8 DEF st

LEMMA BothFit ==
  ASSUME NEW dirs, NEW items, NEW D, NEW A, InOrder(dirs, items, D, A),
         NEW x \in 1..Len(D), NEW y \in 1..Len(A), Split(items, D, A, x, y),
         Same(D[x], items[A[y]]), ~Duplicated(A, items, y), items[A[y]].name \in scene.masked
  PROVE  /\ Pair(StateOfBoth(D[x], items[A[y]]), D[x].path, A[y]) \in FittingPairs(dirs, items)
         /\ Split(items, D, A, x + 1, y + 1)
<1>1. /\ Len(D) \in Nat /\ Len(A) \in Nat
      /\ A \in [1..Len(A) -> DOMAIN items]
  BY DEF InOrder
<1>2. ASSUME NEW n \in 1..Len(A), n # y PROVE ~Same(items[A[n]], items[A[y]])
  <2>1. CASE n < y
    <3>1. y - 1 \in 1..Len(A) /\ y - 1 \in {y - 1, y + 1} \cap DOMAIN A
      BY <1>1, <2>1
    <3>2. ~Same(items[A[y - 1]], items[A[y]])
      BY <3>1 DEF Duplicated
    <3>3. y - 1 < y
      BY <1>1
    <3>4. Before(items[A[y - 1]], items[A[y]])
      BY <3>1, <3>2, <3>3 DEF InOrder
    <3>5. CASE n = y - 1
      BY <3>2, <3>5
    <3>6. CASE n # y - 1
      <4>1. n < y - 1
        BY <1>1, <2>1, <3>6
      <4>2. Before(items[A[n]], items[A[y - 1]]) \/ Same(items[A[n]], items[A[y - 1]])
        BY <3>1, <4>1 DEF InOrder
      <4> QED BY <3>1, <3>4, <4>2, InOrderEntries, BeforeIsOrder
    <3> QED BY <3>5, <3>6
  <2>2. CASE y < n
    <3>1. y + 1 \in 1..Len(A) /\ y + 1 \in {y - 1, y + 1} \cap DOMAIN A
      BY <1>1, <2>2
    <3>2. ~Same(items[A[y + 1]], items[A[y]])
      BY <3>1 DEF Duplicated
    <3>3. y < y + 1
      BY <1>1
    <3>4. Before(items[A[y]], items[A[y + 1]])
      <4>1. Before(items[A[y]], items[A[y + 1]]) \/ Same(items[A[y]], items[A[y + 1]])
        BY <3>1, <3>3 DEF InOrder
      <4> QED BY <3>1, <3>2, <4>1, InOrderEntries, BeforeIsOrder
    <3>5. CASE n = y + 1
      BY <3>2, <3>5
    <3>6. CASE n # y + 1
      <4>1. y + 1 < n
        BY <1>1, <2>2, <3>6
      <4>2. Before(items[A[y + 1]], items[A[n]]) \/ Same(items[A[y + 1]], items[A[n]])
        BY <3>1, <4>1 DEF InOrder
      <4>3. Before(items[A[y]], items[A[n]])
        BY <3>1, <3>4, <4>2, InOrderEntries, BeforeIsOrder
      <4> QED BY <4>3, InOrderEntries, BeforeIsOrder
    <3> QED BY <3>5, <3>6
  <2> QED BY <1>1, <1>2, <2>1, <2>2
<1>3. ASSUME NEW n \in 1..Len(A), n # y PROVE ~Same(D[x], items[A[n]])
  BY <1>2, <1>3, InOrderEntries, BeforeIsOrder
<1>4. ASSUME NEW m \in 1..Len(D), m # x PROVE ~Same(D[m], items[A[y]])
  <2>1. D[m].name # D[x].name
    <3>1. m < x \/ x < m
      BY <1>1, <1>4
    <3>2. D[m].name < D[x].name \/ D[x].name < D[m].name
      BY <3>1 DEF InOrder
    <3>3. D[m].name \in Nat /\ D[x].name \in Nat
      BY InOrderEntries DEF IsEntry
    <3> QED BY <3>2, <3>3
  <2> QED BY <2>1 DEF Same
<1>5. /\ D[x] \in dirs /\ D[x].path \in Nat \ {None}
      /\ A[y] \in DOMAIN items /\ A[y] \in Nat \ {None}
  BY InOrderEntries
<1> DEFINE a == items[A[y]]
<1>6. Partner(a, dirs) = {D[x]}
  <2>1. ASSUME NEW d \in dirs, d # D[x] PROVE ~Same(d, a)
    <3>1. PICK m \in 1..Len(D) : D[m] = d
      BY DEF InOrder
    <3> QED BY <1>4, <2>1, <3>1
  <2> QED BY <1>5, <2>1 DEF Partner
<1>7. ArcItemState(a, dirs) = StateOfBoth(D[x], a)
  <2>1. (CHOOSE d \in Partner(a, dirs) : TRUE) = D[x]
    BY <1>6
  <2> HIDE DEF a
  <2>2. a.name \in scene.masked
    BY DEF a
  <2>3. Partner(a, dirs) # {}
    BY <1>6
  <2> QED BY <2>1, <2>2, <2>3 DEF ArcItemState
<1>8. DirItemState(D[x], items) = StateOfBoth(D[x], a)
  <2>1. a \in ToSet(items) /\ Same(D[x], a)
    BY <1>5 DEF ToSet
  <2>2. ASSUME NEW b \in ToSet(items), Same(D[x], b) PROVE b = a
    <3>1. PICK i \in DOMAIN items : b = items[i]
      BY DEF ToSet
    <3>2. PICK n \in 1..Len(A) : A[n] = i
      BY DEF InOrder
    <3> QED BY <1>3, <2>2, <3>1, <3>2
  <2> HIDE DEF a
  <2>3. (CHOOSE b \in ToSet(items) : Same(D[x], b)) = a
    BY <2>1, <2>2
  <2> QED BY <2>1, <2>3 DEF DirItemState
<1>9. StateOfBoth(D[x], a) \in States
  BY DEF StateOfBoth, States
<1> DEFINE st == StateOfBoth(D[x], a)
<1>10. Pair(st, D[x].path, A[y]) \in FittingPairs(dirs, items)
  <2> HIDE DEF st
  <2>1. st \in States /\ DirItemState(D[x], items) = st /\ ArcItemState(items[A[y]], dirs) = st
    BY <1>7, <1>8, <1>9 DEF st
  <2> QED BY <1>5, <2>1 DEF Pair, FittingPairs
<1>11. Split(items, D, A, x + 1, y + 1)
  <2> SUFFICES ASSUME NEW m \in 1..Len(D), NEW n \in 1..Len(A), (m < x + 1) # (n < y + 1)
               PROVE  ~Same(D[m], items[A[n]])
    BY DEF Split
  <2>1. CASE m = x
    <3>1. n # y
      BY <1>1, <2>1
    <3> QED BY <1>3, <2>1, <3>1
  <2>2. CASE n = y
    <3>1. m # x
      BY <1>1, <2>2
    <3> QED BY <1>4, <2>2, <3>1
  <2>3. CASE m # x /\ n # y
    <3>1. (m < x) # (n < y)
      BY <1>1, <2>3
    <3> QED BY <3>1 DEF Split
  <2> QED BY <2>1, <2>2, <2>3
<1> QED BY <1>10, <1>11

(* What is left from a place on.                                           *)
LEMMA WhatIsLeft ==
  ASSUME NEW dirs, NEW items, NEW D, NEW A, InOrder(dirs, items, D, A)
  PROVE  /\ \A x \in 1..(Len(D) + 1) : None \notin PathsFrom(D, x)
         /\ \A y \in 1..(Len(A) + 1) : None \notin IndicesFrom(A, y)
         /\ \A x \in 1..Len(D) : /\ D[x].path \notin PathsFrom(D, x + 1)
                                 /\ PathsFrom(D, x) = (PathsFrom(D, x + 1) \cup {D[x].path}) \ {None}
         /\ \A y \in 1..Len(A) : /\ A[y] \notin IndicesFrom(A, y + 1)
                                 /\ IndicesFrom(A, y) = (IndicesFrom(A, y + 1) \cup {A[y]}) \ {None}
         /\ PathsFrom(D, Len(D) + 1) = {} /\ IndicesFrom(A, Len(A) + 1) = {}
<1>1. Len(D) \in Nat /\ Len(A) \in Nat
  BY DEF InOrder
<1>2. /\ \A m \in 1..Len(D) : D[m].path # None
      /\ \A n \in 1..Len(A) : A[n] # None
  BY InOrderEntries
<1>3. /\ \A m, n \in 1..Len(D) : m < n => D[m].path # D[n].path
      /\ \A m, n \in 1..Len(A) : m < n => A[m] # A[n]
  BY DEF InOrder
<1>4. \A x \in 1..(Len(D) + 1) : None \notin PathsFrom(D, x)
  BY <1>1, <1>2 DEF PathsFrom
<1>5. \A y \in 1..(Len(A) + 1) : None \notin IndicesFrom(A, y)
  BY <1>1, <1>2 DEF IndicesFrom
<1>6. ASSUME NEW x \in 1..Len(D)
      PROVE  /\ D[x].path \notin PathsFrom(D, x + 1)
             /\ PathsFrom(D, x) = (PathsFrom(D, x + 1) \cup {D[x].path}) \ {None}
  <2>1. \A m \in (x + 1)..Len(D) : m \in 1..Len(D) /\ x < m
    BY <1>1
  <2>2. x..Len(D) = {x} \cup ((x + 1)..Len(D))
    BY <1>1
  <2>3. D[x].path \notin PathsFrom(D, x + 1)
    BY <1>3, <2>1 DEF PathsFrom
  <2>4. PathsFrom(D, x) = PathsFrom(D, x + 1) \cup {D[x].path}
    BY <2>2 DEF PathsFrom
  <2> QED BY <1>1, <1>4, <2>3, <2>4
<1>7. ASSUME NEW y \in 1..Len(A)
      PROVE  /\ A[y] \notin IndicesFrom(A, y + 1)
             /\ IndicesFrom(A, y) = (IndicesFrom(A, y + 1) \cup {A[y]}) \ {None}
  <2>1. \A m \in (y + 1)..Len(A) : m \in 1..Len(A) /\ y < m
    BY <1>1
  <2>2. y..Len(A) = {y} \cup ((y + 1)..Len(A))
    BY <1>1
  <2>3. A[y] \notin IndicesFrom(A, y + 1)
    BY <1>3, <2>1 DEF IndicesFrom
  <2>4. IndicesFrom(A, y) = IndicesFrom(A, y + 1) \cup {A[y]}
    BY <2>2 DEF IndicesFrom
  <2> QED BY <1>1, <1>5, <2>3, <2>4
<1>8. PathsFrom(D, Len(D) + 1) = {} /\ IndicesFrom(A, Len(A) + 1) = {}
  BY <1>1 DEF PathsFrom, IndicesFrom
<1> QED BY <1>4, <1>5, <1>6, <1>7, <1>8

Merged(s, dirs, items, P, I) ==
  /\ s \in Seq(PairType)
  /\ Error \notin ToSet(s) => CoversOnce(s, FittingPairs(dirs, items), P, I)

LEMMA MergedPrepend ==
  ASSUME NEW dirs, NEW items, NEW P, NEW I, NEW s, Merged(s, dirs, items, P, I),
         None \notin P, None \notin I,
         NEW p \in FittingPairs(dirs, items), p.dir \notin P, p.arc \notin I
  PROVE  Merged(<<p>> \o s, dirs, items, (P \cup {p.dir}) \ {None}, (I \cup {p.arc}) \ {None})
<1>1. s \in Seq(PairType) /\ p \in PairType
  BY DEF Merged, FittingPairs, PairType
<1>2. <<p>> \o s \in Seq(PairType)
  BY <1>1
<1>3. ASSUME Error \in ToSet(s) PROVE Error \in ToSet(<<p>> \o s)
  <2>1. PICK n \in DOMAIN s : s[n] = Error
    BY <1>3 DEF ToSet
  <2>2. n + 1 \in DOMAIN (<<p>> \o s) /\ (<<p>> \o s)[n + 1] = s[n]
    BY <1>1
  <2> QED BY <2>1, <2>2 DEF ToSet
<1>4. CASE Error \in ToSet(s)
  BY <1>2, <1>3, <1>4 DEF Merged
<1>5. CASE Error \notin ToSet(s)
  <2>1. CoversOnce(s, FittingPairs(dirs, items), P, I)
    BY <1>5 DEF Merged
  <2>2. CoversOnce(<<p>> \o s, FittingPairs(dirs, items), (P \cup {p.dir}) \ {None}, (I \cup {p.arc}) \ {None})
    BY <2>1, Prepend
  <2> QED BY <1>2, <2>2 DEF Merged
<1> QED BY <1>4, <1>5

(* One step of the merge.                                                  *)
LEMMA MergeStepFits ==
  ASSUME NEW dirs, NEW items, NEW D, NEW A, InOrder(dirs, items, D, A), NEW f,
         NEW x \in 1..(Len(D) + 1), NEW y \in 1..(Len(A) + 1), Split(items, D, A, x, y),
         f[<<x, y>>] = MergeStep(items, scene.masked, D, A, f, x, y),
         \A u \in 1..(Len(D) + 1), v \in 1..(Len(A) + 1) :
           u + v > x + y /\ Split(items, D, A, u, v) =>
             Merged(f[<<u, v>>], dirs, items, PathsFrom(D, u), IndicesFrom(A, v))
  PROVE  Merged(f[<<x, y>>], dirs, items, PathsFrom(D, x), IndicesFrom(A, y))
<1>1. Len(D) \in Nat /\ Len(A) \in Nat
  BY DEF InOrder
<1> DEFINE T == FittingPairs(dirs, items)
           P(u) == PathsFrom(D, u)
           I(v) == IndicesFrom(A, v)
<1>2. CASE x > Len(D) /\ y > Len(A)
  <2>1. x = Len(D) + 1 /\ y = Len(A) + 1 /\ f[<<x, y>>] = <<>>
    BY <1>1, <1>2 DEF MergeStep
  <2>2. P(x) = {} /\ I(y) = {}
    BY <2>1, WhatIsLeft
  <2>3. CoversOnce(<<>>, T, {}, {})
    BY DEF CoversOnce
  <2>4. <<>> \in Seq(PairType)
    OBVIOUS
  <2> QED BY <2>1, <2>2, <2>3, <2>4 DEF Merged
<1>3. CASE x <= Len(D) /\ (y <= Len(A) => Before(D[x], items[A[y]]))
  <2> DEFINE p == Pair("onlyOnDisk", D[x].path, None)
  <2>1. x \in 1..Len(D) /\ x + 1 \in 1..(Len(D) + 1) /\ (x + 1) + y > x + y
    BY <1>1, <1>3
  <2>2. f[<<x, y>>] = <<p>> \o f[<<x + 1, y>>]
    <3>1. ~(y <= Len(A) /\ (x <= Len(D) => Before(items[A[y]], D[x])))
      BY <1>1, <1>3, InOrderEntries, BeforeIsOrder
    <3> QED BY <1>1, <1>3, <3>1 DEF MergeStep
  <2>3. p \in T /\ Split(items, D, A, x + 1, y)
    BY <1>3, <2>1, DiskOnlyFits
  <2>4. Merged(f[<<x + 1, y>>], dirs, items, P(x + 1), I(y))
    BY <2>1, <2>3
  <2>5. /\ None \notin P(x + 1) /\ None \notin I(y) /\ D[x].path \notin P(x + 1)
        /\ P(x) = (P(x + 1) \cup {D[x].path}) \ {None} /\ I(y) = (I(y) \cup {None}) \ {None}
    BY <2>1, WhatIsLeft
  <2>6. p.dir = D[x].path /\ p.arc = None
    BY DEF Pair
  <2> HIDE DEF T, P, I, p
  <2>7. Merged(<<p>> \o f[<<x + 1, y>>], dirs, items, (P(x + 1) \cup {p.dir}) \ {None}, (I(y) \cup {p.arc}) \ {None})
    BY <2>3, <2>4, <2>5, <2>6, MergedPrepend DEF T
  <2> QED BY <2>2, <2>5, <2>6, <2>7 DEF P, I
<1>4. CASE ~(x > Len(D) /\ y > Len(A)) /\ ~(x <= Len(D) /\ (y <= Len(A) => Before(D[x], items[A[y]])))
           /\ y <= Len(A) /\ (x <= Len(D) => Before(items[A[y]], D[x]))
  <2> DEFINE p == Pair(IF items[A[y]].name \in scene.masked THEN "onlyInArchive" ELSE "notMasked",
                       None, A[y])
  <2>1. y \in 1..Len(A) /\ y + 1 \in 1..(Len(A) + 1) /\ x + (y + 1) > x + y
    BY <1>1, <1>4
  <2>2. f[<<x, y>>] = <<p>> \o f[<<x, y + 1>>]
    BY <1>1, <1>4 DEF MergeStep
  <2>3. p \in T /\ Split(items, D, A, x, y + 1)
    BY <1>4, <2>1, ArchiveOnlyFits
  <2>4. Merged(f[<<x, y + 1>>], dirs, items, P(x), I(y + 1))
    BY <2>1, <2>3
  <2>5. /\ None \notin P(x) /\ None \notin I(y + 1) /\ A[y] \notin I(y + 1)
        /\ P(x) = (P(x) \cup {None}) \ {None} /\ I(y) = (I(y + 1) \cup {A[y]}) \ {None}
    BY <2>1, WhatIsLeft
  <2>6. p.dir = None /\ p.arc = A[y]
    BY DEF Pair
  <2> HIDE DEF T, P, I, p
  <2>7. Merged(<<p>> \o f[<<x, y + 1>>], dirs, items, (P(x) \cup {p.dir}) \ {None}, (I(y + 1) \cup {p.arc}) \ {None})
    BY <2>3, <2>4, <2>5, <2>6, MergedPrepend DEF T
  <2> QED BY <2>2, <2>5, <2>6, <2>7 DEF P, I
<1>5. CASE x <= Len(D) /\ y <= Len(A) /\ ~Before(D[x], items[A[y]]) /\ ~Before(items[A[y]], D[x])
  <2>1. x \in 1..Len(D) /\ y \in 1..Len(A)
    BY <1>1, <1>5
  <2>2. f[<<x, y>>] = IF Duplicated(A, items, y) \/ items[A[y]].name \notin scene.masked THEN <<Error>>
                      ELSE <<Pair(StateOfBoth(D[x], items[A[y]]), D[x].path, A[y])>> \o f[<<x + 1, y + 1>>]
    BY <1>1, <1>5 DEF MergeStep
  <2>3. CASE Duplicated(A, items, y) \/ items[A[y]].name \notin scene.masked
    <3>1. f[<<x, y>>] = <<Error>>
      BY <2>2, <2>3
    <3>2. Error \in PairType
      BY DEF Error, Pair, PairType, None
    <3>3. <<Error>> \in Seq(PairType) /\ Error \in ToSet(<<Error>>)
      <4>1. DOMAIN <<Error>> = {1} /\ <<Error>>[1] = Error
        OBVIOUS
      <4> QED BY <3>2, <4>1 DEF ToSet
    <3> QED BY <3>1, <3>3 DEF Merged
  <2>4. CASE ~Duplicated(A, items, y) /\ items[A[y]].name \in scene.masked
    <3> DEFINE p == Pair(StateOfBoth(D[x], items[A[y]]), D[x].path, A[y])
    <3>1. f[<<x, y>>] = <<p>> \o f[<<x + 1, y + 1>>]
      BY <2>2, <2>4
    <3>2. Same(D[x], items[A[y]])
      BY <1>5, <2>1, InOrderEntries, BeforeIsOrder
    <3>3. p \in T /\ Split(items, D, A, x + 1, y + 1)
      BY <2>1, <2>4, <3>2, BothFit
    <3>4. /\ x + 1 \in 1..(Len(D) + 1) /\ y + 1 \in 1..(Len(A) + 1)
          /\ (x + 1) + (y + 1) > x + y
      BY <1>1, <2>1
    <3>5. Merged(f[<<x + 1, y + 1>>], dirs, items, P(x + 1), I(y + 1))
      BY <3>3, <3>4
    <3>6. /\ None \notin P(x + 1) /\ None \notin I(y + 1) /\ A[y] \notin I(y + 1) /\ D[x].path \notin P(x + 1)
          /\ P(x) = (P(x + 1) \cup {D[x].path}) \ {None} /\ I(y) = (I(y + 1) \cup {A[y]}) \ {None}
      BY <2>1, <3>4, WhatIsLeft
    <3>7. p.dir = D[x].path /\ p.arc = A[y]
      BY DEF Pair
    <3> HIDE DEF T, P, I, p
    <3>8. Merged(<<p>> \o f[<<x + 1, y + 1>>], dirs, items,
                 (P(x + 1) \cup {p.dir}) \ {None}, (I(y + 1) \cup {p.arc}) \ {None})
      BY <3>3, <3>5, <3>6, <3>7, MergedPrepend DEF T
    <3> QED BY <3>1, <3>6, <3>7, <3>8 DEF P, I
  <2> QED BY <2>3, <2>4
<1> QED BY <1>1, <1>2, <1>3, <1>4, <1>5

LEMMA MergeFits ==
  ASSUME NEW dirs, NEW items, NEW D, NEW A, InOrder(dirs, items, D, A), NEW f,
         \A p \in Places(D, A) : f[p] = MergeStep(items, scene.masked, D, A, f, p[1], p[2])
  PROVE  Merged(f[<<1, 1>>], dirs, items, PathsFrom(D, 1), IndicesFrom(A, 1))
<1> DEFINE Good(x, y) == Split(items, D, A, x, y) =>
                           Merged(f[<<x, y>>], dirs, items, PathsFrom(D, x), IndicesFrom(A, y))
           X == 1..(Len(D) + 1)
           Y == 1..(Len(A) + 1)
           B == {n \in Nat : \E x \in X, y \in Y : n = (Len(D) + Len(A) + 2) - (x + y) /\ ~Good(x, y)}
<1>1. Len(D) \in Nat /\ Len(A) \in Nat
  BY DEF InOrder
<1>2. B = {}
  <2> SUFFICES ASSUME B # {} PROVE FALSE
    OBVIOUS
  <2>1. PICK n \in B : \A m \in B : n <= m
    <3> HIDE DEF B
    <3>1. B \in SUBSET Nat
      BY DEF B
    <3> QED BY <3>1, LeastNumber
  <2>2. PICK x \in X, y \in Y : n = (Len(D) + Len(A) + 2) - (x + y) /\ ~Good(x, y)
    <3> HIDE DEF Good
    <3> QED BY <2>1
  <2>3. ASSUME NEW u \in X, NEW v \in Y, u + v > x + y PROVE Good(u, v)
    <3> DEFINE m == (Len(D) + Len(A) + 2) - (u + v)
    <3>1. m \in Nat /\ m < n
      BY <1>1, <2>2, <2>3
    <3> HIDE DEF Good, m, X, Y
    <3>2. m \notin B
      <4> HIDE DEF B
      <4>1. n \in Nat
        BY <2>1 DEF B
      <4> QED BY <2>1, <3>1, <4>1
    <3> QED BY <3>1, <3>2 DEF m
  <2>4. f[<<x, y>>] = MergeStep(items, scene.masked, D, A, f, x, y)
    <3>1. <<x, y>> \in Places(D, A)
      BY DEF Places
    <3>2. f[<<x, y>>] = MergeStep(items, scene.masked, D, A, f, <<x, y>>[1], <<x, y>>[2])
      BY <3>1
    <3> QED BY <3>2
  <2>5. x \in 1..(Len(D) + 1) /\ y \in 1..(Len(A) + 1) /\ Split(items, D, A, x, y)
    BY <2>2
  <2>6. \A u \in 1..(Len(D) + 1), v \in 1..(Len(A) + 1) :
           u + v > x + y /\ Split(items, D, A, u, v) =>
             Merged(f[<<u, v>>], dirs, items, PathsFrom(D, u), IndicesFrom(A, v))
    BY <2>3
  <2>7. Merged(f[<<x, y>>], dirs, items, PathsFrom(D, x), IndicesFrom(A, y))
    <3> HIDE DEF B, X, Y, Good
    <3> QED BY <2>4, <2>5, <2>6, MergeStepFits
  <2> QED BY <2>2, <2>7
<1>3. Good(1, 1)
  <2>1. 1 \in X /\ 1 \in Y /\ (Len(D) + Len(A) + 2) - (1 + 1) \in Nat
    BY <1>1
  <2> HIDE DEF Good
  <2> QED BY <1>2, <2>1
<1>4. Split(items, D, A, 1, 1)
  BY <1>1 DEF Split
<1> QED BY <1>3, <1>4

LEMMA UpdatePairsFit ==
  ASSUME NEW dirs, NEW items, Files(dirs), items \in Seq(ItemType),
         NEW pairs, pairs = UpdatePairs(dirs, items, scene.masked)
  PROVE  /\ pairs \in Seq(PairType)
         /\ ~Failed(pairs) =>
              /\ \A x, y \in dirs : x.name = y.name => x = y
              /\ CoversOnce(pairs, FittingPairs(dirs, items), {d.path : d \in dirs}, DOMAIN items)
<1>1. CASE \E x, y \in dirs : x # y /\ x.name = y.name
  <2>1. pairs = <<Error>>
    BY <1>1 DEF UpdatePairs
  <2>2. Error \in PairType
    BY DEF Error, Pair, PairType, None
  <2>3. <<Error>> \in Seq(PairType) /\ Error \in ToSet(<<Error>>)
    <3>1. DOMAIN <<Error>> = {1} /\ <<Error>>[1] = Error
      OBVIOUS
    <3> QED BY <2>2, <3>1 DEF ToSet
  <2> QED BY <2>1, <2>3 DEF Failed
<1>2. CASE \A x, y \in dirs : x.name = y.name => x = y
  <2> DEFINE D == DirOrder(dirs)
             A == ArcOrder(items)
  <2>1. PICK f : /\ pairs = f[<<1, 1>>]
                 /\ \A p \in Places(D, A) : f[p] = MergeStep(items, scene.masked, D, A, f, p[1], p[2])
    BY <1>2, PairsAreMerged
  <2>2. InOrder(dirs, items, D, A)
    BY <1>2, InOrderFacts
  <2> HIDE DEF D, A
  <2>3. Merged(pairs, dirs, items, PathsFrom(D, 1), IndicesFrom(A, 1))
    BY <2>1, <2>2, MergeFits
  <2>4. PathsFrom(D, 1) = {d.path : d \in dirs}
    <3>1. \A n \in 1..Len(D) : D[n] \in dirs
      BY <2>2 DEF InOrder
    <3>2. \A d \in dirs : \E n \in 1..Len(D) : D[n] = d
      BY <2>2 DEF InOrder
    <3> QED BY <3>1, <3>2 DEF PathsFrom
  <2>5. IndicesFrom(A, 1) = DOMAIN items
    <3>1. \A n \in 1..Len(A) : A[n] \in DOMAIN items
      BY <2>2 DEF InOrder
    <3>2. \A i \in DOMAIN items : \E n \in 1..Len(A) : A[n] = i
      BY <2>2 DEF InOrder
    <3> QED BY <3>1, <3>2 DEF IndicesFrom
  <2> QED BY <1>2, <2>3, <2>4, <2>5 DEF Merged, Failed
<1> QED BY <1>1, <1>2

-----------------------------------------------------------------------------
(* UpdateProduce, as a function that is known to exist.                    *)

KeptStep(E, G, f, n) ==
  IF n = 0 THEN <<>> ELSE IF n \notin G THEN f[n - 1] ELSE Append(f[n - 1], E[n])

KeptAll(E, G, N, f) == [n \in 0..N |-> KeptStep(E, G, f, n)]

LEMMA KeptExists ==
  ASSUME NEW E, NEW G, NEW N \in Nat
  PROVE  \E f : f = KeptAll(E, G, N, f)
<1> DEFINE Upto(f, m) == \A n \in 0..m : f[n] = KeptStep(E, G, f, n)
           B == {m \in Nat : ~\E f : Upto(f, m)}
<1>1. B = {}
  <2> SUFFICES ASSUME B # {} PROVE FALSE
    OBVIOUS
  <2>1. PICK m \in B : \A n \in B : m <= n
    <3> HIDE DEF B
    <3>1. B \in SUBSET Nat
      BY DEF B
    <3> QED BY <3>1, LeastNumber
  <2>2. PICK f : \A n \in 0..m : n # m => f[n] = KeptStep(E, G, f, n)
    <3>1. CASE m = 0
      BY <3>1
    <3>2. CASE m # 0
      <4>1. m - 1 \in Nat /\ m - 1 \notin B
        BY <2>1, <3>2
      <4>2. PICK f : Upto(f, m - 1)
        BY <4>1
      <4> QED BY <4>1, <4>2
    <3> QED BY <3>1, <3>2
  <2> DEFINE g == [n \in 0..m |-> IF n = m THEN KeptStep(E, G, f, m) ELSE f[n]]
  <2>3. m \in Nat
    BY <2>1
  <2>4. ASSUME NEW n \in 0..m PROVE g[n] = KeptStep(E, G, g, n)
    <3>1. n # 0 => n - 1 \in 0..m /\ n - 1 # m
      BY <2>3
    <3>2. n # 0 => g[n - 1] = f[n - 1]
      BY <3>1
    <3>3. KeptStep(E, G, g, n) = KeptStep(E, G, f, n)
      <4> HIDE DEF g
      <4> QED BY <3>2 DEF KeptStep
    <3>4. g[n] = IF n = m THEN KeptStep(E, G, f, m) ELSE f[n]
      OBVIOUS
    <3> HIDE DEF g
    <3> QED BY <2>2, <3>3, <3>4
  <2>5. \E h : Upto(h, m)
    <3>1. Upto(g, m)
      <4> HIDE DEF g
      <4> QED BY <2>4
    <3> HIDE DEF Upto, g
    <3> QED BY <3>1
  <2> QED BY <2>1, <2>5
<1>2. PICK f : Upto(f, N)
  <2> HIDE DEF Upto
  <2> QED BY <1>1
<1> DEFINE g == [n \in 0..N |-> KeptStep(E, G, f, n)]
<1>3. \A n \in 0..N : g[n] = f[n]
  BY <1>2
<1>4. \A n \in 0..N : KeptStep(E, G, g, n) = KeptStep(E, G, f, n)
  <2> SUFFICES ASSUME NEW n \in 0..N PROVE KeptStep(E, G, g, n) = KeptStep(E, G, f, n)
    OBVIOUS
  <2>1. n # 0 => n - 1 \in 0..N
    OBVIOUS
  <2> HIDE DEF g
  <2> QED BY <1>3, <2>1 DEF KeptStep
<1>5. g = KeptAll(E, G, N, g)
  <2> DEFINE h == KeptAll(E, G, N, g)
  <2>1. DOMAIN h = 0..N /\ \A n \in 0..N : h[n] = KeptStep(E, G, g, n)
    BY DEF KeptAll
  <2>2. DOMAIN g = 0..N /\ \A n \in 0..N : g[n] = KeptStep(E, G, f, n)
    OBVIOUS
  <2>3. h = [n \in 0..N |-> h[n]] /\ g = [n \in 0..N |-> g[n]]
    BY DEF KeptAll
  <2>4. \A n \in 0..N : h[n] = g[n]
    <3> HIDE DEF h, g
    <3> QED BY <1>4, <2>1, <2>2
  <2>5. h = g
    <3> HIDE DEF h, g
    <3> QED BY <2>3, <2>4
  <2> QED BY <2>5
<1> HIDE DEF g
<1> QED BY <1>5

(* The entries of the places in G, one for each.                           *)
Selects(r, E, G, n) ==
  /\ \A m \in 1..Len(r) : \E i \in 1..n : r[m] = E[i] /\ i \in G
  /\ \A i \in 1..n : i \in G => \E m \in 1..Len(r) : r[m] = E[i]
  /\ \A l, m \in 1..Len(r) : l # m =>
       \E i, j \in 1..n : i # j /\ i \in G /\ j \in G /\ r[l] = E[i] /\ r[m] = E[j]

LEMMA KeptSelects ==
  ASSUME NEW T, NEW N \in Nat, NEW E, NEW G, \A i \in 1..N : i \in G => E[i] \in T, NEW f, \A n \in 0..N : f[n] = KeptStep(E, G, f, n)
  PROVE  f[N] \in Seq(T) /\ Selects(f[N], E, G, N)
<1> DEFINE Good(n) == f[n] \in Seq(T) /\ Selects(f[n], E, G, n)
           B == {n \in Nat : n <= N /\ ~Good(n)}
<1> SUFFICES ASSUME B # {} PROVE FALSE
  OBVIOUS
<1>1. PICK n \in B : \A m \in B : n <= m
  <2> HIDE DEF B
  <2>1. B \in SUBSET Nat
    BY DEF B
  <2> QED BY <2>1, LeastNumber
<1>2. CASE n = 0
  <2>1. f[0] = <<>>
    BY DEF KeptStep
  <2>2. <<>> \in Seq(T) /\ Len(<<>>) = 0
    OBVIOUS
  <2>3. Good(0)
    BY <2>1, <2>2 DEF Selects
  <2> QED BY <1>1, <1>2, <2>3
<1>3. CASE n # 0
  <2>1. n \in 1..N /\ n - 1 \in Nat /\ n - 1 <= N /\ n - 1 \notin B
    BY <1>1, <1>3
  <2>2. Good(n - 1)
    BY <2>1
  <2> DEFINE q == f[n - 1]
             r == f[n]
  <2>3. r = IF n \notin G THEN q ELSE Append(q, E[n])
    BY <1>3, <2>1 DEF KeptStep
  <2>4. /\ q \in Seq(T) /\ Len(q) \in Nat
        /\ \A m \in 1..Len(q) : \E i \in 1..(n - 1) : q[m] = E[i] /\ i \in G
        /\ \A i \in 1..(n - 1) : i \in G => \E m \in 1..Len(q) : q[m] = E[i]
        /\ \A l, m \in 1..Len(q) : l # m =>
             \E i, j \in 1..(n - 1) : i # j /\ i \in G /\ j \in G /\ q[l] = E[i] /\ q[m] = E[j]
    BY <2>2 DEF Selects
  <2>5. n \in 1..n /\ \A i \in 1..(n - 1) : i \in 1..n /\ i # n
    BY <2>1
  <2>6. \A i \in 1..n : i = n \/ i \in 1..(n - 1)
    BY <2>1
  <2> HIDE DEF q, r
  <2>7. CASE n \notin G
    <3>1. r = q
      BY <2>3, <2>7
    <3>2. \A m \in 1..Len(r) : \E i \in 1..n : r[m] = E[i] /\ i \in G
      BY <2>4, <2>5, <3>1
    <3>3. \A i \in 1..n : i \in G => \E m \in 1..Len(r) : r[m] = E[i]
      BY <2>4, <2>6, <2>7, <3>1
    <3>4. \A l, m \in 1..Len(r) : l # m =>
            \E i, j \in 1..n : i # j /\ i \in G /\ j \in G /\ r[l] = E[i] /\ r[m] = E[j]
      BY <2>4, <2>5, <3>1
    <3>5. Selects(r, E, G, n)
      BY <3>2, <3>3, <3>4 DEF Selects
    <3> QED BY <1>1, <2>4, <3>1, <3>5 DEF r
  <2>8. CASE n \in G
    <3>1. /\ r \in Seq(T) /\ Len(r) = Len(q) + 1 /\ r[Len(q) + 1] = E[n]
          /\ \A m \in 1..Len(q) : r[m] = q[m] /\ m \in 1..Len(r)
      <4>1. E[n] \in T
        BY <2>1, <2>8
      <4> QED BY <2>3, <2>4, <2>8, <4>1
    <3>2. \A m \in 1..Len(r) : m \in 1..Len(q) \/ m = Len(q) + 1
      BY <2>4, <3>1
    <3>3. \A m \in 1..Len(r) : \E i \in 1..n : r[m] = E[i] /\ i \in G
      <4> SUFFICES ASSUME NEW m \in 1..Len(r) PROVE \E i \in 1..n : r[m] = E[i] /\ i \in G
        OBVIOUS
      <4>1. CASE m \in 1..Len(q)
        <5>1. PICK i \in 1..(n - 1) : q[m] = E[i] /\ i \in G
          BY <2>4, <4>1
        <5> QED BY <2>5, <3>1, <4>1, <5>1
      <4>2. CASE m = Len(q) + 1
        BY <2>5, <2>8, <3>1, <4>2
      <4> QED BY <3>2, <4>1, <4>2
    <3>4. \A i \in 1..n : i \in G => \E m \in 1..Len(r) : r[m] = E[i]
      <4>1. Len(q) + 1 \in 1..Len(r)
        BY <2>4, <3>1
      <4> QED BY <2>4, <2>6, <3>1, <4>1
    <3>5. ASSUME NEW l \in 1..Len(r), NEW m \in 1..Len(r), l # m
          PROVE  \E i, j \in 1..n : i # j /\ i \in G /\ j \in G /\ r[l] = E[i] /\ r[m] = E[j]
      <4>1. CASE l \in 1..Len(q) /\ m \in 1..Len(q)
        <5>1. PICK i \in 1..(n - 1), j \in 1..(n - 1) : i # j /\ i \in G /\ j \in G /\ q[l] = E[i] /\ q[m] = E[j]
          BY <2>4, <3>5, <4>1
        <5> QED BY <2>5, <3>1, <4>1, <5>1
      <4>2. CASE l \in 1..Len(q) /\ m = Len(q) + 1
        <5>1. PICK i \in 1..(n - 1) : q[l] = E[i] /\ i \in G
          BY <2>4, <4>2
        <5> QED BY <2>5, <2>8, <3>1, <4>2, <5>1
      <4>3. CASE l = Len(q) + 1 /\ m \in 1..Len(q)
        <5>1. PICK j \in 1..(n - 1) : q[m] = E[j] /\ j \in G
          BY <2>4, <4>3
        <5> QED BY <2>5, <2>8, <3>1, <4>3, <5>1
      <4> QED BY <3>2, <3>5, <4>1, <4>2, <4>3
    <3>6. Selects(r, E, G, n)
      BY <3>3, <3>4, <3>5 DEF Selects
    <3> QED BY <1>1, <3>1, <3>6 DEF r
  <2> QED BY <2>7, <2>8
<1> QED BY <1>2, <1>3

ChainType == [newData : BOOLEAN, dir : Nat, arc : Nat]

Entries(pairs, command) ==
  [n \in 1..Len(pairs) |->
     [newData |-> ActionSet(command)[pairs[n].state] = "compress",
      dir |-> pairs[n].dir, arc |-> pairs[n].arc]]

NotIgnored(pairs, command) ==
  {n \in 1..Len(pairs) : ActionSet(command)[pairs[n].state] # "ignore"}

LEMMA ProduceSelects ==
  ASSUME NEW pairs \in Seq(PairType), NEW command
  PROVE  /\ Produce(pairs, command) \in Seq(ChainType)
         /\ Selects(Produce(pairs, command), Entries(pairs, command), NotIgnored(pairs, command), Len(pairs))
<1> DEFINE N == Len(pairs)
           E == Entries(pairs, command)
           G == NotIgnored(pairs, command)
           m == CHOOSE f : f = KeptAll(E, G, N, f)
<1>0. N \in Nat
  OBVIOUS
<1>1. m = KeptAll(E, G, N, m)
  <2> HIDE DEF N, E, G
  <2> QED BY <1>0, KeptExists
<1>2. \A i \in 1..N : i \in G => E[i] \in ChainType
  <2> SUFFICES ASSUME NEW i \in 1..N PROVE E[i] \in ChainType
    OBVIOUS
  <2>1. pairs[i] \in PairType
    OBVIOUS
  <2> QED BY <2>1 DEF Entries, ChainType, PairType
<1>3. \A n \in 0..N : m[n] = KeptStep(E, G, m, n)
  <2> HIDE DEF N, E, G, m
  <2> QED BY <1>1 DEF KeptAll
<1>4. Produce(pairs, command) = m[N]
  <2> DEFINE K(f) == [n \in 0..N |->
                        IF n = 0 THEN <<>>
                        ELSE IF ActionSet(command)[pairs[n].state] = "ignore" THEN f[n - 1]
                        ELSE Append(f[n - 1], [newData |-> ActionSet(command)[pairs[n].state] = "compress",
                                               dir |-> pairs[n].dir, arc |-> pairs[n].arc])]
  <2>1. Produce(pairs, command) = (CHOOSE f : f = K(f))[N]
    BY DEF Produce
  <2>2. ASSUME NEW f PROVE K(f) = KeptAll(E, G, N, f)
    <3>1. ASSUME NEW n \in 0..N
          PROVE  KeptStep(E, G, f, n) =
                   IF n = 0 THEN <<>>
                   ELSE IF ActionSet(command)[pairs[n].state] = "ignore" THEN f[n - 1]
                   ELSE Append(f[n - 1], [newData |-> ActionSet(command)[pairs[n].state] = "compress",
                                          dir |-> pairs[n].dir, arc |-> pairs[n].arc])
      <4>1. CASE n = 0
        BY <4>1 DEF KeptStep
      <4>2. CASE n # 0
        <5>1. n \in 1..Len(pairs)
          BY <1>0, <4>2
        <5> QED BY <4>2, <5>1 DEF KeptStep, Entries, NotIgnored
      <4> QED BY <4>1, <4>2
    <3> QED BY <3>1 DEF KeptAll
  <2>3. \A f : (f = K(f)) <=> (f = KeptAll(E, G, N, f))
    <3> HIDE DEF K, N, E, G
    <3> QED BY <2>2
  <2>4. (CHOOSE f : f = K(f)) = (CHOOSE f : f = KeptAll(E, G, N, f))
    <3> HIDE DEF K, N, E, G
    <3> QED BY <2>3
  <2> QED BY <2>1, <2>4
<1>5. m[N] \in Seq(ChainType) /\ Selects(m[N], E, G, N)
  <2> HIDE DEF N, E, G, m
  <2> QED BY <1>0, <1>2, <1>3, KeptSelects
<1> QED BY <1>4, <1>5

-----------------------------------------------------------------------------
(* The chain has the items to copy and the files to compress, each once.   *)

ChainIsRight(q, items, dirs) ==
  /\ q \in Seq(ChainType)
  /\ \A n \in 1..Len(q) : q[n].newData => \E d \in CompressedFiles(items, dirs) : d.path = q[n].dir
  /\ \A n \in 1..Len(q) : ~q[n].newData => q[n].arc \in CopiedIndices(items, dirs)
  /\ \A d \in CompressedFiles(items, dirs) : \E n \in 1..Len(q) : q[n].newData /\ q[n].dir = d.path
  /\ \A i \in CopiedIndices(items, dirs) : \E n \in 1..Len(q) : ~q[n].newData /\ q[n].arc = i
  /\ \A m, n \in 1..Len(q) : m # n /\ q[m].newData /\ q[n].newData => q[m].dir # q[n].dir
  /\ \A m, n \in 1..Len(q) : m # n /\ ~q[m].newData /\ ~q[n].newData => q[m].arc # q[n].arc

LEMMA ChainFromPairs ==
  ASSUME NEW dirs, NEW items, Files(dirs), items \in Seq(ItemType), NEW pairs \in Seq(PairType),
         CoversOnce(pairs, FittingPairs(dirs, items), {d.path : d \in dirs}, DOMAIN items)
  PROVE  ChainIsRight(Produce(pairs, scene.command), items, dirs)
<1> DEFINE q == Produce(pairs, scene.command)
           E == Entries(pairs, scene.command)
           G == NotIgnored(pairs, scene.command)
           N == Len(pairs)
           Act(n) == ActionSet(scene.command)[pairs[n].state]
<1>1. q \in Seq(ChainType) /\ Selects(q, E, G, N)
  BY ProduceSelects
<1>2. ASSUME NEW n \in 1..N
      PROVE  /\ pairs[n] \in FittingPairs(dirs, items) /\ Act(n) \in {"copy", "ignore", "compress"}
             /\ Act(n) = "compress" => pairs[n].dir # None
             /\ Act(n) = "copy" => pairs[n].arc # None
             /\ (E[n].newData <=> Act(n) = "compress") /\ E[n].dir = pairs[n].dir /\ E[n].arc = pairs[n].arc
             /\ n \in G <=> Act(n) # "ignore"
  <2>1. pairs[n] \in FittingPairs(dirs, items)
    BY DEF CoversOnce
  <2>2. pairs[n].state \in States
    BY <2>1 DEF FittingPairs
  <2>3. Act(n) \in {"copy", "ignore", "compress"}
    BY <2>2 DEF ActionSet, States
  <2>4. /\ pairs[n].state \in {"notMasked", "onlyInArchive"} => Act(n) # "compress"
        /\ pairs[n].state = "onlyOnDisk" => Act(n) # "copy"
    BY <2>2 DEF ActionSet, States
  <2>5. /\ pairs[n].dir = None => pairs[n].state \in {"notMasked", "onlyInArchive"}
        /\ pairs[n].arc = None => pairs[n].state = "onlyOnDisk"
    BY <2>1 DEF FittingPairs
  <2>6. (E[n].newData <=> Act(n) = "compress") /\ E[n].dir = pairs[n].dir /\ E[n].arc = pairs[n].arc
    BY DEF Entries
  <2>7. n \in G <=> Act(n) # "ignore"
    BY DEF NotIgnored
  <2> QED BY <2>1, <2>3, <2>4, <2>5, <2>6, <2>7
<1>3. \A m \in 1..Len(q) : \E i \in 1..N : q[m] = E[i] /\ i \in G
  BY <1>1 DEF Selects
<1>4. \A i \in 1..N : i \in G => \E m \in 1..Len(q) : q[m] = E[i]
  BY <1>1 DEF Selects
<1>5. \A l, m \in 1..Len(q) : l # m =>
        \E i, j \in 1..N : i # j /\ i \in G /\ j \in G /\ q[l] = E[i] /\ q[m] = E[j]
  BY <1>1 DEF Selects
<1>6. /\ \A m, n \in 1..N : m # n /\ pairs[m].dir = pairs[n].dir => pairs[m].dir = None
      /\ \A m, n \in 1..N : m # n /\ pairs[m].arc = pairs[n].arc => pairs[m].arc = None
  BY DEF CoversOnce
<1>7. /\ \A d \in dirs : d.path # None
      /\ \A i \in DOMAIN items : i # None
      /\ \A d, e \in dirs : d.path = e.path => d = e
  <2>1. \A d \in DirItemType : d.path # None
    BY DEF DirItemType
  <2>2. \A i \in DOMAIN items : i # None
    BY DEF None
  <2> QED BY <2>1, <2>2 DEF Files
<1>8. /\ \A d \in dirs : \E n \in 1..N : pairs[n].dir = d.path
      /\ \A i \in DOMAIN items : \E n \in 1..N : pairs[n].arc = i
  BY DEF CoversOnce
<1> HIDE DEF q, E, G, N
<1>9. ASSUME NEW n \in 1..N, Act(n) = "compress"
      PROVE  \E d \in CompressedFiles(items, dirs) : d.path = pairs[n].dir
  <2>1. PICK d \in dirs : d.path = pairs[n].dir /\ pairs[n].state = DirItemState(d, items)
    BY <1>2, <1>9 DEF FittingPairs
  <2> QED BY <1>9, <2>1 DEF CompressedFiles
<1>10. ASSUME NEW n \in 1..N, Act(n) = "copy" PROVE pairs[n].arc \in CopiedIndices(items, dirs)
  <2>1. pairs[n].arc \in DOMAIN items /\ pairs[n].state = ArcItemState(items[pairs[n].arc], dirs)
    BY <1>2, <1>10 DEF FittingPairs
  <2> QED BY <1>10, <2>1 DEF CopiedIndices
<1>11. \A m \in 1..Len(q) : q[m].newData => \E d \in CompressedFiles(items, dirs) : d.path = q[m].dir
  <2> SUFFICES ASSUME NEW m \in 1..Len(q), q[m].newData
               PROVE  \E d \in CompressedFiles(items, dirs) : d.path = q[m].dir
    OBVIOUS
  <2>1. PICK i \in 1..N : q[m] = E[i] /\ i \in G
    BY <1>3
  <2>2. E[i].newData
    BY <2>1
  <2>3. Act(i) = "compress" /\ q[m].dir = pairs[i].dir
    BY <1>2, <2>1, <2>2
  <2> QED BY <1>9, <2>3
<1>12. \A m \in 1..Len(q) : ~q[m].newData => q[m].arc \in CopiedIndices(items, dirs)
  <2> SUFFICES ASSUME NEW m \in 1..Len(q), ~q[m].newData PROVE q[m].arc \in CopiedIndices(items, dirs)
    OBVIOUS
  <2>1. PICK i \in 1..N : q[m] = E[i] /\ i \in G
    BY <1>3
  <2>2. Act(i) = "copy"
    BY <1>2, <2>1
  <2> QED BY <1>2, <1>10, <2>1, <2>2
<1>13. ASSUME NEW d \in CompressedFiles(items, dirs)
       PROVE  \E m \in 1..Len(q) : q[m].newData /\ q[m].dir = d.path
  <2>1. d \in dirs /\ ActionSet(scene.command)[DirItemState(d, items)] = "compress"
    BY DEF CompressedFiles
  <2>2. PICK n \in 1..N : pairs[n].dir = d.path
    BY <1>8, <2>1
  <2>3. PICK e \in dirs : e.path = pairs[n].dir /\ pairs[n].state = DirItemState(e, items)
    BY <1>2, <1>7, <2>1, <2>2 DEF FittingPairs
  <2>4. e = d
    BY <1>7, <2>1, <2>2, <2>3
  <2>5. Act(n) = "compress"
    BY <2>1, <2>3, <2>4
  <2>6. n \in G /\ E[n].newData /\ E[n].dir = d.path
    BY <1>2, <2>2, <2>5
  <2>7. PICK m \in 1..Len(q) : q[m] = E[n]
    BY <1>4, <2>6
  <2> QED BY <2>6, <2>7
<1>14. ASSUME NEW i \in CopiedIndices(items, dirs)
       PROVE  \E m \in 1..Len(q) : ~q[m].newData /\ q[m].arc = i
  <2>1. i \in DOMAIN items /\ ActionSet(scene.command)[ArcItemState(items[i], dirs)] = "copy"
    BY DEF CopiedIndices
  <2>2. PICK n \in 1..N : pairs[n].arc = i
    BY <1>8, <2>1
  <2>3. pairs[n].state = ArcItemState(items[i], dirs)
    BY <1>2, <1>7, <2>1, <2>2 DEF FittingPairs
  <2>4. Act(n) = "copy"
    BY <2>1, <2>3
  <2>5. n \in G /\ ~E[n].newData /\ E[n].arc = i
    BY <1>2, <2>2, <2>4
  <2>6. PICK m \in 1..Len(q) : q[m] = E[n]
    BY <1>4, <2>5
  <2> QED BY <2>5, <2>6
<1>15. ASSUME NEW l \in 1..Len(q), NEW m \in 1..Len(q), l # m
       PROVE  /\ q[l].newData /\ q[m].newData => q[l].dir # q[m].dir
              /\ ~q[l].newData /\ ~q[m].newData => q[l].arc # q[m].arc
  <2>1. PICK i \in 1..N, j \in 1..N : i # j /\ i \in G /\ j \in G /\ q[l] = E[i] /\ q[m] = E[j]
    BY <1>5, <1>15
  <2>2. ASSUME q[l].newData, q[m].newData PROVE q[l].dir # q[m].dir
    <3>1. Act(i) = "compress" /\ Act(j) = "compress"
      BY <1>2, <2>1, <2>2
    <3> QED BY <1>2, <1>6, <2>1, <3>1
  <2>3. ASSUME ~q[l].newData, ~q[m].newData PROVE q[l].arc # q[m].arc
    <3>1. Act(i) = "copy" /\ Act(j) = "copy"
      BY <1>2, <2>1, <2>3
    <3> QED BY <1>2, <1>6, <2>1, <3>1
  <2> QED BY <2>2, <2>3
<1>16. ChainIsRight(q, items, dirs)
  BY <1>1, <1>11, <1>12, <1>13, <1>14, <1>15 DEF ChainIsRight
<1> QED BY <1>16 DEF q
-----------------------------------------------------------------------------
(* The inductive invariant.                                                *)

Early == {"open", "scan", "pair", "create"}
Paired == {"create", "write", "close", "forget", "delete", "move", "copy", "unlink", "sources"}
Read == {"scan", "pair"} \cup Paired

(* The scene, which never changes.                                         *)
SceneRight ==
  /\ scene \in SceneType /\ Files(scene.disk)
  /\ scene.deleteAfter => scene.command = "add"
  /\ scene.arc.state = "none" => scene.arc.items = <<>>

(* Files that do not exist, and the paths a temporary file can get.        *)
FilesRight ==
  /\ \A f \in DOMAIN files : files[f].state = "none" => files[f] = NoFile
  /\ \A f \in TempPaths :
       f > runs \/ (f = runs /\ pc \in Early) => files[f].state = "none"

(* A file that could not be opened is skipped when its item is written,    *)
(* and is no directory.                                                    *)
SkippedRight ==
  \A s \in skipped : s[1] <= runs /\ (pc \in Early => s[1] < runs) /\ ~DirItem(s[2]).isDir

(* What was read stays what it was.                                        *)
ReadRight ==
  /\ pc \in Read =>
       arcOpened = (before.state = "whole") /\ arcItems = before.items /\ before.state \in {"none", "whole"}
  /\ pc \in ({"pair"} \cup Paired) \ {"sources"} =>
       dirItems = (IF NeedScanning(scene.command) THEN Here ELSE {})
  /\ pc \in Paired => ChainIsRight(chain, arcItems, dirItems)
  /\ k # 0 /\ (pc = "write" => k <= Len(chain) + 1)
  /\ pc \in Early => k = 1

EntryItem(n) ==
  IF chain[n].newData THEN Item(DirItem(chain[n].dir)) ELSE arcItems[chain[n].arc]

LeftOut(n) == chain[n].newData /\ <<runs, chain[n].dir>> \in skipped

(* The new archive, while it is written: the chain up to k, without what   *)
(* was skipped.                                                            *)
WrittenRight ==
  pc = "write" =>
    LET W == {n \in 1..(k - 1) : ~LeftOut(n)} IN
    /\ files[outPath].state = "partial"
    /\ ToSet(files[outPath].items) = {EntryItem(n) : n \in W}
    /\ Len(files[outPath].items) = Cardinality(W)
    /\ \A n \in k..Len(chain) : ~LeftOut(n)

(* Where the old and the new archive are, at each place in the code.       *)
PlaceRight ==
  /\ pc \in Early => outPath = ArcPath /\ tempFiles = {}
  /\ pc \in {"scan", "pair", "create"} => files[ArcPath] = before
  /\ pc \in {"write", "close", "forget"} =>
       /\ tempFiles = {outPath}
       /\ IF CreateTempFile THEN outPath # ArcPath /\ files[ArcPath] = before
          ELSE outPath = ArcPath /\ before = NoFile
  /\ pc \in {"delete", "move", "copy", "unlink"} =>
       tempFiles = {} /\ CreateTempFile /\ outPath # ArcPath /\ Updated(outPath)
  /\ pc = "delete" => files[ArcPath] = before
  /\ pc = "move" => files[ArcPath] = NoFile
  /\ pc \in {"copy", "unlink"} => scene.otherDevice
  /\ pc = "copy" => files[ArcPath].state = "partial"
  /\ pc = "unlink" => files[ArcPath] = files[outPath] \/ CutCopy
  /\ pc \in {"close", "forget"} => Updated(outPath)
  /\ pc = "sources" =>
       /\ tempFiles = {} /\ (Updated(ArcPath) \/ CutCopy)
       /\ CreateTempFile => files[outPath] = NoFile
  /\ pc \in {"returned", "crashed"} => tempFiles = {}

ReturnRight ==
  /\ pc = "cleanup" => returned \in {"ok", "error"}
  /\ pc \in {"cleanup", "returned"} /\ returned = "ok" =>
       /\ tempFiles = {} /\ (Updated(ArcPath) \/ CutCopy)
       /\ CreateTempFile => files[outPath] = NoFile
  /\ pc \in {"cleanup", "returned"} /\ returned = "error" =>
       \/ CutCopy
       \/ /\ files[ArcPath] = before \/ (ArcPath \in tempFiles /\ before = NoFile)
          /\ ArcPath \in tempFiles => before = NoFile
          /\ outPath # ArcPath => files[outPath] = NoFile \/ outPath \in tempFiles
       \/ tempFiles = {} /\ (Updated(outPath) \/ Updated(ArcPath))

AllDirs == IF NeedScanning(scene.command) THEN scene.disk ELSE {}
FailsAlways == Failed(UpdatePairs(AllDirs, scene.arc.items, scene.masked))
UniqueNames == \A d, e \in scene.disk : d.name = e.name => d = e

(* Files are deleted only for -sdel, when all of them could be paired.     *)
PresentRight ==
  /\ processed = {}
  /\ present # {d.path : d \in scene.disk} => scene.deleteAfter /\ UniqueNames
  /\ pc \in Paired /\ scene.command = "add" => UniqueNames
  /\ FailsAlways =>
       /\ pc \in {"open", "scan", "pair", "cleanup", "returned", "crashed"} /\ tempFiles = {}
       /\ files[ArcPath] = scene.arc /\ present = {d.path : d \in scene.disk}

Kept(items) ==
  \E f \in DOMAIN files \ tempFiles : files[f].state = "whole" /\ items \subseteq ToSet(files[f].items)

(* A cut copy stays, and the next run does not get beyond opening it.      *)
CutRight ==
  files[ArcPath].state = "cut" =>
    /\ pc \in {"open", "unlink", "sources", "cleanup", "returned", "crashed"}
    /\ scene.otherDevice /\ ArcPath \notin tempFiles

(* The files that have what must not be lost are not temporary.            *)
AllKept ==
  /\ scene.arc.state = "whole" => Kept(KeptItems)
  /\ \A d \in scene.disk :
       d.path \notin present =>
         Kept({Item(d)}) \/ (d.size = 0 /\ \E n \in 1..runs : <<n, d.path>> \in skipped)

KeptRight == CutCopy \/ AllKept

IInv ==
  /\ TypeOK /\ SceneRight /\ FilesRight /\ SkippedRight /\ ReadRight /\ WrittenRight
  /\ PlaceRight /\ ReturnRight /\ PresentRight /\ CutRight /\ KeptRight


-----------------------------------------------------------------------------
(* What does not change when the state it is about does not.               *)

LEMMA SceneStable ==
  ASSUME scene' = scene
  PROVE  /\ \A p : DirItem(p)' = DirItem(p)
         /\ \A i, d : CopiedIndices(i, d)' = CopiedIndices(i, d)
         /\ \A i, d : CompressedFiles(i, d)' = CompressedFiles(i, d)
         /\ KeptItems' = KeptItems /\ AllDirs' = AllDirs
         /\ FailsAlways' = FailsAlways /\ UniqueNames' = UniqueNames
<1>1. \A p : DirItem(p)' = DirItem(p)
  BY DEF DirItem
<1>2. \A i, d : CopiedIndices(i, d)' = CopiedIndices(i, d)
  BY DEF CopiedIndices, ArcItemState
<1>3. \A i, d : CompressedFiles(i, d)' = CompressedFiles(i, d)
  BY DEF CompressedFiles, DirItemState
<1>4. KeptItems' = KeptItems
  BY <1>2 DEF KeptItems
<1>5. AllDirs' = AllDirs
  BY DEF AllDirs
<1>6. FailsAlways' = FailsAlways
  BY <1>5 DEF FailsAlways
<1>7. UniqueNames' = UniqueNames
  BY DEF UniqueNames
<1> QED BY <1>1, <1>2, <1>3, <1>4, <1>5, <1>6, <1>7

LEMMA UpdatedStable ==
  ASSUME NEW f, NEW g, Updated(f), files'[g] = files[f],
         UNCHANGED <<scene, arcItems, dirItems, skipped, runs>>
  PROVE  Updated(g)'
<1>1. /\ CopiedIndices(arcItems, dirItems)' = CopiedIndices(arcItems, dirItems)
      /\ CompressedFiles(arcItems, dirItems)' = CompressedFiles(arcItems, dirItems)
  BY SceneStable
<1> QED BY <1>1 DEF Updated

(* The path of the new archive is not taken.                               *)
LEMMA FreePathRight ==
  ASSUME IInv, pc = "create"
  PROVE  /\ CreateTempFile => FreePath \in TempPaths /\ FreePath <= runs /\ FreePath # ArcPath
         /\ ~CreateTempFile => FreePath = ArcPath /\ before = NoFile
         /\ FreePath \in DOMAIN files /\ files[FreePath] = NoFile
<1>1. /\ MaxRuns \in Nat \ {0} /\ runs \in 1..MaxRuns /\ DOMAIN files = {ArcPath} \cup TempPaths
      /\ \A f \in DOMAIN files : files[f].state = "none" => files[f] = NoFile
      /\ files[runs].state = "none" /\ runs \in TempPaths
  BY ConstantsAssumption DEF IInv, TypeOK, FilesRight, TempPaths, Early
<1>2. CASE CreateTempFile
  <2> DEFINE F == {f \in TempPaths : files[f].state = "none"}
  <2>1. F \in SUBSET Nat /\ F # {} /\ runs \in F
    BY <1>1 DEF TempPaths
  <2>2. PICK f \in F : \A g \in F : f <= g
    <3> HIDE DEF F
    <3> QED BY <2>1, LeastNumber
  <2>3. \A g \in 1..(f - 1) : files[g].state # "none"
    <3> SUFFICES ASSUME NEW g \in 1..(f - 1), files[g].state = "none" PROVE FALSE
      OBVIOUS
    <3>1. g \in TempPaths /\ g < f
      BY <1>1, <2>2 DEF TempPaths
    <3> QED BY <2>2, <3>1 DEF TempPaths
  <2>4. \E h \in TempPaths :
          files[h].state = "none" /\ \A g \in 1..(h - 1) : files[g].state # "none"
    BY <2>2, <2>3
  <2>5. FreePath \in TempPaths /\ files[FreePath].state = "none" /\ \A g \in 1..(FreePath - 1) : files[g].state # "none"
    BY <1>2, <2>4 DEF FreePath
  <2>6. FreePath <= runs
    <3> SUFFICES ASSUME ~(FreePath <= runs) PROVE FALSE
      OBVIOUS
    <3>1. runs \in 1..(FreePath - 1)
      BY <1>1, <2>5 DEF TempPaths
    <3> QED BY <1>1, <2>5, <3>1
  <2> QED BY <1>1, <1>2, <2>5, <2>6 DEF TempPaths, ArcPath
<1>3. CASE ~CreateTempFile
  <2>1. FreePath = ArcPath
    BY <1>3 DEF FreePath
  <2>2. ~arcOpened
    BY <1>3 DEF CreateTempFile
  <2>3. before.state \in {"none", "whole"} /\ before.state # "whole" /\ before = files[ArcPath] /\ before \in FileType
    BY <2>2 DEF IInv, ReadRight, PlaceRight, Read, Paired, TypeOK
  <2>4. before.state = "none"
    BY <2>3 DEF FileType
  <2> QED BY <1>1, <1>3, <2>1, <2>3, <2>4
<1> QED BY <1>2, <1>3

(* The item that is written next.                                          *)
LEMMA ChainEntryRight ==
  ASSUME IInv, pc \in Paired, NEW n \in 1..Len(chain)
  PROVE  /\ chain[n] \in ChainType
         /\ chain[n].newData =>
              /\ DirItem(chain[n].dir) \in CompressedFiles(arcItems, dirItems)
              /\ DirItem(chain[n].dir).path = chain[n].dir
              /\ DirItem(chain[n].dir) \in scene.disk
         /\ ~chain[n].newData =>
              /\ chain[n].arc \in CopiedIndices(arcItems, dirItems)
              /\ arcItems[chain[n].arc] \in ItemType
         /\ EntryItem(n) \in ItemType
<1>1. ChainIsRight(chain, arcItems, dirItems)
  BY DEF IInv, ReadRight
<1>2. /\ arcItems \in Seq(ItemType) /\ dirItems \subseteq scene.disk
      /\ scene.disk \subseteq DirItemType /\ Files(scene.disk)
  BY DEF IInv, TypeOK, SceneRight, SceneType
<1>3. chain \in Seq(ChainType)
  BY <1>1 DEF ChainIsRight
<1>4. ASSUME chain[n].newData
      PROVE  /\ DirItem(chain[n].dir) \in CompressedFiles(arcItems, dirItems)
             /\ DirItem(chain[n].dir).path = chain[n].dir
             /\ DirItem(chain[n].dir) \in scene.disk
  <2>1. PICK d \in CompressedFiles(arcItems, dirItems) : d.path = chain[n].dir
    BY <1>1, <1>4 DEF ChainIsRight
  <2>2. d \in scene.disk
    BY <1>2 DEF CompressedFiles
  <2>3. \A e \in scene.disk : e.path = chain[n].dir => e = d
    BY <1>2, <2>1, <2>2 DEF Files
  <2>4. DirItem(chain[n].dir) = d
    BY <2>1, <2>2, <2>3 DEF DirItem
  <2> QED BY <2>1, <2>2, <2>4
<1>5. ASSUME ~chain[n].newData
      PROVE  /\ chain[n].arc \in CopiedIndices(arcItems, dirItems)
             /\ arcItems[chain[n].arc] \in ItemType
  <2>1. chain[n].arc \in CopiedIndices(arcItems, dirItems)
    BY <1>1, <1>5 DEF ChainIsRight
  <2>2. chain[n].arc \in DOMAIN arcItems
    BY <2>1 DEF CopiedIndices
  <2> QED BY <1>2, <2>1, <2>2
<1>6. \A d \in DirItemType : Item(d) \in ItemType
  BY DEF DirItemType, Item, ItemType, Opt
<1>7. EntryItem(n) \in ItemType
  BY <1>2, <1>4, <1>5, <1>6 DEF EntryItem
<1> QED BY <1>3, <1>4, <1>5, <1>7

(* Sources is a sequence of files that were scanned.                       *)
LEMMA SourcesRight ==
  ASSUME IInv
  PROVE  /\ Len(Sources) \in Nat
         /\ \A n \in 1..Len(Sources) : Sources[n] \in dirItems /\ Sources[n] \in scene.disk
<1> DEFINE S == dirItems
           N == Cardinality(S)
           R == {p \in S \X S : SourceBefore(p[1], p[2])}
<1>1. S \subseteq scene.disk /\ Files(scene.disk) /\ scene.disk \subseteq DirItemType
  BY DEF IInv, TypeOK, SceneRight, Files
<1>2. IsFiniteSet(S) /\ \A x, y \in S : x.path = y.path => x = y
  BY <1>1, FS_Subset DEF Files
<1>3. \A d \in S : d.path \in Nat /\ d.isDir \in BOOLEAN
  BY <1>1 DEF DirItemType
<1>4. \A x, y \in S : <<x, y>> \in R <=> SourceBefore(x, y)
  OBVIOUS
<1> HIDE DEF S, R
<1>5. \A x, y \in S : x # y => <<x, y>> \in R \/ <<y, x>> \in R
  BY <1>2, <1>3, <1>4 DEF SourceBefore
<1>6. \A x, y, z \in S : <<x, y>> \in R /\ <<y, z>> \in R => <<x, z>> \in R
  BY <1>2, <1>3, <1>4 DEF SourceBefore
<1>7. \E q \in [1..N -> S] : \A m, n \in 1..N : m < n => <<q[m], q[n]>> \in R
  BY <1>2, <1>5, <1>6, SortedSequence
<1>8. \E q \in [1..N -> S] : \A m, n \in DOMAIN q : m < n => SourceBefore(q[m], q[n])
  BY <1>4, <1>7
<1>9. Sources \in [1..N -> S]
  BY <1>8 DEF Sources, S
<1>10. N \in Nat
  BY <1>2, FS_CardinalityType
<1>11. Len(Sources) = N
  <2>1. Sources \in Seq(S)
    BY <1>9, <1>10
  <2>2. DOMAIN Sources = 1..Len(Sources) /\ Len(Sources) \in Nat /\ DOMAIN Sources = 1..N
    BY <1>9, <2>1
  <2> QED BY <1>10, <2>2
<1> QED BY <1>1, <1>9, <1>10, <1>11 DEF S

-----------------------------------------------------------------------------
(* The conjuncts of the invariant, one after the other.                    *)

LEMMA WriteItemFiles ==
  ASSUME IInv, WriteItem
  PROVE  \/ files' = files
         \/ /\ chain[k].newData \/ ~chain[k].newData
            /\ Append2Out(EntryItem(k))
            /\ files' \in [DOMAIN files -> FileType]
<1>1. k \in 1..Len(chain)
  BY DEF IInv, TypeOK, ReadRight, WriteItem
<1>2. EntryItem(k) \in ItemType
  BY <1>1, ChainEntryRight DEF WriteItem, Paired
<1>3. files' = files \/ Append2Out(EntryItem(k))
  BY DEF WriteItem, EntryItem
<1>4. ASSUME Append2Out(EntryItem(k)) PROVE files' \in [DOMAIN files -> FileType]
  <2>1. files \in [DOMAIN files -> FileType] /\ outPath \in DOMAIN files
    BY DEF IInv, TypeOK
  <2>2. files[outPath].items \in Seq(ItemType) /\ files[outPath].state \in {"none", "partial", "cut", "whole"}
    BY <2>1 DEF FileType
  <2>3. Append(files[outPath].items, EntryItem(k)) \in Seq(ItemType)
    BY <1>2, <2>2
  <2>4. [files[outPath] EXCEPT !.items = Append(files[outPath].items, EntryItem(k))] \in FileType
    BY <2>1, <2>3 DEF FileType
  <2> QED BY <1>4, <2>1, <2>4 DEF Append2Out
<1> QED BY <1>3, <1>4

LEMMA FilesTyped ==
  ASSUME IInv, Next
  PROVE  files' \in [{ArcPath} \cup TempPaths -> FileType]
<1> DEFINE S == {ArcPath} \cup TempPaths
<1>1. files \in [S -> FileType] /\ DOMAIN files = S /\ outPath \in S /\ ArcPath \in S
  BY DEF IInv, TypeOK
<1>2. <<>> \in Seq(ItemType)
  OBVIOUS
<1>3. /\ NoFile \in FileType /\ [state |-> "partial", items |-> <<>>] \in FileType
      /\ [state |-> "cut", items |-> <<>>] \in FileType
  BY <1>2 DEF NoFile, FileType
<1>4. [files[outPath] EXCEPT !.state = "whole"] \in FileType
  BY <1>1 DEF FileType
<1> HIDE DEF S
<1>5. CASE UNCHANGED files
  BY <1>1, <1>5 DEF S
<1>6. CASE CreateFile
  <2>1. FreePath \in S
    BY <1>1, <1>6, FreePathRight DEF CreateFile, S
  <2> QED BY <1>1, <1>3, <1>6, <2>1 DEF CreateFile, S
<1>7. CASE WriteItem
  BY <1>1, <1>7, WriteItemFiles DEF S
<1>8. CASE FinishFile \/ DeleteOld \/ Rename
  BY <1>1, <1>3, <1>4, <1>8 DEF FinishFile, DeleteOld, Rename, S
<1>9. CASE CopyStart \/ CopyEnd \/ Unlink
  BY <1>1, <1>3, <1>9 DEF CopyStart, CopyEnd, Unlink, S
<1>10. CASE Cleanup
  BY <1>1, <1>3, <1>10 DEF Cleanup, S
<1> QED BY <1>5, <1>6, <1>7, <1>8, <1>9, <1>10
  DEF Next, OpenArchive, EnumerateItems, MakePairs, CloseArchive, ForgetTempFiles, DeleteSource,
      Succeed, Crash, RunAgain, Done, disk, vars

(* What has no part in opening, pairing and writing keeps its type.        *)
LEMMA TypeStep ==
  ASSUME IInv, Next
  PROVE  TypeOK'
<1>0. TypeOK
  BY DEF IInv
<1>1. files' \in [{ArcPath} \cup TempPaths -> FileType] /\ DOMAIN files' = DOMAIN files
  BY <1>0, FilesTyped DEF TypeOK
<1>2. CASE OpenArchive
  <2>1. files[ArcPath] \in FileType
    BY <1>0 DEF TypeOK
  <2>2. files[ArcPath].items \in Seq(ItemType)
    BY <2>1 DEF FileType
  <2> QED BY <1>0, <1>1, <1>2, <2>1, <2>2 DEF OpenArchive, TypeOK, Goto, ReturnError, Fails, disk
<1>3. CASE EnumerateItems
  <2>1. Here \subseteq scene.disk
    BY DEF Here
  <2> QED BY <1>0, <1>1, <1>3, <2>1 DEF EnumerateItems, TypeOK, Goto, ReturnError, Fails, disk
<1>4. CASE MakePairs
  <2>1. CASE UNCHANGED chain
    BY <1>0, <1>1, <1>4, <2>1 DEF MakePairs, TypeOK, Goto, ReturnError, disk
  <2>2. CASE chain' = Produce(UpdatePairs(dirItems, arcItems, scene.masked), scene.command)
    <3>1. Files(scene.disk) /\ dirItems \subseteq scene.disk /\ arcItems \in Seq(ItemType)
      BY <1>0 DEF IInv, SceneRight, TypeOK
    <3>2. Files(dirItems)
      BY <3>1, FS_Subset DEF Files
    <3>3. UpdatePairs(dirItems, arcItems, scene.masked) \in Seq(PairType)
      BY <3>1, <3>2, UpdatePairsFit
    <3>4. chain' \in Seq(ChainType)
      BY <2>2, <3>3, ProduceSelects
    <3> QED BY <1>0, <1>1, <1>4, <3>4 DEF MakePairs, TypeOK, ChainType, Goto, ReturnError, disk
  <2> QED BY <1>4, <2>1, <2>2 DEF MakePairs
<1>5. CASE CreateFile
  <2>1. FreePath \in DOMAIN files
    BY <1>5, FreePathRight DEF CreateFile
  <2> QED BY <1>0, <1>1, <1>5, <2>1 DEF CreateFile, TypeOK, Goto, ReturnError, Fails
<1>6. CASE WriteItem
  <2>1. k \in 1..Len(chain)
    BY <1>6 DEF IInv, TypeOK, ReadRight, WriteItem
  <2>2. chain[k].newData => \E d \in scene.disk : d.path = chain[k].dir
    BY <1>6, <2>1, ChainEntryRight DEF WriteItem, Paired
  <2>3. chain[k].newData => chain[k].dir \in {d.path : d \in scene.disk}
    BY <2>2
  <2>4. processed' \subseteq {d.path : d \in scene.disk}
    BY <1>0, <1>6, <2>3 DEF TypeOK, WriteItem, StatusesPassed
  <2>5. skipped' \subseteq (1..MaxRuns) \X {d.path : d \in scene.disk}
    BY <1>0, <1>6, <2>3 DEF TypeOK, WriteItem
  <2>6. k' \in Nat /\ pc' \in {"write", "cleanup"} /\ returned' \in {"no", "ok", "error"}
    BY <1>0, <1>6 DEF TypeOK, WriteItem, Goto, ReturnError, Fails
  <2> QED BY <1>0, <1>1, <1>6, <2>4, <2>5, <2>6 DEF WriteItem, TypeOK
<1>7. CASE FinishFile \/ CloseArchive \/ ForgetTempFiles
  BY <1>0, <1>1, <1>7
  DEF FinishFile, CloseArchive, ForgetTempFiles, TypeOK, Goto, ReturnError, Fails, locals, disk
<1>8. CASE DeleteOld \/ Rename \/ CopyStart \/ CopyEnd \/ Unlink
  BY <1>0, <1>1, <1>8
  DEF DeleteOld, Rename, CopyStart, CopyEnd, Unlink, TypeOK, Goto, ReturnError, Fails, locals
<1>9. CASE DeleteSource
  BY <1>0, <1>1, <1>9 DEF DeleteSource, TypeOK, Goto, ReturnError, Fails, locals
<1>10. CASE Succeed \/ Cleanup \/ Crash
  BY <1>0, <1>1, <1>10 DEF Succeed, Cleanup, Crash, TypeOK, Goto, ReturnError, Fails, locals, disk
<1>11. CASE RunAgain
  <2>1. <<>> \in Seq(ItemType) /\ <<>> \in Seq([newData : BOOLEAN, dir : Nat, arc : Nat])
    OBVIOUS
  <2>2. runs' \in 1..MaxRuns
    BY <1>0, <1>11, ConstantsAssumption DEF RunAgain, TypeOK
  <2>3. ArcPath \in DOMAIN files
    BY <1>0 DEF TypeOK
  <2> QED BY <1>0, <1>1, <1>11, <2>1, <2>2, <2>3 DEF RunAgain, TypeOK, disk
<1>12. CASE Done
  BY <1>0, <1>12 DEF Done, vars, TypeOK
<1> QED BY <1>2, <1>3, <1>4, <1>5, <1>6, <1>7, <1>8, <1>9, <1>10, <1>11, <1>12 DEF Next

LEMMA SceneStep ==
  ASSUME IInv, Next
  PROVE  SceneRight' /\ scene' = scene
<1>1. scene' = scene
  BY DEF Next, OpenArchive, EnumerateItems, MakePairs, CreateFile, WriteItem, FinishFile,
         CloseArchive, ForgetTempFiles, DeleteOld, Rename, CopyStart, CopyEnd, Unlink, DeleteSource,
         Succeed, Cleanup, Crash, RunAgain, Done, vars
<1> QED BY <1>1 DEF IInv, SceneRight

LEMMA FilesStep ==
  ASSUME IInv, Next
  PROVE  FilesRight'
<1> DEFINE Good(r, e, fs) ==
             /\ \A f \in DOMAIN files : fs[f].state = "none" => fs[f] = NoFile
             /\ \A f \in TempPaths : f > r \/ (f = r /\ e) => fs[f].state = "none"
<1>1. /\ files \in [{ArcPath} \cup TempPaths -> FileType] /\ outPath \in DOMAIN files
      /\ runs \in Nat /\ ArcPath \notin TempPaths /\ TempPaths \subseteq Nat
  BY DEF IInv, TypeOK, TempPaths, ArcPath
<1>2. Good(runs, pc \in Early, files)
  BY <1>1 DEF IInv, FilesRight
<1>3. NoFile.state = "none"
  BY DEF NoFile
<1>4. DOMAIN files' = DOMAIN files
  BY <1>1, FilesTyped
<1> SUFFICES Good(runs', pc' \in Early, files')
  BY <1>4 DEF FilesRight
<1>5. CASE UNCHANGED <<files, runs>> /\ (pc' \in Early => pc \in Early)
  BY <1>2, <1>5
<1>6. CASE CreateFile /\ files' # files
  <2>1. /\ CreateTempFile => FreePath <= runs
        /\ ~CreateTempFile => FreePath = ArcPath
    BY <1>6, FreePathRight DEF CreateFile
  <2>2. /\ files' = [files EXCEPT ![FreePath] = [state |-> "partial", items |-> <<>>]]
        /\ pc' = "write" /\ runs' = runs
    BY <1>6 DEF CreateFile, Goto
  <2>3. \A f \in TempPaths : f > runs => f # FreePath
    BY <1>1, <2>1
  <2> QED BY <1>1, <1>2, <2>2, <2>3 DEF Early
<1>7. CASE WriteItem /\ files' # files
  <2>1. files' = [files EXCEPT ![outPath].items = Append(@, EntryItem(k))]
    BY <1>7, WriteItemFiles DEF Append2Out
  <2>2. files[outPath].state = "partial"
    BY <1>7 DEF IInv, WrittenRight, WriteItem
  <2>3. files'[outPath].state = "partial" /\ \A f \in DOMAIN files : f # outPath => files'[f] = files[f]
    BY <1>1, <2>1, <2>2 DEF FileType
  <2>4. runs' = runs /\ pc' \notin Early
    BY <1>7 DEF WriteItem, Goto, ReturnError, Fails, Early
  <2> QED BY <1>1, <1>2, <2>2, <2>3, <2>4
<1>8. CASE FinishFile /\ files' # files
  <2>1. files' = [files EXCEPT ![outPath].state = "whole"] /\ runs' = runs /\ pc' \notin Early
    BY <1>8 DEF FinishFile, Goto, Early
  <2>2. files[outPath].state = "partial"
    BY <1>8 DEF IInv, WrittenRight, FinishFile
  <2>3. files'[outPath].state = "whole" /\ \A f \in DOMAIN files : f # outPath => files'[f] = files[f]
    BY <1>1, <2>1 DEF FileType
  <2> QED BY <1>1, <1>2, <2>1, <2>2, <2>3
<1>9. CASE DeleteOld /\ files' # files
  BY <1>1, <1>2, <1>3, <1>9 DEF DeleteOld, Goto, Early
<1>10. CASE Rename /\ files' # files
  <2>1. files' = [files EXCEPT ![ArcPath] = files[outPath], ![outPath] = NoFile] /\ runs' = runs /\ pc' \notin Early
    BY <1>10 DEF Rename, Goto, Early
  <2>2. /\ files'[outPath] = NoFile \/ files'[outPath] = files[outPath]
        /\ \A f \in DOMAIN files : f # outPath /\ f # ArcPath => files'[f] = files[f]
        /\ files'[ArcPath] = files[outPath] \/ files'[ArcPath] = NoFile
    BY <1>1, <2>1
  <2> QED BY <1>1, <1>2, <1>3, <2>1, <2>2
<1>11. CASE (CopyStart \/ CopyEnd \/ Unlink) /\ files' # files
  BY <1>1, <1>2, <1>3, <1>11 DEF CopyStart, CopyEnd, Unlink, Goto, Early
<1>12. CASE Cleanup
  <2>1. /\ files' = [f \in DOMAIN files |-> IF f \in tempFiles THEN NoFile ELSE files[f]]
        /\ runs' = runs /\ pc' \notin Early
    BY <1>12 DEF Cleanup, Goto, Early
  <2> QED BY <1>1, <1>2, <1>3, <2>1
<1>13. CASE RunAgain
  <2>1. files' = files /\ runs' = runs + 1
    BY <1>13 DEF RunAgain, disk
  <2> QED BY <1>1, <1>2, <2>1
<1>14. CASE OpenArchive \/ EnumerateItems \/ MakePairs
  <2>1. UNCHANGED <<files, runs>> /\ pc \in Early
    BY <1>14 DEF OpenArchive, EnumerateItems, MakePairs, disk, Early
  <2> QED BY <1>5, <2>1
<1>15. CASE (CreateFile \/ WriteItem \/ FinishFile \/ CloseArchive \/ ForgetTempFiles) /\ files' = files
  <2>1. UNCHANGED runs /\ (pc' \in Early => pc \in Early)
    BY <1>15 DEF CreateFile, WriteItem, FinishFile, CloseArchive, ForgetTempFiles, Goto, ReturnError,
                 Fails, Early
  <2> QED BY <1>5, <1>15, <2>1
<1>16. CASE (DeleteOld \/ Rename \/ CopyStart \/ CopyEnd \/ Unlink) /\ files' = files
  <2>1. UNCHANGED runs /\ pc' \notin Early
    BY <1>16 DEF DeleteOld, Rename, CopyStart, CopyEnd, Unlink, Goto, ReturnError, Fails, Early
  <2> QED BY <1>5, <1>16, <2>1
<1>17. CASE DeleteSource \/ Succeed \/ Crash \/ Done
  <2>1. UNCHANGED <<files, runs>> /\ (pc' \in Early => pc \in Early)
    BY <1>17 DEF DeleteSource, Succeed, Crash, Done, Goto, ReturnError, Fails, disk, vars, Early
  <2> QED BY <1>5, <2>1
<1>18. (CloseArchive \/ ForgetTempFiles) => files' = files
  BY DEF CloseArchive, ForgetTempFiles, disk
<1> HIDE DEF Good
<1> QED BY <1>6, <1>7, <1>8, <1>9, <1>10, <1>11, <1>12, <1>13, <1>14, <1>15, <1>16, <1>17, <1>18 DEF Next

LEMMA SkippedStep ==
  ASSUME IInv, Next
  PROVE  SkippedRight'
<1>1. /\ SkippedRight /\ runs \in Nat
      /\ \A s \in skipped : s[1] \in Nat
  BY DEF IInv, TypeOK
<1>2. \A p : DirItem(p)' = DirItem(p)
  BY SceneStep, SceneStable
<1>3. CASE UNCHANGED <<skipped, runs>> /\ (pc' \in Early => pc \in Early)
  BY <1>1, <1>2, <1>3 DEF SkippedRight
<1>4. CASE WriteItem /\ skipped' # skipped
  <2>1. /\ skipped' = skipped \cup {<<runs, chain[k].dir>>} /\ ~DirItem(chain[k].dir).isDir
        /\ runs' = runs /\ pc' = "write"
    BY <1>4 DEF WriteItem, Goto
  <2>2. pc' \notin Early
    BY <2>1 DEF Early
  <2> SUFFICES ASSUME NEW s \in skipped' PROVE s[1] <= runs /\ ~DirItem(s[2]).isDir
    BY <1>2, <2>1, <2>2 DEF SkippedRight
  <2>3. CASE s \in skipped
    BY <1>1, <2>3 DEF SkippedRight
  <2>4. CASE s = <<runs, chain[k].dir>>
    BY <1>1, <2>1, <2>4
  <2> QED BY <2>1, <2>3, <2>4
<1>5. CASE RunAgain
  <2>1. skipped' = skipped /\ runs' = runs + 1
    BY <1>5 DEF RunAgain
  <2>2. \A s \in skipped : s[1] <= runs + 1 /\ s[1] < runs + 1
    BY <1>1 DEF SkippedRight
  <2> QED BY <1>1, <1>2, <2>1, <2>2 DEF SkippedRight
<1>6. CASE OpenArchive \/ EnumerateItems \/ MakePairs \/ CreateFile
  <2>1. UNCHANGED <<skipped, runs>> /\ pc \in Early
    BY <1>6 DEF OpenArchive, EnumerateItems, MakePairs, CreateFile, Early
  <2> QED BY <1>3, <2>1
<1>7. CASE WriteItem /\ skipped' = skipped
  <2>1. runs' = runs /\ pc' \notin Early
    BY <1>7 DEF WriteItem, Goto, ReturnError, Fails, Early
  <2> QED BY <1>3, <1>7, <2>1
<1>8. CASE FinishFile \/ CloseArchive \/ ForgetTempFiles \/ DeleteOld \/ Rename
  <2>1. UNCHANGED <<skipped, runs>> /\ pc' \notin Early
    BY <1>8 DEF FinishFile, CloseArchive, ForgetTempFiles, DeleteOld, Rename, Goto, ReturnError, Fails, Early
  <2> QED BY <1>3, <2>1
<1>9. CASE CopyStart \/ CopyEnd \/ Unlink \/ DeleteSource \/ Succeed
  <2>1. UNCHANGED <<skipped, runs>> /\ pc' \notin Early
    BY <1>9 DEF CopyStart, CopyEnd, Unlink, DeleteSource, Succeed, Goto, ReturnError, Fails, Early
  <2> QED BY <1>3, <2>1
<1>10. CASE Cleanup \/ Crash \/ Done
  <2>1. UNCHANGED <<skipped, runs>> /\ (pc' \in Early => pc \in Early)
    BY <1>10 DEF Cleanup, Crash, Done, Goto, vars, Early
  <2> QED BY <1>3, <2>1
<1> QED BY <1>4, <1>5, <1>6, <1>7, <1>8, <1>9, <1>10 DEF Next

LEMMA ChainStable ==
  ASSUME scene' = scene, NEW q, NEW i, NEW d, ChainIsRight(q, i, d)
  PROVE  ChainIsRight(q, i, d)'
<1>1. CopiedIndices(i, d)' = CopiedIndices(i, d) /\ CompressedFiles(i, d)' = CompressedFiles(i, d)
  BY SceneStable
<1> QED BY <1>1 DEF ChainIsRight

(* An action that leaves alone what was read and paired.                   *)
LEMMA ReadFrame ==
  ASSUME IInv, UNCHANGED <<scene, arcItems, arcOpened, chain, before>>,
         pc' \in Read => pc \in Read,
         pc' \in Paired => pc \in Paired,
         pc' \in ({"pair"} \cup Paired) \ {"sources"} =>
           UNCHANGED <<present, dirItems>> /\ pc \in ({"pair"} \cup Paired) \ {"sources"},
         pc' \in Paired => dirItems' = dirItems,
         k' # 0, pc' = "write" => k' <= Len(chain) + 1, pc' \in Early => k' = 1
  PROVE  ReadRight'
<1>1. ReadRight
  BY DEF IInv
<1>2. pc' \in ({"pair"} \cup Paired) \ {"sources"} =>
       dirItems' = (IF NeedScanning(scene'.command) THEN Here' ELSE {})
  BY <1>1 DEF ReadRight, Here
<1>3. pc' \in Paired => ChainIsRight(chain, arcItems, dirItems)'
  BY <1>1, ChainStable DEF ReadRight
<1> QED BY <1>1, <1>2, <1>3 DEF ReadRight

LEMMA ReadStep ==
  ASSUME IInv, Next
  PROVE  ReadRight'
<1>1. /\ ReadRight /\ TypeOK /\ k \in Nat /\ k # 0 /\ scene' = scene
      /\ chain \in Seq([newData : BOOLEAN, dir : Nat, arc : Nat]) /\ Len(chain) \in Nat
  BY SceneStep DEF IInv, ReadRight, TypeOK
<1>2. CASE OpenArchive
  <2>1. k' = k /\ k = 1 /\ (pc' = "scan" \/ pc' = "cleanup") /\ before' = files[ArcPath]
    BY <1>1, <1>2 DEF OpenArchive, ReadRight, Early, Goto, ReturnError, Fails
  <2>2. pc' = "scan" => arcOpened' = (before'.state = "whole") /\ arcItems' = before'.items /\ before'.state \in {"none", "whole"}
    BY <1>2, <2>1 DEF OpenArchive, ReturnError, Fails
  <2> QED BY <2>1, <2>2 DEF ReadRight, Read, Paired, Early
<1>3. CASE EnumerateItems
  <2>1. /\ k' = k /\ k = 1 /\ (pc' = "pair" \/ pc' = "cleanup") /\ pc = "scan"
        /\ UNCHANGED <<scene, arcItems, arcOpened, chain, before, present>>
    BY <1>1, <1>3 DEF EnumerateItems, ReadRight, Early, Goto, ReturnError, Fails, disk
  <2>2. pc' = "pair" => dirItems' = IF NeedScanning(scene.command) THEN Here ELSE {}
    BY <1>3, <2>1 DEF EnumerateItems, ReturnError, Fails
  <2>3. Here' = Here
    BY <2>1 DEF Here
  <2> QED BY <1>1, <2>1, <2>2, <2>3 DEF ReadRight, Read, Paired, Early
<1>4. CASE MakePairs
  <2> DEFINE pairs == UpdatePairs(dirItems, arcItems, scene.masked)
  <2>1. /\ k' = k /\ k = 1 /\ (pc' = "create" \/ pc' = "cleanup") /\ pc = "pair"
        /\ UNCHANGED <<scene, arcItems, arcOpened, dirItems, before, present>>
    BY <1>1, <1>4 DEF MakePairs, ReadRight, Early, Goto, ReturnError, disk
  <2>2. pc' = "create" => ~Failed(pairs) /\ chain' = Produce(pairs, scene.command)
    BY <1>4, <2>1 DEF MakePairs, ReturnError
  <2>3. Files(dirItems) /\ arcItems \in Seq(ItemType)
    BY FS_Subset DEF IInv, TypeOK, SceneRight, Files
  <2>4. ~Failed(pairs) => ChainIsRight(Produce(pairs, scene.command), arcItems, dirItems)
    <3> HIDE DEF pairs
    <3> QED BY <2>3, UpdatePairsFit, ChainFromPairs DEF pairs
  <2>5. pc' = "create" => ChainIsRight(chain', arcItems, dirItems)
    <3> HIDE DEF pairs
    <3> QED BY <2>2, <2>4
  <2>6. pc' = "create" => ChainIsRight(chain, arcItems, dirItems)'
    BY <2>1, <2>5, SceneStable DEF ChainIsRight
  <2>7. Here' = Here
    BY <2>1 DEF Here
  <2> QED BY <1>1, <2>1, <2>6, <2>7 DEF ReadRight, Read, Paired, Early
<1>5. CASE CreateFile
  <2>1. /\ UNCHANGED <<scene, arcItems, arcOpened, chain, before, dirItems, present, k>> /\ k = 1
        /\ pc = "create" /\ pc' \in {"write", "cleanup"}
    BY <1>1, <1>5 DEF CreateFile, ReadRight, Early, Goto, ReturnError, Fails
  <2> QED BY <1>1, <2>1, ReadFrame DEF Read, Paired, Early
<1>6. CASE WriteItem
  <2>1. /\ UNCHANGED <<scene, arcItems, arcOpened, chain, before, dirItems, present>>
        /\ pc = "write" /\ pc' \in {"write", "cleanup"} /\ (k' = k \/ k' = k + 1) /\ k <= Len(chain)
    BY <1>6 DEF WriteItem, Goto, ReturnError, Fails
  <2> QED BY <1>1, <2>1, ReadFrame DEF Read, Paired, Early
<1>7. CASE FinishFile \/ CloseArchive \/ ForgetTempFiles
  <2>1. /\ UNCHANGED <<scene, arcItems, arcOpened, chain, before, dirItems, present>>
        /\ pc \in Paired \ {"sources"} /\ pc' \notin Early /\ pc' \notin {"write", "pair"} /\ (k' = k \/ k' = 1)
        /\ pc' \in Read => pc' \in Paired
    BY <1>7 DEF FinishFile, CloseArchive, ForgetTempFiles, Goto, ReturnError, Fails, locals, disk, Read, Paired, Early
  <2> QED BY <1>1, <2>1, ReadFrame DEF Read, Paired
<1>8. CASE DeleteOld \/ Rename \/ CopyStart \/ CopyEnd \/ Unlink
  <2>1. /\ UNCHANGED <<scene, arcItems, arcOpened, chain, before, dirItems, present, k>>
        /\ pc \in Paired \ {"sources"} /\ pc' \notin Early /\ pc' \notin {"write", "pair"}
        /\ pc' \in Read => pc' \in Paired
    BY <1>8 DEF DeleteOld, Rename, CopyStart, CopyEnd, Unlink, Goto, ReturnError, Fails, locals, Read, Paired, Early
  <2> QED BY <1>1, <2>1, ReadFrame DEF Read, Paired
<1>9. CASE DeleteSource \/ Succeed \/ Cleanup \/ Crash
  <2>1. /\ UNCHANGED <<scene, arcItems, arcOpened, chain, before, dirItems>>
        /\ pc' \in {"sources", "cleanup", "returned", "crashed"} /\ (k' = k \/ k' = k + 1)
        /\ pc' = "sources" => pc = "sources"
    BY <1>9 DEF DeleteSource, Succeed, Cleanup, Crash, Goto, ReturnError, Fails, locals
  <2> QED BY <1>1, <2>1, ReadFrame DEF Read, Paired, Early
<1>10. CASE RunAgain
  <2>1. pc' = "open" /\ k' = 1
    BY <1>10 DEF RunAgain
  <2> QED BY <2>1 DEF ReadRight, Read, Paired, Early
<1>11. CASE Done
  <2>1. UNCHANGED vars
    BY <1>11 DEF Done
  <2> QED BY <1>1, <2>1, ReadFrame DEF vars, ReadRight
<1> QED BY <1>2, <1>3, <1>4, <1>5, <1>6, <1>7, <1>8, <1>9, <1>10, <1>11 DEF Next

Written(n) == {m \in 1..(n - 1) : ~LeftOut(m)}

LEMMA WrittenFinite ==
  ASSUME NEW n \in Nat
  PROVE  IsFiniteSet(Written(n)) /\ Cardinality(Written(n)) \in Nat
<1>1. IsFiniteSet(1..(n - 1))
  BY FS_Interval
<1> QED BY <1>1, FS_Subset, FS_CardinalityType DEF Written

LEMMA WriteItemWritten ==
  ASSUME IInv, WriteItem, pc' = "write"
  PROVE  WrittenRight'
<1>1. /\ k \in 1..Len(chain) /\ k' = k + 1 /\ scene' = scene /\ Len(chain) \in Nat
      /\ UNCHANGED <<chain, arcItems, dirItems, outPath, runs>> /\ outPath \in DOMAIN files
      /\ files \in [DOMAIN files -> FileType] /\ pc \in Paired
  BY DEF IInv, TypeOK, ReadRight, WriteItem, ReturnError, Fails, Paired
<1>2. /\ files[outPath].state = "partial"
      /\ ToSet(files[outPath].items) = {EntryItem(n) : n \in Written(k)}
      /\ Len(files[outPath].items) = Cardinality(Written(k))
      /\ \A n \in k..Len(chain) : ~LeftOut(n)
  BY DEF IInv, WrittenRight, WriteItem, Written
<1>3. \A n \in 1..Len(chain) : EntryItem(n)' = EntryItem(n)
  BY <1>1, SceneStable DEF EntryItem
<1>4. \A m, n \in 1..Len(chain) : m # n /\ chain[m].newData /\ chain[n].newData => chain[m].dir # chain[n].dir
  BY <1>1 DEF IInv, ReadRight, ChainIsRight
<1>5. files[outPath].items \in Seq(ItemType)
  BY <1>1 DEF FileType
<1>6. ~LeftOut(k)
  BY <1>1, <1>2
<1>7. CASE Append2Out(EntryItem(k)) /\ skipped' = skipped
  <2>1. \A n \in 1..Len(chain) : LeftOut(n)' <=> LeftOut(n)
    BY <1>1, <1>7 DEF LeftOut
  <2>2. Written(k + 1) = Written(k) \cup {k} /\ k \notin Written(k)
    BY <1>1, <1>6 DEF Written
  <2>3. {n \in 1..(k' - 1) : ~LeftOut(n)'} = Written(k + 1)
    BY <1>1, <2>1 DEF Written
  <2>4. Cardinality(Written(k + 1)) = Cardinality(Written(k)) + 1
    BY <1>1, <2>2, WrittenFinite, FS_AddElement
  <2>5. EntryItem(k) \in ItemType
    BY <1>1, ChainEntryRight
  <2>6. /\ files'[outPath].state = "partial"
        /\ files'[outPath].items = Append(files[outPath].items, EntryItem(k))
    BY <1>1, <1>2, <1>7 DEF Append2Out, FileType
  <2>7. ToSet(files'[outPath].items) = ToSet(files[outPath].items) \cup {EntryItem(k)}
    <3> DEFINE q == files[outPath].items
               r == Append(q, EntryItem(k))
    <3>1. /\ DOMAIN r = DOMAIN q \cup {Len(q) + 1} /\ r[Len(q) + 1] = EntryItem(k)
          /\ \A n \in DOMAIN q : r[n] = q[n]
      BY <1>5, <2>5
    <3> QED BY <2>6, <3>1 DEF ToSet
  <2>8. Len(files'[outPath].items) = Len(files[outPath].items) + 1
    BY <1>5, <2>5, <2>6
  <2>9. ToSet(files'[outPath].items) = {EntryItem(n)' : n \in Written(k + 1)}
    <3>1. \A n \in Written(k + 1) : n \in 1..Len(chain)
      BY <1>1 DEF Written
    <3>2. {EntryItem(n)' : n \in Written(k + 1)} = {EntryItem(n) : n \in Written(k + 1)}
      BY <1>3, <3>1
    <3> QED BY <1>2, <2>2, <2>7, <3>2
  <2>10. Len(files'[outPath].items) = Cardinality(Written(k + 1))
    BY <1>2, <2>4, <2>8
  <2>11. \A n \in k'..Len(chain') : ~LeftOut(n)'
    <3> SUFFICES ASSUME NEW n \in (k + 1)..Len(chain) PROVE ~LeftOut(n)'
      BY <1>1
    <3>1. n \in k..Len(chain) /\ n \in 1..Len(chain)
      BY <1>1
    <3> QED BY <1>2, <2>1, <3>1
  <2> HIDE DEF Written
  <2> QED BY <1>1, <2>3, <2>6, <2>9, <2>10, <2>11 DEF WrittenRight
<1>8. CASE /\ chain[k].newData /\ files' = files
           /\ skipped' = skipped \cup {<<runs, chain[k].dir>>}
  <2>1. \A n \in 1..Len(chain) : n # k => (LeftOut(n)' <=> LeftOut(n))
    <3> SUFFICES ASSUME NEW n \in 1..Len(chain), n # k PROVE LeftOut(n)' <=> LeftOut(n)
      OBVIOUS
    <3>1. chain[n].newData => chain[n].dir # chain[k].dir
      BY <1>1, <1>4, <1>8
    <3> QED BY <1>1, <1>8, <3>1 DEF LeftOut
  <2>2. \A n \in 1..Len(chain) : n = k => LeftOut(n)'
    BY <1>1, <1>8 DEF LeftOut
  <2>3. {n \in 1..(k' - 1) : ~LeftOut(n)'} = Written(k)
    <3>1. 1..(k' - 1) = 1..(k - 1) \cup {k}
      BY <1>1
    <3>2. \A n \in 1..(k - 1) : n \in 1..Len(chain) /\ n # k
      BY <1>1
    <3>3. \A n \in 1..(k' - 1) : ~LeftOut(n)' <=> n \in 1..(k - 1) /\ ~LeftOut(n)
      BY <1>1, <2>1, <2>2, <3>1, <3>2
    <3> QED BY <3>1, <3>3 DEF Written
  <2>4. {EntryItem(n)' : n \in Written(k)} = {EntryItem(n) : n \in Written(k)}
    <3>1. \A n \in Written(k) : n \in 1..Len(chain)
      BY <1>1 DEF Written
    <3> QED BY <1>3, <3>1
  <2>5. \A n \in k'..Len(chain') : ~LeftOut(n)'
    <3> SUFFICES ASSUME NEW n \in (k + 1)..Len(chain) PROVE ~LeftOut(n)'
      BY <1>1
    <3>1. n \in k..Len(chain) /\ n \in 1..Len(chain) /\ n # k
      BY <1>1
    <3> QED BY <1>2, <2>1, <3>1
  <2> QED BY <1>1, <1>2, <1>8, <2>3, <2>4, <2>5 DEF WrittenRight
<1> QED BY <1>7, <1>8 DEF WriteItem, ReturnError, Fails, EntryItem

LEMMA WrittenStep ==
  ASSUME IInv, Next
  PROVE  WrittenRight'
<1>1. CASE pc' # "write"
  BY <1>1 DEF WrittenRight
<1>2. CASE WriteItem /\ pc' = "write"
  BY <1>2, WriteItemWritten
<1>3. CASE CreateFile /\ pc' = "write"
  <2>1. /\ k = 1 /\ runs' = runs /\ skipped' = skipped /\ k' = k /\ chain' = chain
        /\ outPath' = FreePath /\ files' = [files EXCEPT ![FreePath] = [state |-> "partial", items |-> <<>>]]
    BY <1>3 DEF IInv, ReadRight, CreateFile, Early, ReturnError, Fails
  <2>2. FreePath \in DOMAIN files
    BY <1>3, FreePathRight DEF CreateFile
  <2>3. files'[outPath'].state = "partial" /\ files'[outPath'].items = <<>>
    BY <2>1, <2>2
  <2>4. \A n \in 1..Len(chain) : ~LeftOut(n)'
    <3> SUFFICES ASSUME NEW n \in 1..Len(chain), <<runs, chain[n].dir>> \in skipped PROVE FALSE
      BY <2>1 DEF LeftOut
    <3>1. <<runs, chain[n].dir>>[1] < runs
      BY <1>3 DEF IInv, SkippedRight, CreateFile, Early
    <3> QED BY <3>1 DEF IInv, TypeOK
  <2>5. {n \in 1..(k' - 1) : ~LeftOut(n)'} = {}
    BY <2>1
  <2>6. ToSet(<<>>) = {} /\ Len(<<>>) = 0 /\ Cardinality({}) = 0
    BY FS_EmptySet DEF ToSet
  <2> QED BY <2>1, <2>3, <2>4, <2>5, <2>6 DEF WrittenRight
<1>4. CASE ~WriteItem /\ ~CreateFile
  <2>1. pc' # "write"
    BY <1>4 DEF Next, OpenArchive, EnumerateItems, MakePairs, FinishFile, CloseArchive, ForgetTempFiles,
         DeleteOld, Rename, CopyStart, CopyEnd, Unlink, DeleteSource, Succeed, Cleanup, Crash, RunAgain,
         Done, vars, Goto, ReturnError, Fails
  <2> QED BY <2>1 DEF WrittenRight
<1> QED BY <1>1, <1>2, <1>3, <1>4

(* When every item of the chain is written, the new archive is what the    *)
(* update wants.                                                           *)
LEMMA FinishedIsUpdated ==
  ASSUME IInv, FinishFile, files' # files
  PROVE  Updated(outPath)'
<1> DEFINE C == CopiedIndices(arcItems, dirItems)
           A == {d \in CompressedFiles(arcItems, dirItems) : <<runs, d.path>> \notin skipped}
           N == Len(chain)
           W == Written(N + 1)
           W1 == {n \in W : ~chain[n].newData}
           W2 == {n \in W : chain[n].newData}
<1>1. /\ k = N + 1 /\ N \in Nat /\ outPath \in DOMAIN files /\ files \in [DOMAIN files -> FileType]
      /\ UNCHANGED <<scene, arcItems, dirItems, skipped, runs, outPath>> /\ pc = "write"
      /\ files' = [files EXCEPT ![outPath].state = "whole"]
  BY DEF IInv, TypeOK, ReadRight, FinishFile, locals
<1>2. /\ ToSet(files[outPath].items) = {EntryItem(n) : n \in W}
      /\ Len(files[outPath].items) = Cardinality(W)
  BY <1>1 DEF IInv, WrittenRight, Written
<1>3. ChainIsRight(chain, arcItems, dirItems) /\ pc \in Paired
  BY <1>1 DEF IInv, ReadRight, Paired
<1>4. \A n \in 1..N : n \in W <=> ~LeftOut(n)
  BY <1>1 DEF Written
<1>5. W \subseteq 1..N
  BY <1>1 DEF Written
<1>6. \A n \in W1 : chain[n].arc \in C /\ EntryItem(n) = arcItems[chain[n].arc]
  BY <1>3, <1>5, ChainEntryRight DEF EntryItem
<1>7. \A n \in W2 : /\ DirItem(chain[n].dir) \in A /\ DirItem(chain[n].dir).path = chain[n].dir
                   /\ EntryItem(n) = Item(DirItem(chain[n].dir))
  <2> SUFFICES ASSUME NEW n \in W2
               PROVE  /\ DirItem(chain[n].dir) \in A /\ DirItem(chain[n].dir).path = chain[n].dir
                      /\ EntryItem(n) = Item(DirItem(chain[n].dir))
    OBVIOUS
  <2>1. n \in 1..N /\ chain[n].newData /\ ~LeftOut(n)
    BY <1>4, <1>5
  <2>2. /\ DirItem(chain[n].dir) \in CompressedFiles(arcItems, dirItems)
        /\ DirItem(chain[n].dir).path = chain[n].dir
    BY <1>3, <2>1, ChainEntryRight
  <2>3. <<runs, chain[n].dir>> \notin skipped
    BY <2>1 DEF LeftOut
  <2> QED BY <2>1, <2>2, <2>3 DEF EntryItem
<1>8. \A i \in C : \E n \in W1 : chain[n].arc = i
  <2> SUFFICES ASSUME NEW i \in C PROVE \E n \in W1 : chain[n].arc = i
    OBVIOUS
  <2>1. PICK n \in 1..N : ~chain[n].newData /\ chain[n].arc = i
    BY <1>3 DEF ChainIsRight
  <2>2. ~LeftOut(n)
    BY <2>1 DEF LeftOut
  <2> QED BY <1>4, <2>1, <2>2
<1>9. \A d \in A : \E n \in W2 : DirItem(chain[n].dir) = d
  <2> SUFFICES ASSUME NEW d \in A PROVE \E n \in W2 : DirItem(chain[n].dir) = d
    OBVIOUS
  <2>1. PICK n \in 1..N : chain[n].newData /\ chain[n].dir = d.path
    BY <1>3 DEF ChainIsRight
  <2>2. ~LeftOut(n)
    BY <2>1 DEF LeftOut
  <2>3. n \in W2
    BY <1>4, <2>1, <2>2
  <2>4. d \in scene.disk /\ DirItem(chain[n].dir) \in scene.disk /\ DirItem(chain[n].dir).path = d.path
    BY <1>3, <2>1, ChainEntryRight DEF CompressedFiles, IInv, TypeOK
  <2>5. \A x, y \in scene.disk : x.path = y.path => x = y
    BY DEF IInv, SceneRight, Files
  <2> QED BY <2>3, <2>4, <2>5
<1>10. /\ IsFiniteSet(W1) /\ IsFiniteSet(W2) /\ Cardinality(W1) \in Nat /\ Cardinality(W2) \in Nat
       /\ Cardinality(W) = Cardinality(W1) + Cardinality(W2)
  <2>1. IsFiniteSet(W)
    BY <1>1, WrittenFinite
  <2>2. W = W1 \cup W2 /\ W1 \cap W2 = {}
    OBVIOUS
  <2>3. IsFiniteSet(W1) /\ IsFiniteSet(W2)
    BY <2>1, FS_Subset
  <2> HIDE DEF W1, W2, W
  <2>4. Cardinality(W1 \cup W2) = Cardinality(W1) + Cardinality(W2) - Cardinality(W1 \cap W2)
    BY <2>3, FS_Union
  <2>5. Cardinality(W1 \cap W2) = 0
    BY <2>2, FS_EmptySet
  <2>6. Cardinality(W1) \in Nat /\ Cardinality(W2) \in Nat
    BY <2>3, FS_CardinalityType
  <2> QED BY <2>2, <2>3, <2>4, <2>5, <2>6
<1>11. \A m, n \in W1 : chain[m].arc = chain[n].arc => m = n
  BY <1>3, <1>5 DEF ChainIsRight
<1>12. \A m, n \in W2 : DirItem(chain[m].dir) = DirItem(chain[n].dir) => m = n
  <2> SUFFICES ASSUME NEW m \in W2, NEW n \in W2, DirItem(chain[m].dir) = DirItem(chain[n].dir), m # n
               PROVE  FALSE
    OBVIOUS
  <2>1. chain[m].dir = chain[n].dir
    <3> HIDE DEF W2
    <3> QED BY <1>7
  <2> QED BY <1>3, <1>5, <2>1 DEF ChainIsRight
<1> HIDE DEF W1, W2, W, C, A, N
<1>13. Cardinality(C) = Cardinality(W1)
  <2> DEFINE g == [n \in W1 |-> chain[n].arc]
  <2>1. g \in Bijection(W1, C)
    BY <1>6, <1>8, <1>11 DEF Bijection, Injection, IsInjective, Surjection
  <2>2. ExistsBijection(W1, C)
    BY <2>1 DEF ExistsBijection
  <2> QED BY <1>10, <2>2, FS_Bijection
<1>14. Cardinality(A) = Cardinality(W2)
  <2> DEFINE g == [n \in W2 |-> DirItem(chain[n].dir)]
  <2>1. g \in Bijection(W2, A)
    BY <1>7, <1>9, <1>12 DEF Bijection, Injection, IsInjective, Surjection
  <2>2. ExistsBijection(W2, A)
    BY <2>1 DEF ExistsBijection
  <2> QED BY <1>10, <2>2, FS_Bijection
<1>15. ToSet(files[outPath].items) = {arcItems[n] : n \in C} \cup {Item(d) : d \in A}
  <2>1. W = W1 \cup W2
    BY DEF W1, W2
  <2>2. {EntryItem(n) : n \in W1} = {arcItems[n] : n \in C}
    BY <1>6, <1>8
  <2>3. {EntryItem(n) : n \in W2} = {Item(d) : d \in A}
    BY <1>7, <1>9
  <2> QED BY <1>2, <2>1, <2>2, <2>3
<1>16. files'[outPath].state = "whole" /\ files'[outPath].items = files[outPath].items
  BY <1>1 DEF FileType
<1>17. C' = C /\ A' = A
  BY <1>1, SceneStable DEF C, A
<1>18. /\ files'[outPath'].state = "whole"
       /\ ToSet(files'[outPath'].items) = {arcItems[n] : n \in C} \cup {Item(d) : d \in A}
       /\ Len(files'[outPath'].items) = Cardinality(C) + Cardinality(A)
  BY <1>1, <1>2, <1>10, <1>13, <1>14, <1>15, <1>16
<1>19. CopiedIndices(arcItems, dirItems)' = C
  BY <1>17 DEF C
<1>20. {d \in CompressedFiles(arcItems, dirItems) : <<runs, d.path>> \notin skipped}' = A
  BY <1>17 DEF A
<1>21. {arcItems[n] : n \in CopiedIndices(arcItems, dirItems)}' = {arcItems[n] : n \in C}
  BY <1>1, <1>19
<1> QED BY <1>18, <1>19, <1>20, <1>21 DEF Updated

(* A file that is what the update wants stays that.                        *)
LEMMA UpdatedFrame ==
  ASSUME UNCHANGED <<scene, arcItems, dirItems, skipped, runs>>
  PROVE  \A f, g : Updated(f) /\ files'[g] = files[f] => Updated(g)'
BY UpdatedStable

LEMMA PlaceStep ==
  ASSUME IInv, Next
  PROVE  PlaceRight'
<1>1. /\ PlaceRight /\ TypeOK /\ scene' = scene /\ outPath \in DOMAIN files /\ ArcPath \in DOMAIN files
  BY SceneStep DEF IInv, TypeOK
<1>2. CASE OpenArchive \/ EnumerateItems \/ MakePairs
  <2>1. /\ pc \in Early /\ pc' \in {"scan", "pair", "create", "cleanup"} /\ UNCHANGED <<outPath, tempFiles, files>>
        /\ before' = files[ArcPath] \/ (before' = before /\ pc \in {"scan", "pair"})
    BY <1>2 DEF OpenArchive, EnumerateItems, MakePairs, Goto, ReturnError, Fails, Early, disk
  <2> QED BY <1>1, <2>1 DEF PlaceRight, Early
<1>3. CASE CreateFile
  <2>1. CASE pc' = "cleanup"
    BY <2>1 DEF PlaceRight, Early
  <2>2. CASE pc' # "cleanup"
    <3>1. /\ pc' = "write" /\ tempFiles' = {outPath'} /\ outPath' = FreePath /\ before' = before
          /\ files' = [files EXCEPT ![FreePath] = [state |-> "partial", items |-> <<>>]]
          /\ CreateTempFile' = CreateTempFile /\ files[ArcPath] = before
      BY <1>1, <1>3, <2>2 DEF CreateFile, Goto, ReturnError, Fails, CreateTempFile, PlaceRight
    <3>2. /\ CreateTempFile => FreePath # ArcPath
          /\ ~CreateTempFile => FreePath = ArcPath /\ before = NoFile
      BY <1>3, FreePathRight DEF CreateFile
    <3>3. CreateTempFile => files'[ArcPath] = before
      BY <1>1, <3>1, <3>2
    <3> QED BY <3>1, <3>2, <3>3 DEF PlaceRight, Early
  <2> QED BY <2>1, <2>2
<1>4. CASE WriteItem
  <2>1. CASE pc' = "cleanup"
    BY <2>1 DEF PlaceRight, Early
  <2>2. CASE pc' # "cleanup"
    <3>1. /\ pc' = "write" /\ pc = "write" /\ UNCHANGED <<tempFiles, outPath, before>>
          /\ CreateTempFile' = CreateTempFile
      BY <1>4, <2>2 DEF WriteItem, Goto, ReturnError, Fails, CreateTempFile
    <3>2. outPath # ArcPath => files'[ArcPath] = files[ArcPath]
      BY <1>1, <1>4, WriteItemFiles DEF Append2Out
    <3> QED BY <1>1, <3>1, <3>2 DEF PlaceRight, Early
  <2> QED BY <1>4, <2>1, <2>2 DEF WriteItem, Goto, ReturnError, Fails
<1>5. CASE FinishFile
  <2>1. CASE pc' = "cleanup"
    BY <2>1 DEF PlaceRight, Early
  <2>2. CASE pc' # "cleanup"
    <3>1. /\ pc' = "close" /\ pc = "write" /\ UNCHANGED <<tempFiles, outPath, before>>
          /\ CreateTempFile' = CreateTempFile /\ files' = [files EXCEPT ![outPath].state = "whole"]
      BY <1>5, <2>2 DEF FinishFile, Goto, ReturnError, Fails, CreateTempFile, locals
    <3>2. outPath # ArcPath => files'[ArcPath] = files[ArcPath]
      BY <1>1, <3>1
    <3>3. files' # files
      <4>1. files[outPath].state = "partial" /\ files \in [DOMAIN files -> FileType]
        BY <1>1, <3>1 DEF IInv, WrittenRight, TypeOK
      <4>2. files'[outPath].state = "whole"
        BY <1>1, <3>1, <4>1 DEF FileType
      <4> QED BY <4>1, <4>2
    <3>4. Updated(outPath)'
      BY <1>5, <3>3, FinishedIsUpdated
    <3> QED BY <1>1, <3>1, <3>2, <3>4 DEF PlaceRight, Early
  <2> QED BY <2>1, <2>2
<1>6. CASE CloseArchive
  <2>1. /\ UNCHANGED <<scene, files, outPath, tempFiles, before, arcItems, dirItems, skipped, runs>>
        /\ pc = "close" /\ pc' \in {"forget", "cleanup"} /\ CreateTempFile' = CreateTempFile
    BY <1>6 DEF CloseArchive, Goto, ReturnError, Fails, CreateTempFile, locals, disk
  <2>2. Updated(outPath)'
    BY <1>1, <2>1, UpdatedFrame DEF PlaceRight
  <2> QED BY <1>1, <2>1, <2>2 DEF PlaceRight, Early
<1>7. CASE ForgetTempFiles
  <2>1. /\ UNCHANGED <<scene, files, outPath, before, arcItems, dirItems, skipped, runs>>
        /\ pc = "forget" /\ pc' = (IF CreateTempFile THEN "delete" ELSE "sources")
        /\ CreateTempFile' = CreateTempFile /\ tempFiles' = {}
    BY <1>7 DEF ForgetTempFiles, Goto, CreateTempFile, locals, disk
  <2>2. Updated(outPath) /\ Updated(outPath)'
    BY <1>1, <2>1, UpdatedFrame DEF PlaceRight
  <2>3. CASE CreateTempFile
    BY <1>1, <2>1, <2>2, <2>3 DEF PlaceRight, Early
  <2>4. CASE ~CreateTempFile
    <3>1. outPath = ArcPath
      BY <1>1, <2>1, <2>4 DEF PlaceRight
    <3>2. Updated(ArcPath)'
      BY <2>1, <2>2, <3>1, UpdatedFrame
    <3> QED BY <1>1, <2>1, <2>4, <3>1, <3>2 DEF PlaceRight, Early
  <2> QED BY <2>3, <2>4
<1>8. CASE DeleteOld
  <2>1. CASE pc' = "cleanup"
    BY <2>1 DEF PlaceRight, Early
  <2>2. CASE pc' # "cleanup"
    <3>1. /\ UNCHANGED <<scene, outPath, tempFiles, before, arcItems, arcOpened, dirItems, skipped, runs>>
          /\ pc = "delete" /\ pc' = "move" /\ CreateTempFile' = CreateTempFile
          /\ files' = IF arcOpened THEN [files EXCEPT ![ArcPath] = NoFile] ELSE files
      BY <1>8, <2>2 DEF DeleteOld, Goto, ReturnError, Fails, CreateTempFile, locals
    <3>2. files'[ArcPath] = NoFile
      <4>1. CASE arcOpened
        BY <1>1, <3>1, <4>1
      <4>2. CASE ~arcOpened
        <5>1. before.state \in {"none", "whole"} /\ before.state # "whole" /\ files[ArcPath] = before
          BY <1>1, <3>1, <4>2 DEF IInv, ReadRight, PlaceRight, Read, Paired
        <5>2. before.state = "none"
          BY <1>1, <5>1 DEF TypeOK, FileType
        <5> QED BY <1>1, <3>1, <4>2, <5>1, <5>2 DEF IInv, FilesRight
      <4> QED BY <4>1, <4>2
    <3>3. outPath # ArcPath /\ Updated(outPath) /\ files'[outPath] = files[outPath] /\ tempFiles = {} /\ CreateTempFile
      BY <1>1, <3>1 DEF PlaceRight
    <3>4. Updated(outPath)'
      BY <3>1, <3>3, UpdatedFrame
    <3> QED BY <3>1, <3>2, <3>3, <3>4 DEF PlaceRight, Early
  <2> QED BY <2>1, <2>2
<1>9. CASE Rename
  <2>1. CASE pc' = "cleanup"
    BY <2>1 DEF PlaceRight, Early
  <2>2. CASE pc' # "cleanup"
    <3>1. /\ UNCHANGED <<scene, outPath, tempFiles, before, arcItems, arcOpened, dirItems, skipped, runs>>
          /\ pc = "move" /\ pc' = "sources" /\ CreateTempFile' = CreateTempFile
          /\ files' = [files EXCEPT ![ArcPath] = files[outPath], ![outPath] = NoFile]
      BY <1>9, <2>2 DEF Rename, Goto, ReturnError, Fails, CreateTempFile, locals
    <3>2. outPath # ArcPath /\ Updated(outPath) /\ tempFiles = {}
      BY <1>1, <3>1 DEF PlaceRight
    <3>3. files'[ArcPath] = files[outPath] /\ files'[outPath] = NoFile
      BY <1>1, <3>1, <3>2
    <3>4. Updated(ArcPath)'
      BY <3>1, <3>2, <3>3, UpdatedFrame
    <3> QED BY <3>1, <3>2, <3>3, <3>4 DEF PlaceRight, Early
  <2> QED BY <2>1, <2>2
<1>10. CASE CopyStart \/ CopyEnd
  <2>1. CASE pc' = "cleanup"
    BY <2>1 DEF PlaceRight, Early
  <2>2. CASE pc' # "cleanup"
    <3>1. /\ UNCHANGED <<scene, outPath, tempFiles, before, arcItems, arcOpened, dirItems, skipped, runs>>
          /\ CreateTempFile' = CreateTempFile
          /\ \/ /\ pc = "move" /\ pc' = "copy"
                /\ files' = [files EXCEPT ![ArcPath] = [state |-> "partial", items |-> <<>>]]
             \/ pc = "copy" /\ pc' = "unlink" /\ files' = [files EXCEPT ![ArcPath] = files[outPath]]
             \/ /\ pc = "copy" /\ pc' = "unlink"
                /\ files' = [files EXCEPT ![ArcPath] = [state |-> "cut", items |-> <<>>]]
          /\ scene.otherDevice
      BY <1>1, <1>10, <2>2 DEF CopyStart, CopyEnd, PlaceRight, Goto, ReturnError, Fails, CreateTempFile, locals
    <3>2. outPath # ArcPath /\ Updated(outPath) /\ tempFiles = {} /\ CreateTempFile
      BY <1>1, <3>1 DEF PlaceRight
    <3>3. files'[outPath] = files[outPath]
      BY <1>1, <3>1, <3>2
    <3>4. Updated(outPath)'
      BY <3>1, <3>2, <3>3, UpdatedFrame
    <3>5. /\ pc' = "copy" => files'[ArcPath].state = "partial"
          /\ pc' = "unlink" => files'[ArcPath] = files'[outPath'] \/ files'[ArcPath].state = "cut"
      BY <1>1, <3>1, <3>3
    <3> QED BY <3>1, <3>2, <3>4, <3>5 DEF PlaceRight, Early, CutCopy
  <2> QED BY <2>1, <2>2
<1>11. CASE Unlink
  <2>1. CASE pc' = "cleanup"
    BY <2>1 DEF PlaceRight, Early
  <2>2. CASE pc' # "cleanup"
    <3>1. /\ UNCHANGED <<scene, outPath, tempFiles, before, arcItems, arcOpened, dirItems, skipped, runs>>
          /\ pc = "unlink" /\ pc' = "sources" /\ files' = [files EXCEPT ![outPath] = NoFile]
      BY <1>11, <2>2 DEF Unlink, Goto, ReturnError, Fails, locals
    <3>2. /\ outPath # ArcPath /\ Updated(outPath) /\ tempFiles = {}
          /\ files[ArcPath] = files[outPath] \/ CutCopy
      BY <1>1, <3>1 DEF PlaceRight
    <3>3. files'[ArcPath] = files[ArcPath] /\ files'[outPath] = NoFile
      BY <1>1, <3>1, <3>2
    <3>4. Updated(ArcPath)' \/ CutCopy'
      <4>1. CutCopy => CutCopy'
        BY <3>1, <3>3 DEF CutCopy
      <4> QED BY <3>1, <3>2, <3>3, <4>1, UpdatedFrame
    <3> QED BY <3>1, <3>2, <3>3, <3>4 DEF PlaceRight, Early
  <2> QED BY <2>1, <2>2
<1>12. CASE DeleteSource
  <2>1. /\ UNCHANGED <<scene, files, outPath, tempFiles, before, arcItems, dirItems, skipped, runs>>
        /\ pc = "sources" /\ pc' \in {"sources", "cleanup"} /\ CreateTempFile' = CreateTempFile
    BY <1>12 DEF DeleteSource, Goto, ReturnError, Fails, CreateTempFile, locals
  <2>2. Updated(ArcPath)' \/ CutCopy'
    BY <1>1, <2>1, UpdatedFrame DEF PlaceRight, CutCopy
  <2> QED BY <1>1, <2>1, <2>2 DEF PlaceRight, Early
<1>13. CASE Succeed
  <2>1. pc' = "cleanup"
    BY <1>13 DEF Succeed, ReturnError, Fails
  <2> QED BY <2>1 DEF PlaceRight, Early
<1>14. CASE Cleanup \/ Crash
  <2>1. pc' \in {"returned", "crashed"} /\ tempFiles' = {}
    BY <1>14 DEF Cleanup, Crash, Goto
  <2> QED BY <2>1 DEF PlaceRight, Early
<1>15. CASE RunAgain
  <2>1. pc' = "open" /\ outPath' = ArcPath /\ tempFiles' = {}
    BY <1>1, <1>15 DEF RunAgain, PlaceRight
  <2> QED BY <2>1 DEF PlaceRight, Early
<1>16. CASE Done
  <2>1. pc' \in {"returned", "crashed"} /\ tempFiles' = {}
    BY <1>1, <1>16 DEF Done, vars, PlaceRight
  <2> QED BY <2>1 DEF PlaceRight, Early
<1> QED BY <1>2, <1>3, <1>4, <1>5, <1>6, <1>7, <1>8, <1>9, <1>10, <1>11, <1>12, <1>13, <1>14, <1>15,
           <1>16 DEF Next

LEMMA ReturnStep ==
  ASSUME IInv, Next
  PROVE  ReturnRight'
<1>1. /\ PlaceRight /\ ReturnRight /\ CutRight /\ TypeOK /\ scene' = scene
      /\ outPath \in DOMAIN files /\ ArcPath \in DOMAIN files
  BY SceneStep DEF IInv, TypeOK
<1>2. CASE pc' \notin {"cleanup", "returned"}
  BY <1>2 DEF ReturnRight
<1>3. CASE (OpenArchive \/ EnumerateItems \/ MakePairs \/ CreateFile) /\ pc' \in {"cleanup", "returned"}
  <2>1. /\ UNCHANGED <<outPath, tempFiles, files>> /\ returned' = "error" /\ pc \in Early
        /\ before' = files[ArcPath] \/ (before' = before /\ pc \in {"scan", "pair", "create"})
    BY <1>3 DEF OpenArchive, EnumerateItems, MakePairs, CreateFile, Goto, ReturnError, Fails, disk, Early
  <2> QED BY <1>1, <2>1 DEF PlaceRight, ReturnRight
<1>4. CASE (WriteItem \/ FinishFile \/ CloseArchive \/ ForgetTempFiles) /\ pc' \in {"cleanup", "returned"}
  <2>1. /\ UNCHANGED <<outPath, tempFiles, files, before>> /\ returned' = "error"
        /\ pc \in {"write", "close", "forget"}
    BY <1>4 DEF WriteItem, FinishFile, CloseArchive, ForgetTempFiles, Goto, ReturnError, Fails, disk, locals
  <2> QED BY <1>1, <2>1 DEF PlaceRight, ReturnRight
<1>5. CASE (DeleteOld \/ Rename \/ CopyStart \/ CopyEnd \/ Unlink) /\ pc' \in {"cleanup", "returned"}
  <2>1. /\ UNCHANGED <<scene, outPath, tempFiles, files, arcItems, dirItems, skipped, runs>> /\ returned' = "error"
        /\ pc \in {"delete", "move", "copy", "unlink"}
    BY <1>5 DEF DeleteOld, Rename, CopyStart, CopyEnd, Unlink, Goto, ReturnError, Fails, locals
  <2>2. tempFiles = {} /\ Updated(outPath)'
    BY <1>1, <2>1, UpdatedFrame DEF PlaceRight
  <2> QED BY <2>1, <2>2 DEF ReturnRight
<1>6. CASE (DeleteSource \/ Succeed) /\ pc' \in {"cleanup", "returned"}
  <2>1. /\ UNCHANGED <<scene, outPath, tempFiles, files, arcItems, dirItems, skipped, runs>>
        /\ returned' \in {"ok", "error"} /\ pc = "sources" /\ CreateTempFile' = CreateTempFile
    BY <1>6 DEF DeleteSource, Succeed, Goto, ReturnError, Fails, CreateTempFile, locals, disk
  <2>2. /\ tempFiles = {} /\ (Updated(ArcPath)' \/ CutCopy')
        /\ CreateTempFile => files[outPath] = NoFile
    BY <1>1, <2>1, UpdatedFrame DEF PlaceRight, CutCopy
  <2> QED BY <2>1, <2>2 DEF ReturnRight
<1>7. CASE Cleanup
  <2>1. /\ UNCHANGED <<scene, outPath, before, arcItems, dirItems, skipped, runs, returned>>
        /\ pc = "cleanup" /\ pc' = "returned" /\ CreateTempFile' = CreateTempFile /\ tempFiles' = {}
        /\ files' = [f \in DOMAIN files |-> IF f \in tempFiles THEN NoFile ELSE files[f]]
    BY <1>7 DEF Cleanup, Goto, CreateTempFile, locals
  <2>0. CASE returned = "error" /\ CutCopy
    <3>1. files'[ArcPath] = files[ArcPath]
      BY <1>1, <2>0, <2>1 DEF CutRight, CutCopy
    <3> QED BY <1>1, <2>0, <2>1, <3>1 DEF ReturnRight, CutCopy
  <2>2. CASE returned = "ok" \/ (tempFiles = {} /\ (Updated(outPath) \/ Updated(ArcPath)))
    <3>1. tempFiles = {}
      BY <1>1, <2>1, <2>2 DEF ReturnRight
    <3>2. files'[ArcPath] = files[ArcPath] /\ files'[outPath] = files[outPath]
      BY <1>1, <2>1, <3>1
    <3>3. (Updated(ArcPath) => Updated(ArcPath)') /\ (Updated(outPath) => Updated(outPath)')
      BY <2>1, <3>2, UpdatedFrame
    <3>4. CutCopy => CutCopy'
      BY <2>1, <3>2 DEF CutCopy
    <3> QED BY <1>1, <2>1, <2>2, <3>2, <3>3, <3>4 DEF ReturnRight
  <2>3. CASE /\ returned = "error"
             /\ files[ArcPath] = before \/ (ArcPath \in tempFiles /\ before = NoFile)
             /\ ArcPath \in tempFiles => before = NoFile
             /\ outPath # ArcPath => files[outPath] = NoFile \/ outPath \in tempFiles
    <3>1. files'[ArcPath] = before
      BY <1>1, <2>1, <2>3
    <3>2. outPath # ArcPath => files'[outPath] = NoFile
      BY <1>1, <2>1, <2>3
    <3> QED BY <2>1, <2>3, <3>1, <3>2 DEF ReturnRight
  <2> QED BY <1>1, <2>0, <2>1, <2>2, <2>3 DEF ReturnRight
<1>8. CASE Crash \/ RunAgain
  <2>1. pc' \in {"crashed", "open"}
    BY <1>8 DEF Crash, RunAgain, Goto
  <2> QED BY <1>2, <2>1
<1>9. CASE Done
  <2>1. UNCHANGED vars
    BY <1>9 DEF Done
  <2>2. (Updated(ArcPath) => Updated(ArcPath)') /\ (Updated(outPath) => Updated(outPath)')
    BY <2>1, UpdatedFrame DEF vars
  <2>3. CreateTempFile' = CreateTempFile /\ (CutCopy => CutCopy')
    BY <2>1 DEF vars, CreateTempFile, CutCopy
  <2> QED BY <1>1, <2>1, <2>2, <2>3 DEF ReturnRight, vars
<1> QED BY <1>2, <1>3, <1>4, <1>5, <1>6, <1>7, <1>8, <1>9 DEF Next

LEMMA NamesAreUnique ==
  ASSUME IInv, MakePairs, pc' # "cleanup"
  PROVE  /\ ~FailsAlways
         /\ scene.command = "add" => UniqueNames
<1> DEFINE pairs == UpdatePairs(dirItems, arcItems, scene.masked)
<1>1. ~Failed(pairs)
  BY DEF MakePairs, ReturnError
<1>2. Files(dirItems) /\ arcItems \in Seq(ItemType)
  BY FS_Subset DEF IInv, TypeOK, SceneRight, Files
<1>3. \A x, y \in dirItems : x.name = y.name => x = y
  <2> HIDE DEF pairs
  <2> QED BY <1>1, <1>2, UpdatePairsFit DEF pairs
<1>4. dirItems = (IF NeedScanning(scene.command) THEN Here ELSE {})
  BY DEF IInv, ReadRight, MakePairs
<1>5. ~FailsAlways
  <2> SUFFICES ASSUME FailsAlways PROVE FALSE
    OBVIOUS
  <2>1. files[ArcPath] = scene.arc /\ present = {d.path : d \in scene.disk}
    BY DEF IInv, PresentRight
  <2>2. arcItems = scene.arc.items
    BY <2>1 DEF IInv, ReadRight, PlaceRight, Read, MakePairs
  <2>3. Here = scene.disk
    BY <2>1 DEF Here
  <2>4. dirItems = AllDirs
    BY <1>4, <2>3 DEF AllDirs
  <2> QED BY <1>1, <2>2, <2>4 DEF FailsAlways
<1>6. ASSUME scene.command = "add" PROVE UniqueNames
  <2>1. NeedScanning("add")
    <3>1. "onlyOnDisk" \in States /\ ActionSet("add")["onlyOnDisk"] = "compress"
      BY DEF States, ActionSet
    <3> QED BY <3>1 DEF NeedScanning
  <2>2. CASE present = {d.path : d \in scene.disk}
    <3>1. Here = scene.disk
      BY <2>2 DEF Here
    <3> QED BY <1>3, <1>4, <1>6, <2>1, <3>1 DEF UniqueNames
  <2>3. CASE present # {d.path : d \in scene.disk}
    BY <2>3 DEF IInv, PresentRight
  <2> QED BY <2>2, <2>3
<1> QED BY <1>5, <1>6

LEMMA PresentStep ==
  ASSUME IInv, Next
  PROVE  PresentRight'
<1>1. PresentRight /\ SceneRight /\ TypeOK /\ scene' = scene /\ ArcPath \in DOMAIN files
  BY SceneStep DEF IInv, TypeOK
<1>2. UniqueNames' = UniqueNames /\ FailsAlways' = FailsAlways
  BY <1>1, SceneStable
<1> DEFINE Stopped == {"open", "scan", "pair", "cleanup", "returned", "crashed"}
<1>3. CASE MakePairs /\ pc' # "cleanup"
  <2>1. /\ UNCHANGED <<processed, present>> /\ ~FailsAlways
        /\ scene.command = "add" => UniqueNames
    BY <1>3, NamesAreUnique DEF MakePairs, disk
  <2> QED BY <1>1, <1>2, <2>1 DEF PresentRight
<1>4. CASE OpenArchive \/ EnumerateItems \/ (MakePairs /\ pc' = "cleanup") \/ Crash
  <2>1. /\ UNCHANGED <<processed, present, files>> /\ (tempFiles' = tempFiles \/ tempFiles' = {})
        /\ pc' \in Stopped /\ pc' \notin Paired
    BY <1>4 DEF OpenArchive, EnumerateItems, MakePairs, Crash, Goto, ReturnError, Fails, disk, locals, Paired
  <2> QED BY <1>1, <1>2, <2>1 DEF PresentRight
<1>5. CASE CreateFile \/ WriteItem \/ FinishFile \/ CloseArchive \/ ForgetTempFiles
  <2>1. UNCHANGED <<present>> /\ processed' = processed /\ pc \in Paired \ Stopped
    BY <1>5 DEF CreateFile, WriteItem, FinishFile, CloseArchive, ForgetTempFiles, StatusesPassed,
                disk, locals, Paired
  <2> QED BY <1>1, <1>2, <2>1 DEF PresentRight
<1>6. CASE DeleteOld \/ Rename \/ CopyStart \/ CopyEnd \/ Unlink \/ Succeed
  <2>1. UNCHANGED <<present, processed>> /\ pc \in Paired \ Stopped
    BY <1>6 DEF DeleteOld, Rename, CopyStart, CopyEnd, Unlink, Succeed, locals, disk, Paired
  <2> QED BY <1>1, <1>2, <2>1 DEF PresentRight
<1>7. CASE DeleteSource
  <2>1. UNCHANGED <<processed>> /\ pc \in Paired \ Stopped /\ scene.deleteAfter
    BY <1>7 DEF DeleteSource, locals, Paired
  <2>2. UniqueNames
    BY <1>1, <2>1 DEF PresentRight, SceneRight
  <2> QED BY <1>1, <1>2, <2>1, <2>2 DEF PresentRight
<1>8. CASE Cleanup
  <2>1. /\ UNCHANGED <<present, processed>> /\ pc' = "returned" /\ tempFiles' = {} /\ pc = "cleanup"
        /\ files' = [f \in DOMAIN files |-> IF f \in tempFiles THEN NoFile ELSE files[f]]
    BY <1>8 DEF Cleanup, Goto, locals
  <2>2. tempFiles = {} => files'[ArcPath] = files[ArcPath]
    BY <1>1, <2>1
  <2> QED BY <1>1, <1>2, <2>1, <2>2 DEF PresentRight, Paired
<1>9. CASE RunAgain
  <2>1. pc' = "open" /\ processed' = {} /\ UNCHANGED <<present, files, tempFiles>>
    BY <1>9 DEF RunAgain, disk
  <2> QED BY <1>1, <1>2, <2>1 DEF PresentRight, Paired
<1>10. CASE Done
  BY <1>1, <1>2, <1>10 DEF Done, vars, PresentRight
<1> QED BY <1>3, <1>4, <1>5, <1>6, <1>7, <1>8, <1>9, <1>10 DEF Next

(* At the moment the old archive is deleted, the new one has all of it that *)
(* must not be lost.                                                       *)
LEMMA OldIsSuperseded ==
  ASSUME IInv, pc = "delete", files[ArcPath].state = "whole"
  PROVE  /\ KeptItems \subseteq ToSet(files[ArcPath].items) => KeptItems \subseteq ToSet(files[outPath].items)
         /\ \A d \in scene.disk :
              d.path \notin present /\ Item(d) \in ToSet(files[ArcPath].items) =>
                Item(d) \in ToSet(files[outPath].items)
<1> DEFINE Act(a, dirs) == ActionSet(scene.command)[ArcItemState(a, dirs)]
<1>1. /\ Updated(outPath) /\ files[ArcPath] = before /\ arcItems = before.items
      /\ dirItems = (IF NeedScanning(scene.command) THEN Here ELSE {})
      /\ arcItems \in Seq(ItemType) /\ dirItems \subseteq scene.disk
      /\ ~FailsAlways /\ scene.disk \subseteq DirItemType
  BY DEF IInv, PlaceRight, ReadRight, Read, Paired, TypeOK, PresentRight, SceneRight, Files
<1>2. ASSUME NEW a \in ToSet(arcItems), Act(a, dirItems) = "copy"
      PROVE  a \in ToSet(files[outPath].items)
  <2>1. PICK n \in DOMAIN arcItems : a = arcItems[n]
    BY DEF ToSet
  <2>2. n \in CopiedIndices(arcItems, dirItems)
    BY <1>2, <2>1 DEF CopiedIndices
  <2> QED BY <1>1, <2>1, <2>2 DEF Updated
<1>3. present # {d.path : d \in scene.disk} => scene.command = "add" /\ UniqueNames
  BY DEF IInv, PresentRight, SceneRight
<1>4. \A d, a : StateOfBoth(d, a) \in {"newInArchive", "oldInArchive", "sameFiles", "unknownNewer"}
  BY DEF StateOfBoth
<1>5. /\ \A st \in {"newInArchive", "oldInArchive", "sameFiles", "unknownNewer"} :
           ActionSet("add")[st] = "compress"
      /\ \A st \in {"notMasked", "onlyInArchive"} : ActionSet("add")[st] = "copy"
  BY DEF ActionSet, States
<1>6. ASSUME NEW a, NEW dirs, Partner(a, dirs) = {}
      PROVE  ArcItemState(a, dirs) \in {"notMasked", "onlyInArchive"}
  <2>1. CASE a.name \in scene.masked
    BY <1>6, <2>1 DEF ArcItemState
  <2>2. CASE a.name \notin scene.masked
    BY <2>2 DEF ArcItemState
  <2> QED BY <2>1, <2>2
<1>7. ASSUME KeptItems \subseteq ToSet(files[ArcPath].items)
      PROVE  KeptItems \subseteq ToSet(files[outPath].items)
  <2> SUFFICES ASSUME NEW a \in KeptItems PROVE Act(a, dirItems) = "copy"
    BY <1>1, <1>2, <1>7
  <2>1. KeptItems = {scene.arc.items[n] : n \in CopiedIndices(scene.arc.items, AllDirs)}
    BY <1>1 DEF KeptItems, FailsAlways, AllDirs
  <2>2. Act(a, AllDirs) = "copy"
    BY <2>1 DEF CopiedIndices
  <2>3. CASE present = {d.path : d \in scene.disk}
    <3>1. Here = scene.disk
      BY <2>3 DEF Here
    <3> QED BY <1>1, <2>2, <3>1 DEF AllDirs
  <2>4. CASE present # {d.path : d \in scene.disk}
    <3>1. scene.command = "add"
      BY <1>3, <2>4
    <3>2. ArcItemState(a, AllDirs) \notin {"newInArchive", "oldInArchive", "sameFiles", "unknownNewer"}
      BY <1>5, <2>2, <3>1
    <3>3. a.name \notin scene.masked \/ Partner(a, AllDirs) = {}
      <4> SUFFICES ASSUME a.name \in scene.masked, Partner(a, AllDirs) # {} PROVE FALSE
        OBVIOUS
      <4>1. ArcItemState(a, AllDirs) = StateOfBoth(CHOOSE d \in Partner(a, AllDirs) : TRUE, a)
        BY DEF ArcItemState
      <4> QED BY <1>4, <3>2, <4>1
    <3>4. ArcItemState(a, dirItems) \in {"notMasked", "onlyInArchive"}
      <4>1. CASE a.name \notin scene.masked
        BY <4>1 DEF ArcItemState
      <4>2. CASE Partner(a, AllDirs) = {}
        <5>1. Partner(a, dirItems) = {}
          BY <1>1, <4>2 DEF Partner, AllDirs, Here
        <5> QED BY <1>6, <5>1
      <4> QED BY <3>3, <4>1, <4>2
    <3> QED BY <1>5, <3>1, <3>4
  <2> QED BY <2>3, <2>4
<1>8. ASSUME NEW d \in scene.disk, d.path \notin present, Item(d) \in ToSet(files[ArcPath].items)
      PROVE  Item(d) \in ToSet(files[outPath].items)
  <2>1. present # {e.path : e \in scene.disk}
    BY <1>8
  <2>2. scene.command = "add" /\ UniqueNames
    BY <1>3, <2>1
  <2>3. Partner(Item(d), dirItems) = {}
    <3> SUFFICES ASSUME NEW e \in dirItems, Same(e, Item(d)) PROVE FALSE
      BY DEF Partner
    <3>1. e.name = d.name /\ e \in scene.disk /\ e.path \in present
      BY <1>1 DEF Same, Item, Here
    <3> QED BY <1>8, <2>2, <3>1 DEF UniqueNames
  <2>4. Act(Item(d), dirItems) = "copy"
    BY <1>5, <1>6, <2>2, <2>3
  <2> QED BY <1>1, <1>2, <1>8, <2>4
<1> QED BY <1>7, <1>8

(* A cut copy comes from CopyEnd only, and nothing touches it after that.  *)
LEMMA CutStep ==
  ASSUME IInv, Next
  PROVE  CutRight' /\ (CutCopy => CutCopy')
<1>1. /\ CutRight /\ PlaceRight /\ TypeOK /\ scene' = scene
      /\ outPath \in DOMAIN files /\ ArcPath \in DOMAIN files
  BY SceneStep DEF IInv, TypeOK
<1>2. CASE files[ArcPath].state = "cut"
  <2>1. /\ pc \in {"open", "unlink", "sources", "cleanup", "returned", "crashed"}
        /\ scene.otherDevice /\ ArcPath \notin tempFiles
        /\ pc = "unlink" => outPath # ArcPath
    BY <1>1, <1>2 DEF CutRight, PlaceRight
  <2>2. /\ pc' \in {"open", "unlink", "sources", "cleanup", "returned", "crashed"}
        /\ tempFiles' \subseteq tempFiles
    BY <1>2, <2>1 DEF Next, OpenArchive, EnumerateItems, MakePairs, CreateFile, WriteItem, FinishFile,
         CloseArchive, ForgetTempFiles, DeleteOld, Rename, CopyStart, CopyEnd, Unlink, DeleteSource,
         Succeed, Cleanup, Crash, RunAgain, Done, vars, Goto, ReturnError, Fails
  <2>3. files'[ArcPath] = files[ArcPath]
    <3>1. files' = files \/ Unlink \/ Cleanup
      BY <2>1 DEF Next, OpenArchive, EnumerateItems, MakePairs, CreateFile, WriteItem, FinishFile,
         CloseArchive, ForgetTempFiles, DeleteOld, Rename, CopyStart, CopyEnd, DeleteSource,
         Succeed, Crash, RunAgain, Done, vars, disk
    <3>2. CASE Unlink
      BY <1>1, <2>1, <3>2 DEF Unlink
    <3>3. CASE Cleanup
      BY <1>1, <2>1, <3>3 DEF Cleanup
    <3> QED BY <3>1, <3>2, <3>3
  <2> QED BY <1>1, <1>2, <2>1, <2>2, <2>3 DEF CutRight, CutCopy
<1>3. CASE files[ArcPath].state # "cut" /\ files'[ArcPath].state = "cut"
  <2>1. \A f \in DOMAIN files : f # ArcPath /\ pc = "move" /\ f = outPath => files[f].state = "whole"
    BY <1>1 DEF PlaceRight, Updated
  <2>2. ~Rename /\ ~FinishFile /\ ~WriteItem
    <3>0. files \in [DOMAIN files -> FileType] /\ files[outPath] \in [state : {"none", "partial", "cut", "whole"}, items : Seq(ItemType)]
      BY <1>1 DEF TypeOK, FileType
    <3>1. ~Rename
      BY <1>1, <1>3 DEF Rename, PlaceRight, Updated, NoFile
    <3>2. ASSUME FinishFile PROVE files'[ArcPath].state \in {files[ArcPath].state, "whole"}
      BY <1>1, <3>0, <3>2 DEF FinishFile
    <3>3. ASSUME WriteItem PROVE files'[ArcPath].state = files[ArcPath].state
      BY <1>1, <3>0, <3>3, WriteItemFiles DEF Append2Out
    <3> QED BY <1>3, <3>1, <3>2, <3>3
  <2>3. ~CreateFile /\ ~DeleteOld /\ ~CopyStart /\ ~Unlink /\ ~Cleanup
    BY <1>1, <1>3 DEF CreateFile, DeleteOld, CopyStart, Unlink, Cleanup, NoFile
  <2>4. CopyEnd
    BY <1>3, <2>2, <2>3 DEF Next, OpenArchive, EnumerateItems, MakePairs, CloseArchive,
       ForgetTempFiles, DeleteSource, Succeed, Crash, RunAgain, Done, vars, disk
  <2>5. pc = "copy" /\ pc' \in {"unlink", "cleanup"} /\ tempFiles' = tempFiles
    BY <2>4 DEF CopyEnd, Goto, ReturnError, Fails
  <2> QED BY <1>1, <1>3, <2>5 DEF CutRight, CutCopy, PlaceRight
<1>4. CASE files[ArcPath].state # "cut" /\ files'[ArcPath].state # "cut"
  BY <1>4 DEF CutRight, CutCopy
<1> QED BY <1>2, <1>3, <1>4

(* Every complete file that stays is, unchanged, a file that stays.        *)
WholeFilesStay ==
  \A f \in DOMAIN files \ tempFiles :
    files[f].state = "whole" => \E g \in DOMAIN files' \ tempFiles' : files'[g] = files[f]

LEMMA KeptFrame ==
  ASSUME IInv, Next, WholeFilesStay, AllKept, present' = present
  PROVE  AllKept'
<1>1. \A X : Kept(X) => Kept(X)'
  BY DEF Kept, WholeFilesStay
<1>2. scene' = scene /\ KeptItems' = KeptItems
  BY SceneStep, SceneStable
<1>3. runs' \in Nat /\ runs <= runs' /\ skipped \subseteq skipped' /\ runs \in Nat
  <2>1. runs' = runs \/ runs' = runs + 1
    BY DEF Next, OpenArchive, EnumerateItems, MakePairs, CreateFile, WriteItem, FinishFile,
         CloseArchive, ForgetTempFiles, DeleteOld, Rename, CopyStart, CopyEnd, Unlink, DeleteSource,
         Succeed, Cleanup, Crash, RunAgain, Done, vars
  <2>2. skipped \subseteq skipped'
    BY DEF Next, OpenArchive, EnumerateItems, MakePairs, CreateFile, WriteItem, FinishFile,
         CloseArchive, ForgetTempFiles, DeleteOld, Rename, CopyStart, CopyEnd, Unlink, DeleteSource,
         Succeed, Cleanup, Crash, RunAgain, Done, vars
  <2> QED BY <2>1, <2>2 DEF IInv, TypeOK
<1>4. \A n \in 1..runs : n \in 1..runs'
  BY <1>3
<1>5. scene.arc.state = "whole" => Kept(KeptItems)'
  BY <1>1, <1>2 DEF IInv, AllKept
<1>6. ASSUME NEW d \in scene.disk, d.path \notin present
      PROVE  Kept({Item(d)})' \/ (d.size = 0 /\ \E n \in 1..runs' : <<n, d.path>> \in skipped')
  BY <1>1, <1>3, <1>4, <1>6 DEF IInv, AllKept
<1> QED BY <1>2, <1>5, <1>6 DEF AllKept

LEMMA DeleteOldKeeps ==
  ASSUME IInv, AllKept, DeleteOld, files' # files
  PROVE  AllKept'
<1>1. /\ files' = [files EXCEPT ![ArcPath] = NoFile] /\ pc = "delete"
      /\ UNCHANGED <<scene, present, tempFiles, skipped, runs, outPath>>
      /\ ArcPath \in DOMAIN files /\ outPath \in DOMAIN files /\ outPath # ArcPath /\ tempFiles = {}
      /\ files[outPath].state = "whole"
  BY DEF DeleteOld, IInv, TypeOK, PlaceRight, Updated, locals
<1>2. ASSUME NEW X, Kept(X),
             files[ArcPath].state = "whole" /\ X \subseteq ToSet(files[ArcPath].items) =>
               X \subseteq ToSet(files[outPath].items)
      PROVE  Kept(X)'
  <2>1. PICK f \in DOMAIN files : files[f].state = "whole" /\ X \subseteq ToSet(files[f].items)
    BY <1>2 DEF Kept
  <2>2. CASE f = ArcPath
    <3>1. files'[outPath] = files[outPath] /\ outPath \in DOMAIN files' \ tempFiles'
      BY <1>1
    <3> QED BY <1>1, <1>2, <2>1, <2>2, <3>1 DEF Kept
  <2>3. CASE f # ArcPath
    <3>1. files'[f] = files[f] /\ f \in DOMAIN files' \ tempFiles'
      BY <1>1, <2>3
    <3> QED BY <2>1, <3>1 DEF Kept
  <2> QED BY <2>2, <2>3
<1>3. KeptItems' = KeptItems
  BY <1>1, SceneStable
<1>4. scene.arc.state = "whole" => Kept(KeptItems)'
  <2> SUFFICES ASSUME scene.arc.state = "whole" PROVE Kept(KeptItems)'
    OBVIOUS
  <2>1. Kept(KeptItems)
    BY DEF IInv, AllKept
  <2>2. files[ArcPath].state = "whole" /\ KeptItems \subseteq ToSet(files[ArcPath].items) =>
          KeptItems \subseteq ToSet(files[outPath].items)
    BY <1>1, OldIsSuperseded
  <2> QED BY <1>2, <1>3, <2>1, <2>2
<1>5. ASSUME NEW d \in scene.disk, d.path \notin present
      PROVE  Kept({Item(d)})' \/ (d.size = 0 /\ \E n \in 1..runs : <<n, d.path>> \in skipped)
  <2>1. CASE Kept({Item(d)})
    <3>1. files[ArcPath].state = "whole" /\ {Item(d)} \subseteq ToSet(files[ArcPath].items) =>
            {Item(d)} \subseteq ToSet(files[outPath].items)
      BY <1>1, <1>5, OldIsSuperseded
    <3> QED BY <1>2, <2>1, <3>1
  <2>2. CASE ~Kept({Item(d)})
    BY <1>5, <2>2 DEF IInv, AllKept
  <2> QED BY <2>1, <2>2
<1> QED BY <1>1, <1>3, <1>4, <1>5 DEF AllKept

LEMMA DeleteSourceKeeps ==
  ASSUME IInv, AllKept, ~CutCopy, DeleteSource, present' # present
  PROVE  AllKept'
<1>1. /\ pc = "sources" /\ MayDelete(Sources[k]) /\ present' = present \ {Sources[k].path}
      /\ UNCHANGED <<scene, files, tempFiles, skipped, runs>> /\ k \in 1..Len(Sources)
      /\ scene.command = "add"
  BY DEF DeleteSource, IInv, TypeOK, ReadRight, SceneRight, ReturnError, Fails
<1> DEFINE s == Sources[k]
<1>2. s \in dirItems /\ s \in scene.disk /\ (\A d, e \in scene.disk : d.path = e.path => d = e)
  BY <1>1, SourcesRight DEF IInv, SceneRight, Files
<1>3. Updated(ArcPath) /\ tempFiles = {} /\ ArcPath \in DOMAIN files /\ processed = {} /\ runs \in 1..MaxRuns
  BY <1>1 DEF IInv, PlaceRight, PresentRight, TypeOK
<1>4. \A X : Kept(X) => Kept(X)'
  BY <1>1 DEF Kept
<1>5. KeptItems' = KeptItems
  BY <1>1, SceneStable
<1> HIDE DEF s
<1>6. s \in CompressedFiles(arcItems, dirItems)
  <2>1. DirItemState(s, arcItems) \in {"onlyOnDisk", "newInArchive", "oldInArchive", "sameFiles", "unknownNewer"}
    BY DEF DirItemState, StateOfBoth
  <2>2. \A st \in {"onlyOnDisk", "newInArchive", "oldInArchive", "sameFiles", "unknownNewer"} :
          ActionSet("add")[st] = "compress"
    BY DEF ActionSet, States
  <2> QED BY <1>1, <1>2, <2>1, <2>2 DEF CompressedFiles
<1>7. Kept({Item(s)}) \/ (s.size = 0 /\ \E n \in 1..runs : <<n, s.path>> \in skipped)
  <2>1. CASE <<runs, s.path>> \notin skipped
    <3>1. Item(s) \in ToSet(files[ArcPath].items) /\ files[ArcPath].state = "whole"
      BY <1>3, <1>6, <2>1 DEF Updated
    <3> QED BY <1>3, <3>1 DEF Kept
  <2>2. CASE <<runs, s.path>> \in skipped
    <3>1. DirItem(s.path) = s
      BY <1>2 DEF DirItem
    <3>2. ~DirItem(<<runs, s.path>>[2]).isDir
      BY <2>2 DEF IInv, SkippedRight
    <3>3. ~s.isDir
      BY <3>1, <3>2
    <3>4. s.size = 0
      BY <1>1, <1>3, <3>3 DEF MayDelete, s
    <3>5. runs \in 1..runs
      BY <1>3
    <3> QED BY <2>2, <3>4, <3>5
  <2> QED BY <2>1, <2>2
<1>8. ASSUME NEW d \in scene.disk, d.path \notin present'
      PROVE  Kept({Item(d)})' \/ (d.size = 0 /\ \E n \in 1..runs : <<n, d.path>> \in skipped)
  <2>1. CASE d.path \notin present
    BY <1>4, <2>1 DEF IInv, AllKept
  <2>2. CASE d.path \in present
    <3>1. d = s
      BY <1>1, <1>2, <1>8, <2>2 DEF s
    <3> QED BY <1>4, <1>7, <3>1
  <2> QED BY <2>1, <2>2
<1>9. scene.arc.state = "whole" => Kept(KeptItems)'
  BY <1>4, <1>5 DEF IInv, AllKept
<1> QED BY <1>1, <1>5, <1>8, <1>9 DEF AllKept

LEMMA NothingLostStep ==
  ASSUME IInv, Next
  PROVE  KeptRight'
<1>a. CASE CutCopy \/ CutCopy'
  BY <1>a, CutStep DEF KeptRight
<1>b. SUFFICES ASSUME ~CutCopy, ~CutCopy' PROVE AllKept'
  BY <1>a DEF KeptRight
<1>c. AllKept
  BY <1>b DEF IInv, KeptRight
<1>0. /\ PlaceRight /\ TypeOK /\ files \in [DOMAIN files -> FileType]
      /\ outPath \in DOMAIN files /\ ArcPath \in DOMAIN files
      /\ DOMAIN files' = DOMAIN files
  BY FilesTyped DEF IInv, TypeOK
<1>1. NoFile.state # "whole"
  BY DEF NoFile
<1>2. CASE files' = files /\ tempFiles' \subseteq tempFiles /\ present' = present
  BY <1>2, <1>c, KeptFrame DEF WholeFilesStay
<1>3. CASE OpenArchive \/ EnumerateItems \/ MakePairs \/ CloseArchive \/ ForgetTempFiles
  <2>1. files' = files /\ tempFiles' \subseteq tempFiles /\ present' = present
    BY <1>3 DEF OpenArchive, EnumerateItems, MakePairs, CloseArchive, ForgetTempFiles, disk
  <2> QED BY <1>2, <2>1
<1>4. CASE Succeed \/ Crash \/ RunAgain \/ Done
  <2>1. files' = files /\ tempFiles' \subseteq tempFiles /\ present' = present
    BY <1>4 DEF Succeed, Crash, RunAgain, Done, disk, vars
  <2> QED BY <1>2, <2>1
<1>5. CASE CreateFile
  <2>1. CASE files' = files
    <3>1. tempFiles' = tempFiles /\ present' = present
      <4>1. FreePath \in DOMAIN files /\ files[FreePath] = NoFile
        BY <1>5, FreePathRight DEF CreateFile
      <4>2. files' # [files EXCEPT ![FreePath] = [state |-> "partial", items |-> <<>>]]
        BY <2>1, <4>1 DEF NoFile
      <4> QED BY <1>5, <4>2 DEF CreateFile
    <3> QED BY <1>2, <2>1, <3>1
  <2>2. CASE files' # files
    <3>1. /\ files' = [files EXCEPT ![FreePath] = [state |-> "partial", items |-> <<>>]]
          /\ tempFiles' = {FreePath} /\ present' = present
      BY <1>5, <2>2 DEF CreateFile
    <3>2. FreePath \in DOMAIN files /\ files[FreePath] = NoFile
      BY <1>5, FreePathRight DEF CreateFile
    <3>3. WholeFilesStay
      BY <1>0, <1>1, <3>1, <3>2 DEF WholeFilesStay
    <3> QED BY <3>1, <3>3, <1>c, KeptFrame
  <2> QED BY <2>1, <2>2
<1>6. CASE WriteItem \/ FinishFile
  <2>1. tempFiles' = tempFiles /\ present' = present /\ outPath \in tempFiles
    BY <1>0, <1>6 DEF WriteItem, FinishFile, PlaceRight
  <2>2. \A f \in DOMAIN files : f # outPath => files'[f] = files[f]
    <3>1. CASE WriteItem
      BY <1>0, <3>1, WriteItemFiles DEF Append2Out
    <3>2. CASE FinishFile
      BY <1>0, <3>2 DEF FinishFile
    <3> QED BY <1>6, <3>1, <3>2
  <2>3. WholeFilesStay
    BY <1>0, <2>1, <2>2 DEF WholeFilesStay
  <2> QED BY <2>1, <2>3, <1>c, KeptFrame
<1>7. CASE DeleteOld
  <2>1. CASE files' # files
    BY <1>7, <2>1, <1>c, DeleteOldKeeps
  <2>2. tempFiles' = tempFiles /\ present' = present
    BY <1>7 DEF DeleteOld
  <2> QED BY <1>2, <2>1, <2>2
<1>8. CASE Rename \/ CopyStart \/ CopyEnd \/ Unlink
  <2>1. /\ tempFiles' = {} /\ tempFiles = {} /\ present' = present /\ outPath # ArcPath
        /\ pc = "move" => files[ArcPath] = NoFile
        /\ pc = "copy" => files[ArcPath].state = "partial"
        /\ pc = "unlink" => files[ArcPath] = files[outPath]
        /\ pc \in {"move", "copy", "unlink"}
    BY <1>0, <1>8, <1>b DEF Rename, CopyStart, CopyEnd, Unlink, PlaceRight
  <2>2. CASE files' = files
    BY <1>2, <2>1, <2>2
  <2>3. CASE Rename /\ files' # files
    <3>1. files' = [files EXCEPT ![ArcPath] = files[outPath], ![outPath] = NoFile] /\ pc = "move"
      BY <2>3 DEF Rename
    <3>2. /\ files'[ArcPath] = files[outPath]
          /\ \A f \in DOMAIN files : f # outPath /\ f # ArcPath => files'[f] = files[f]
      BY <1>0, <2>1, <3>1
    <3>3. WholeFilesStay
      BY <1>0, <1>1, <2>1, <3>1, <3>2 DEF WholeFilesStay
    <3> QED BY <2>1, <3>3, <1>c, KeptFrame
  <2>4. CASE CopyStart /\ files' # files
    <3>1. files' = [files EXCEPT ![ArcPath] = [state |-> "partial", items |-> <<>>]] /\ pc = "move"
      BY <2>4 DEF CopyStart
    <3>2. \A f \in DOMAIN files : f # ArcPath => files'[f] = files[f]
      BY <1>0, <3>1
    <3>3. WholeFilesStay
      BY <1>0, <1>1, <2>1, <3>1, <3>2 DEF WholeFilesStay
    <3> QED BY <2>1, <3>3, <1>c, KeptFrame
  <2>5. CASE CopyEnd /\ files' # files
    <3>1. /\ pc = "copy"
          /\ \/ files' = [files EXCEPT ![ArcPath] = files[outPath]]
             \/ files' = [files EXCEPT ![ArcPath] = [state |-> "cut", items |-> <<>>]]
      BY <2>5 DEF CopyEnd
    <3>2. \A f \in DOMAIN files : f # ArcPath => files'[f] = files[f]
      BY <1>0, <3>1
    <3>3. WholeFilesStay
      BY <1>0, <2>1, <3>1, <3>2 DEF WholeFilesStay
    <3> QED BY <2>1, <3>3, <1>c, KeptFrame
  <2>6. CASE Unlink /\ files' # files
    <3>1. files' = [files EXCEPT ![outPath] = NoFile] /\ pc = "unlink"
      BY <2>6 DEF Unlink
    <3>2. \A f \in DOMAIN files : f # outPath => files'[f] = files[f]
      BY <1>0, <3>1
    <3>3. WholeFilesStay
      BY <1>0, <2>1, <3>1, <3>2 DEF WholeFilesStay
    <3> QED BY <2>1, <3>3, <1>c, KeptFrame
  <2> QED BY <1>8, <2>2, <2>3, <2>4, <2>5, <2>6
<1>9. CASE DeleteSource
  <2>1. CASE present' # present
    BY <1>9, <2>1, <1>b, <1>c, DeleteSourceKeeps
  <2>2. files' = files /\ tempFiles' = tempFiles
    BY <1>9 DEF DeleteSource
  <2> QED BY <1>2, <2>1, <2>2
<1>10. CASE Cleanup
  <2>1. /\ files' = [f \in DOMAIN files |-> IF f \in tempFiles THEN NoFile ELSE files[f]]
        /\ tempFiles' = {} /\ present' = present
    BY <1>10 DEF Cleanup
  <2>2. WholeFilesStay
    BY <1>0, <2>1 DEF WholeFilesStay
  <2> QED BY <2>1, <2>2, <1>c, KeptFrame
<1> QED BY <1>3, <1>4, <1>5, <1>6, <1>7, <1>8, <1>9, <1>10 DEF Next

-----------------------------------------------------------------------------
LEMMA Initial ==
  Init => IInv
<1> SUFFICES ASSUME Init PROVE IInv
  OBVIOUS
<1>1. /\ MaxRuns \in Nat \ {0} /\ scene \in SceneType /\ IsFiniteSet(scene.disk)
      /\ scene.arc \in FileType /\ scene.disk \subseteq DirItemType
      /\ \A d, e \in scene.disk : d.path = e.path => d = e
      /\ scene.arc.state = "none" => scene.arc.items = <<>>
      /\ scene.deleteAfter => scene.command = "add"
      /\ scene.arc.state # "cut"
  BY ConstantsAssumption DEF Init, SceneType
<1>2. /\ <<>> \in Seq(ItemType) /\ <<>> \in Seq([newData : BOOLEAN, dir : Nat, arc : Nat])
      /\ NoFile \in FileType /\ NoFile.state = "none"
  <2>1. <<>> \in Seq(ItemType) /\ <<>> \in Seq([newData : BOOLEAN, dir : Nat, arc : Nat])
    OBVIOUS
  <2> QED BY <2>1 DEF NoFile, FileType
<1>3. scene.arc.state = "none" => scene.arc = NoFile
  BY <1>1 DEF FileType, NoFile
<1>4. files \in [{ArcPath} \cup TempPaths -> FileType] /\ files[ArcPath] = scene.arc /\ ArcPath \notin TempPaths
  BY <1>1, <1>2 DEF Init, ArcPath, TempPaths
<1>5. TypeOK
  <2>1. scene \in SceneType /\ files \in [{ArcPath} \cup TempPaths -> FileType] /\ before \in FileType
    BY <1>1, <1>4 DEF Init
  <2>2. /\ present = {d.path : d \in scene.disk} /\ processed = {} /\ skipped = {}
        /\ dirItems = {} /\ tempFiles = {} /\ arcItems = <<>> /\ chain = <<>>
        /\ arcOpened \in BOOLEAN /\ k = 1 /\ pc = "open" /\ returned = "no"
    BY DEF Init
  <2>3. outPath \in DOMAIN files /\ runs \in 1..MaxRuns
    BY <1>1, <1>4 DEF Init
  <2>4. arcItems \in Seq(ItemType) /\ chain \in Seq([newData : BOOLEAN, dir : Nat, arc : Nat])
    BY <1>2, <2>2
  <2> QED BY <2>1, <2>2, <2>3, <2>4 DEF TypeOK
<1>6. SceneRight
  BY <1>1 DEF SceneRight, Files
<1>7. FilesRight
  BY <1>1, <1>2, <1>3, <1>4 DEF Init, FilesRight
<1>8. SkippedRight /\ ReadRight /\ WrittenRight
  BY DEF Init, SkippedRight, ReadRight, WrittenRight, Read, Paired, Early
<1>9. PlaceRight /\ ReturnRight
  BY DEF Init, PlaceRight, ReturnRight, Early
<1>10. PresentRight
  BY <1>4 DEF Init, PresentRight, Paired
<1>11. CutRight /\ KeptRight
  <2>1. KeptItems \subseteq ToSet(scene.arc.items)
    BY DEF KeptItems, CopiedIndices, ToSet
  <2>2. scene.arc.state = "whole" => Kept(KeptItems)
    <3>1. ArcPath \in DOMAIN files \ tempFiles
      BY <1>4 DEF Init
    <3> QED BY <1>4, <2>1, <3>1 DEF Kept
  <2>3. \A d \in scene.disk : d.path \in present
    BY DEF Init
  <2> QED BY <1>1, <1>4, <2>2, <2>3 DEF KeptRight, AllKept, CutRight
<1> QED BY <1>5, <1>6, <1>7, <1>8, <1>9, <1>10, <1>11 DEF IInv

LEMMA Inductive ==
  IInv /\ [Next]_vars => IInv'
<1> SUFFICES ASSUME IInv, [Next]_vars PROVE IInv'
  OBVIOUS
<1>1. CASE Next
  BY <1>1, TypeStep, SceneStep, FilesStep, SkippedStep, ReadStep, WrittenStep, PlaceStep, ReturnStep,
     PresentStep, CutStep, NothingLostStep DEF IInv
<1>2. CASE UNCHANGED vars
  <2>1. scene' = scene
    BY <1>2 DEF vars
  <2>2. TypeOK' /\ SceneRight' /\ FilesRight'
    BY <1>2 DEF IInv, vars, TypeOK, SceneRight, FilesRight
  <2>3. SkippedRight'
    BY <1>2, <2>1, SceneStable DEF IInv, vars, SkippedRight
  <2>4. ReadRight'
    BY <1>2, ReadFrame DEF IInv, vars, ReadRight
  <2>5. /\ Updated(ArcPath) => Updated(ArcPath)'
        /\ Updated(outPath) => Updated(outPath)'
        /\ CreateTempFile' = CreateTempFile /\ CutCopy' = CutCopy
    BY <1>2, UpdatedFrame DEF vars, CreateTempFile, CutCopy
  <2>6. PlaceRight' /\ ReturnRight'
    BY <1>2, <2>5 DEF IInv, vars, PlaceRight, ReturnRight
  <2>7. PresentRight'
    BY <1>2, <2>1, SceneStable DEF IInv, vars, PresentRight
  <2>8. CutRight' /\ KeptRight'
    <3>1. \A X : Kept(X) => Kept(X)'
      BY <1>2 DEF Kept, vars
    <3>2. AllKept => AllKept'
      BY <1>2, <2>1, <3>1, SceneStable DEF vars, AllKept
    <3> QED BY <1>2, <2>5, <3>2 DEF IInv, vars, KeptRight, CutRight
  <2>9. WrittenRight'
    <3>1. \A n : EntryItem(n)' = EntryItem(n) /\ (LeftOut(n)' <=> LeftOut(n))
      BY <1>2, <2>1, SceneStable DEF vars, EntryItem, LeftOut
    <3>2. {n \in 1..(k - 1) : ~LeftOut(n)}' = {n \in 1..(k - 1) : ~LeftOut(n)}
      BY <1>2, <3>1 DEF vars
    <3>3. {EntryItem(n)' : n \in {m \in 1..(k - 1) : ~LeftOut(m)}} = {EntryItem(n) : n \in {m \in 1..(k - 1) : ~LeftOut(m)}}
      BY <3>1
    <3> QED BY <1>2, <3>1, <3>2, <3>3 DEF IInv, vars, WrittenRight
  <2> QED BY <2>2, <2>3, <2>4, <2>6, <2>7, <2>8, <2>9 DEF IInv
<1> QED BY <1>1, <1>2

LEMMA Invariance ==
  Spec => []IInv
BY Initial, Inductive, PTL DEF Spec

(* A return without an error leaves, at the place of the old archive, a    *)
(* complete one with just what the command wants in it, or a cut copy, and *)
(* no other file.                                                          *)
THEOREM SuccessfulUpdate ==
  Spec => []SuccessMeansUpdated
<1>1. IInv => SuccessMeansUpdated
  BY DEF IInv, ReturnRight, SuccessMeansUpdated
<1> QED BY <1>1, Invariance, PTL

(* Whatever fails, and wherever the process is killed, items that the      *)
(* command has no reason to touch and files that it deleted are in a       *)
(* complete archive, unless a short write in the copy to another device    *)
(* was taken for a whole one.                                              *)
THEOREM NothingLost ==
  Spec => []NothingIsLost
<1>1. \A X : Kept(X) => InWholeFile(X)
  BY DEF Kept, InWholeFile
<1>2. IInv => NothingIsLost
  BY <1>1 DEF IInv, KeptRight, AllKept, NothingIsLost
<1> QED BY <1>2, Invariance, PTL

(* An error leaves the old archive and nothing beside it, or the new one,  *)
(* or a cut copy.                                                          *)
THEOREM ErrorLeavesArchive ==
  Spec => []ErrorKeepsArchive
<1>1. IInv => ErrorKeepsArchive
  BY DEF IInv, ReturnRight, PlaceRight, ErrorKeepsArchive
<1> QED BY <1>1, Invariance, PTL
=============================================================================
