--------------------------- MODULE SevenZip_proofs ---------------------------
(***************************************************************************)
(* Proofs about the 7z handler: extraction keeps to the request, is honest *)
(* about what it could not decode, and decodes with the right mixer; the   *)
(* thread of an update is at rest when nothing is decoded for it.          *)
(***************************************************************************)
EXTENDS SevenZipExtract, TLAPS, FiniteSetTheorems

-----------------------------------------------------------------------------
(* Induction, by least counterexamples.                                    *)

Within(U, T) == U \subseteq T /\ U # T

(* A set of finite sets has a least one.                                   *)
LEMMA LeastSet ==
  ASSUME NEW S, NEW B, B \subseteq FiniteSubsetsOf(S), B # {}
  PROVE  \E T \in B : \A U \in B : ~Within(U, T)
<1>1. PICK T \in B : \A U \in B : ~(<<U, T>> \in StrictSubsetOrdering(S))
  BY FS_StrictSubsetOrderingWellFounded, WFMin
<1>2. B \subseteq SUBSET S
  BY DEF FiniteSubsetsOf
<1> QED BY <1>1, <1>2 DEF StrictSubsetOrdering, Within

(* A set of numbers has a least one.                                       *)
LEMMA LeastNumber ==
  ASSUME NEW T \in SUBSET Nat, T # {}
  PROVE  \E n \in T : \A m \in T : n <= m
<1> DEFINE B == {1..n : n \in T}
<1>1. B \subseteq FiniteSubsetsOf(Nat)
  <2> SUFFICES ASSUME NEW n \in T PROVE 1..n \subseteq Nat /\ IsFiniteSet(1..n)
    BY DEF FiniteSubsetsOf
  <2> QED BY FS_Interval
<1>2. B # {}
  OBVIOUS
<1>3. PICK x \in B : \A y \in B : ~Within(y, x)
  <2> HIDE DEF B
  <2> QED BY <1>1, <1>2, LeastSet
<1>4. PICK n \in T : x = 1..n
  OBVIOUS
<1>5. ASSUME NEW m \in T, m < n PROVE FALSE
  <2>1. 1..m \in B
    OBVIOUS
  <2>2. 1..m \subseteq 1..n /\ n \in 1..n /\ n \notin 1..m
    BY <1>5
  <2> QED BY <2>1, <2>2, <1>3, <1>4 DEF Within
<1> QED BY <1>5

(* A finite set with an order has a last element, ...                      *)
LEMMA LastElement ==
  ASSUME NEW S, IsFiniteSet(S), S # {}, NEW R,
         \A x, y \in S : x # y => <<x, y>> \in R \/ <<y, x>> \in R,
         \A x, y, z \in S : <<x, y>> \in R /\ <<y, z>> \in R => <<x, z>> \in R
  PROVE  \E x \in S : \A y \in S : y # x => <<y, x>> \in R
<1> DEFINE Last(T, x) == x \in T /\ \A y \in T : y # x => <<y, x>> \in R
           B == {T \in SUBSET S : T # {} /\ ~\E x \in T : Last(T, x)}
<1> SUFFICES ASSUME B # {} PROVE FALSE
  OBVIOUS
<1>1. B \subseteq FiniteSubsetsOf(S)
  BY FS_Subset DEF FiniteSubsetsOf
<1>2. PICK T \in B : \A U \in B : ~Within(U, T)
  <2> HIDE DEF B
  <2> QED BY <1>1, LeastSet
<1>3. PICK a \in T : TRUE
  OBVIOUS
<1>4. CASE T = {a}
  BY <1>4
<1>5. CASE T # {a}
  <2>0. T \ {a} \in SUBSET S /\ T \ {a} # {} /\ T \ {a} # T /\ T \ {a} \subseteq T
    BY <1>3, <1>5
  <2>1. T \ {a} \notin B
    <3> HIDE DEF B
    <3> QED BY <1>2, <2>0 DEF Within
  <2>2. PICK b \in T \ {a} : Last(T \ {a}, b)
    BY <2>0, <2>1
  <2>3. CASE <<a, b>> \in R
    BY <2>2, <2>3
  <2>4. CASE <<b, a>> \in R
    <3>1. \A y \in T : y # a => <<y, a>> \in R
      BY <2>2, <2>4
    <3> QED BY <3>1
  <2> QED BY <2>2, <2>3, <2>4
<1> QED BY <1>4, <1>5

(* ... and can be written down in this order.                              *)
LEMMA SortedSequence ==
  ASSUME NEW S, IsFiniteSet(S), NEW R,
         \A x, y \in S : x # y => <<x, y>> \in R \/ <<y, x>> \in R,
         \A x, y, z \in S : <<x, y>> \in R /\ <<y, z>> \in R => <<x, z>> \in R
  PROVE  \E q \in [1..Cardinality(S) -> S] :
           \A m, n \in 1..Cardinality(S) : m < n => <<q[m], q[n]>> \in R
<1> DEFINE Ordered(q, T) == /\ q \in [1..Cardinality(T) -> T]
                            /\ \A m, n \in 1..Cardinality(T) : m < n => <<q[m], q[n]>> \in R
           B == {T \in SUBSET S : ~\E q : Ordered(q, T)}
<1> SUFFICES ASSUME B # {} PROVE FALSE
  OBVIOUS
<1>1. B \subseteq FiniteSubsetsOf(S)
  BY FS_Subset DEF FiniteSubsetsOf
<1>2. PICK T \in B : \A U \in B : ~Within(U, T)
  <2> HIDE DEF B
  <2> QED BY <1>1, LeastSet
<1>3. CASE T = {}
  <2>1. Ordered([n \in 1..0 |-> 0], T)
    BY <1>3, FS_EmptySet
  <2> QED BY <2>1
<1>4. CASE T # {}
  <2>1. PICK x \in T : \A y \in T : y # x => <<y, x>> \in R
    <3> HIDE DEF B
    <3> QED BY <1>1, <1>2, <1>4, LastElement DEF FiniteSubsetsOf
  <2>2. T \ {x} \in SUBSET S /\ T \ {x} # T /\ T \ {x} \subseteq T
    OBVIOUS
  <2> T \ {x} \notin B
    <3> HIDE DEF B
    <3> QED BY <1>2, <2>2 DEF Within
  <2>3. PICK q : Ordered(q, T \ {x})
    BY <2>2
  <2> DEFINE N == Cardinality(T \ {x})
             r == [n \in 1..(N + 1) |-> IF n = N + 1 THEN x ELSE q[n]]
  <2>4. N \in Nat /\ Cardinality(T) = N + 1
    BY <1>1, FS_RemoveElement, FS_CardinalityType DEF FiniteSubsetsOf
  <2>5. q \in [1..N -> T \ {x}] /\ \A m, n \in 1..N : m < n => <<q[m], q[n]>> \in R
    BY <2>3
  <2> HIDE DEF N
  <2>6. r \in [1..(N + 1) -> T] /\ \A m, n \in 1..(N + 1) : m < n => <<r[m], r[n]>> \in R
    <3>1. r \in [1..(N + 1) -> T]
      BY <2>4, <2>5
    <3>2. ASSUME NEW m \in 1..(N + 1), NEW n \in 1..(N + 1), m < n PROVE <<r[m], r[n]>> \in R
      <4>1. m \in 1..N /\ r[m] = q[m] /\ q[m] \in T \ {x}
        BY <2>4, <2>5, <3>2
      <4>2. CASE n = N + 1
        BY <2>1, <4>1, <4>2
      <4>3. CASE n # N + 1
        BY <2>4, <2>5, <3>2, <4>1, <4>3
      <4> QED BY <4>2, <4>3
    <3> QED BY <3>1, <3>2
  <2>7. Ordered(r, T)
    <3> HIDE DEF r
    <3> QED BY <2>4, <2>6
  <2> QED BY <2>7
<1> QED BY <1>3, <1>4

-----------------------------------------------------------------------------
(* How files find their folders.                                           *)

Partial(d, n, s) ==
  /\ s \in [1..n -> Nat] /\ s[1] = 0
  /\ \A k \in 1..(n - 1) : s[k + 1] = s[k] + d.folders[k].streams

LEMMA ArchiveFacts ==
  ASSUME NEW d, d \in ArchiveType
  PROVE  /\ Len(d.folders) \in Nat /\ Len(d.files) \in Nat
         /\ DOMAIN d.folders = 1..Len(d.folders) /\ DOMAIN d.files = 1..Len(d.files)
         /\ \A k \in 1..Len(d.folders) : d.folders[k] \in FolderType /\ d.folders[k].streams \in Nat
         /\ \A f \in 1..Len(d.files) : d.files[f] \in FileType
<1>1. d.folders \in Seq(FolderType) /\ d.files \in Seq(FileType)
  BY DEF ArchiveType
<1>2. \A x \in FolderType : x.streams \in Nat
  BY DEF FolderType
<1> QED BY <1>1, <1>2

LEMMA StartExists ==
  ASSUME NEW d, d \in ArchiveType
  PROVE  \E s : Partial(d, Len(d.folders) + 1, s)
<1> DEFINE N == Len(d.folders)
<1>1. N \in Nat /\ \A k \in 1..N : d.folders[k].streams \in Nat
  BY ArchiveFacts
<1> HIDE DEF N
<1> DEFINE T == {n \in 1..(N + 1) : ~\E s : Partial(d, n, s)}
<1>2. CASE T = {}
  <2>1. N + 1 \in 1..(N + 1)
    BY <1>1
  <2>2. \E s : Partial(d, N + 1, s)
    BY <1>2, <2>1
  <2> QED BY <2>2 DEF N
<1>3. CASE T # {}
  <2>1. PICK n \in T : \A m \in T : n <= m
    <3>1. T \in SUBSET Nat
      BY <1>1
    <3> HIDE DEF T
    <3> QED BY <1>3, <3>1, LeastNumber
  <2>2. n \in 1..(N + 1) /\ ~\E s : Partial(d, n, s)
    OBVIOUS
  <2>3. n # 1
    <3>1. Partial(d, 1, [k \in 1..1 |-> 0])
      BY DEF Partial
    <3> QED BY <2>2, <3>1
  <2>4. n - 1 \in 1..(N + 1) /\ ~(n <= n - 1)
    BY <1>1, <2>2, <2>3
  <2>5. PICK s : Partial(d, n - 1, s)
    BY <2>1, <2>4
  <2>6. Partial(d, n, [k \in 1..n |-> IF k = n THEN s[n - 1] + d.folders[n - 1].streams ELSE s[k]])
    <3>1. n \in Nat /\ n > 1 /\ n - 1 \in 1..N /\ d.folders[n - 1].streams \in Nat
      BY <1>1, <2>2, <2>3
    <3>2. s \in [1..(n - 1) -> Nat] /\ s[1] = 0 /\ s[n - 1] \in Nat
      BY <2>5, <3>1 DEF Partial
    <3>3. \A k \in 1..((n - 1) - 1) : s[k + 1] = s[k] + d.folders[k].streams
      BY <2>5 DEF Partial
    <3> QED BY <3>1, <3>2, <3>3 DEF Partial
  <2> QED BY <2>2, <2>6
<1> QED BY <1>2, <1>3

LEMMA StreamsAre ==
  ASSUME NEW d, d \in ArchiveType
  PROVE  \E s : /\ Partial(d, Len(d.folders) + 1, s)
                /\ StreamsOf(d) = [k \in 1..Len(d.folders) |-> s[k]..(s[k + 1] - 1)]
<1> DEFINE N == Len(d.folders)
           IsStart(s) == s = [k \in 1..(N + 1) |->
                                IF k = 1 THEN 0 ELSE s[k - 1] + d.folders[k - 1].streams]
           start == CHOOSE s : IsStart(s)
<1>1. N \in Nat /\ \A k \in 1..N : d.folders[k].streams \in Nat
  BY ArchiveFacts
<1>2. PICK s : Partial(d, N + 1, s)
  BY StartExists
<1> HIDE DEF N
<1>3. IsStart(s)
  <2>1. s \in [1..(N + 1) -> Nat] /\ s[1] = 0
    BY <1>2 DEF Partial
  <2>2. ASSUME NEW k \in 1..(N + 1), k # 1 PROVE s[k] = s[k - 1] + d.folders[k - 1].streams
    <3>1. k - 1 \in 1..((N + 1) - 1) /\ (k - 1) + 1 = k
      BY <1>1, <2>2
    <3> QED BY <1>2, <3>1 DEF Partial
  <2> QED BY <2>1, <2>2
<1>4. IsStart(start)
  <2> HIDE DEF IsStart
  <2> QED BY <1>3
<1>5. StreamsOf(d) = [k \in 1..N |-> start[k]..(start[k + 1] - 1)]
  BY DEF StreamsOf, N
<1> HIDE DEF start
<1>6. start = s
  <2> DEFINE T == {k \in 1..(N + 1) : start[k] # s[k]}
  <2>1. T = {}
    <3> SUFFICES ASSUME T # {} PROVE FALSE
      OBVIOUS
    <3>1. PICK k \in T : \A m \in T : k <= m
      <4>1. T \in SUBSET Nat
        BY <1>1
      <4> HIDE DEF T
      <4> QED BY <4>1, LeastNumber
    <3>2. k \in 1..(N + 1) /\ start[k] # s[k]
      OBVIOUS
    <3>3. k # 1
      BY <1>1, <1>3, <1>4, <3>2
    <3>4. k - 1 \in 1..(N + 1) /\ ~(k <= k - 1)
      BY <1>1, <3>2, <3>3
    <3>5. start[k - 1] = s[k - 1]
      BY <3>1, <3>4
    <3>6. s[k] = s[k - 1] + d.folders[k - 1].streams
      BY <1>3, <3>2, <3>3
    <3>7. start[k] = start[k - 1] + d.folders[k - 1].streams
      BY <1>4, <3>2, <3>3
    <3> QED BY <3>2, <3>5, <3>6, <3>7
  <2> QED BY <1>3, <1>4, <2>1
<1> QED BY <1>2, <1>5, <1>6 DEF N

LEMMA StartsGrow ==
  ASSUME NEW d, d \in ArchiveType, NEW s, Partial(d, Len(d.folders) + 1, s),
         NEW a \in 1..(Len(d.folders) + 1), NEW b \in 1..(Len(d.folders) + 1), a <= b
  PROVE  s[a] <= s[b]
<1> DEFINE N == Len(d.folders)
           T == {k \in 1..(N + 1) : a <= k /\ s[a] > s[k]}
<1>1. N \in Nat /\ \A k \in 1..N : d.folders[k].streams \in Nat
  BY ArchiveFacts
<1>2. s \in [1..(N + 1) -> Nat] /\ \A k \in 1..((N + 1) - 1) : s[k + 1] = s[k] + d.folders[k].streams
  BY DEF Partial
<1> HIDE DEF N
<1>3. T = {}
  <2> SUFFICES ASSUME T # {} PROVE FALSE
    OBVIOUS
  <2>1. PICK k \in T : \A m \in T : k <= m
    <3>1. T \in SUBSET Nat
      BY <1>1
    <3> HIDE DEF T
    <3> QED BY <3>1, LeastNumber
  <2>2. k \in 1..(N + 1) /\ a <= k /\ s[a] > s[k] /\ k # a /\ a \in 1..(N + 1)
    BY <1>1, <1>2 DEF N
  <2>3. k - 1 \in 1..(N + 1) /\ a <= k - 1 /\ ~(k <= k - 1) /\ k - 1 \in 1..N /\ (k - 1) + 1 = k
    BY <1>1, <2>2
  <2>4. ~(s[a] > s[k - 1])
    BY <2>1, <2>3
  <2>5. s[k] = s[k - 1] + d.folders[k - 1].streams /\ d.folders[k - 1].streams \in Nat
    BY <1>1, <1>2, <2>3
  <2>6. s[a] \in Nat /\ s[k - 1] \in Nat /\ s[k] \in Nat
    BY <1>2, <2>2, <2>3
  <2> QED BY <2>2, <2>4, <2>5, <2>6
<1>4. ~(s[a] > s[b]) /\ s[a] \in Nat /\ s[b] \in Nat
  BY <1>2, <1>3 DEF N
<1> QED BY <1>4

(* The streams before and of a file are all of folder k.                   *)
Owns(d, k, f) ==
  /\ StreamsBefore(d, f) \in StreamsOf(d)[k]
  /\ d.files[f].hasStream \/ StreamsBefore(d, f) - 1 \in StreamsOf(d)[k]

LEMMA LinkIsOwner ==
  ASSUME NEW d, d \in ArchiveType, NEW f \in 1..Len(d.files)
  PROVE  /\ LinkedFolder(d, f) \in 0..Len(d.folders)
         /\ \A k \in 1..Len(d.folders) : LinkedFolder(d, f) = k <=> Owns(d, k, f)
<1> DEFINE N == Len(d.folders)
           own == {k \in 1..N : Owns(d, k, f)}
<1>1. PICK s : /\ Partial(d, N + 1, s)
               /\ StreamsOf(d) = [k \in 1..N |-> s[k]..(s[k + 1] - 1)]
  BY StreamsAre
<1>2. N \in Nat
  BY ArchiveFacts
<1>3. s \in [1..(N + 1) -> Nat]
  BY <1>1 DEF Partial
<1>4. ASSUME NEW k \in 1..N, NEW l \in 1..N, Owns(d, k, f), Owns(d, l, f), k < l PROVE FALSE
  <2>1. StreamsBefore(d, f) \in s[k]..(s[k + 1] - 1) /\ StreamsBefore(d, f) \in s[l]..(s[l + 1] - 1)
    BY <1>1, <1>4 DEF Owns
  <2>2. k + 1 \in 1..(N + 1) /\ l \in 1..(N + 1) /\ k + 1 <= l /\ l + 1 \in 1..(N + 1) /\ k \in 1..(N + 1)
    BY <1>2, <1>4
  <2>3. s[k + 1] <= s[l]
    BY <1>1, <2>2, StartsGrow
  <2>4. s[k] \in Nat /\ s[k + 1] \in Nat /\ s[l] \in Nat /\ s[l + 1] \in Nat
    BY <1>3, <2>2
  <2> QED BY <2>1, <2>3, <2>4
<1>5. \A k, l \in own : k = l
  <2> SUFFICES ASSUME NEW k \in own, NEW l \in own, k # l PROVE FALSE
    OBVIOUS
  <2>1. k < l \/ l < k
    BY <1>2
  <2> QED BY <1>4, <2>1
<1>6. LinkedFolder(d, f) = IF own = {} THEN 0 ELSE CHOOSE k \in own : TRUE
  BY DEF LinkedFolder, Owns, NoFolder
<1>7. CASE own = {}
  BY <1>2, <1>6, <1>7
<1>8. CASE own # {}
  <2>1. LinkedFolder(d, f) \in own
    <3> HIDE DEF own
    <3> QED BY <1>6, <1>8
  <2> QED BY <1>2, <1>5, <2>1
<1> QED BY <1>7, <1>8

LEMMA StreamsBeforeGrow ==
  ASSUME NEW d, d \in ArchiveType, NEW f \in 1..Len(d.files), NEW g \in 1..Len(d.files), f < g
  PROVE  /\ StreamsBefore(d, f) \in Nat /\ StreamsBefore(d, g) \in Nat
         /\ StreamsBefore(d, f) <= StreamsBefore(d, g)
         /\ d.files[f].hasStream => StreamsBefore(d, f) + 1 <= StreamsBefore(d, g)
<1> DEFINE S(x) == {e \in 1..(x - 1) : d.files[e].hasStream}
<1>1. Len(d.files) \in Nat
  BY ArchiveFacts
<1>2. IsFiniteSet(S(f)) /\ IsFiniteSet(S(g))
  <2>1. IsFiniteSet(1..(f - 1)) /\ IsFiniteSet(1..(g - 1))
    <3>1. \A n \in Int : IsFiniteSet(1..n)
      BY FS_Interval
    <3>2. f - 1 \in Int /\ g - 1 \in Int
      BY <1>1
    <3> QED BY <3>1, <3>2
  <2> QED BY <2>1, FS_Subset
<1>3. S(f) \subseteq S(g) /\ f \notin S(f)
  BY <1>1
<1>4. d.files[f].hasStream => S(f) \cup {f} \subseteq S(g)
  BY <1>1
<1>5. StreamsBefore(d, f) = Cardinality(S(f)) /\ StreamsBefore(d, g) = Cardinality(S(g))
  BY DEF StreamsBefore
<1> HIDE DEF S
<1>6. Cardinality(S(f)) \in Nat /\ Cardinality(S(g)) \in Nat /\ Cardinality(S(f)) <= Cardinality(S(g))
  BY <1>2, <1>3, FS_CardinalityType, FS_Subset
<1>7. d.files[f].hasStream => Cardinality(S(f)) + 1 <= Cardinality(S(g))
  <2> SUFFICES ASSUME d.files[f].hasStream PROVE Cardinality(S(f)) + 1 <= Cardinality(S(g))
    OBVIOUS
  <2>1. Cardinality(S(f) \cup {f}) = Cardinality(S(f)) + 1
    BY <1>2, <1>3, FS_AddElement
  <2> QED BY <1>2, <1>4, <2>1, FS_Subset
<1> QED BY <1>5, <1>6, <1>7

(* The files of a folder follow each other.                                *)
LEMMA FoldersTogether ==
  ASSUME NEW d, d \in ArchiveType, NEW f \in 1..Len(d.files), NEW g \in 1..Len(d.files),
         NEW h \in 1..Len(d.files), f < g, g < h,
         LinkedFolder(d, f) # NoFolder, LinkedFolder(d, f) = LinkedFolder(d, h)
  PROVE  LinkedFolder(d, g) = LinkedFolder(d, f)
<1>1. PICK k \in 1..Len(d.folders) : k = LinkedFolder(d, f)
  <2>1. LinkedFolder(d, f) \in 0..Len(d.folders) /\ LinkedFolder(d, f) # 0 /\ Len(d.folders) \in Nat
    BY LinkIsOwner, ArchiveFacts DEF NoFolder
  <2> QED BY <2>1
<1>2. Owns(d, k, f) /\ Owns(d, k, h)
  BY <1>1, LinkIsOwner
<1>3. PICK s : /\ Partial(d, Len(d.folders) + 1, s)
               /\ StreamsOf(d) = [l \in 1..Len(d.folders) |-> s[l]..(s[l + 1] - 1)]
  BY StreamsAre
<1>4. PICK a \in Nat, b \in Nat : StreamsOf(d)[k] = a..(b - 1)
  <2>1. Len(d.folders) \in Nat
    BY ArchiveFacts
  <2>2. k \in 1..(Len(d.folders) + 1) /\ k + 1 \in 1..(Len(d.folders) + 1)
    BY <2>1
  <2>3. s[k] \in Nat /\ s[k + 1] \in Nat
    BY <1>3, <2>2 DEF Partial
  <2> QED BY <1>3, <2>3
<1>5. PICK x \in Nat, y \in Nat, z \in Nat :
        x = StreamsBefore(d, f) /\ y = StreamsBefore(d, g) /\ z = StreamsBefore(d, h)
  BY StreamsBeforeGrow
<1>6. x <= y /\ y <= z /\ (d.files[f].hasStream => x + 1 <= y)
  BY <1>5, StreamsBeforeGrow
<1>7. x \in a..(b - 1) /\ z \in a..(b - 1) /\ (d.files[f].hasStream \/ x - 1 \in a..(b - 1))
  BY <1>2, <1>4, <1>5 DEF Owns
<1>8. y \in a..(b - 1) /\ y - 1 \in a..(b - 1)
  BY <1>6, <1>7
<1>9. Owns(d, k, g)
  BY <1>4, <1>5, <1>8 DEF Owns
<1> QED BY <1>1, <1>9, LinkIsOwner

LEMMA FirstFileIsFirst ==
  ASSUME NEW d, d \in ArchiveType, NEW f \in 1..Len(d.files)
  PROVE  LET k == LinkedFolder(d, f) IN
         /\ FirstFile(d, k) \in 1..f /\ LinkedFolder(d, FirstFile(d, k)) = k
         /\ \A g \in 1..Len(d.files) : LinkedFolder(d, g) = k => FirstFile(d, k) <= g
<1> DEFINE k == LinkedFolder(d, f)
           T == LinkedFiles(d, k)
           first == FirstFile(d, k)
<1>1. Len(d.files) \in Nat
  BY ArchiveFacts
<1>2. T \in SUBSET Nat /\ f \in T
  BY <1>1 DEF LinkedFiles
<1>3. \E n \in T : \A m \in T : n <= m
  <2> HIDE DEF T
  <2> QED BY <1>2, LeastNumber
<1>4. first \in T /\ \A m \in T : first <= m
  <2>1. first = CHOOSE n \in T : \A m \in T : n <= m
    BY DEF FirstFile
  <2> HIDE DEF first, T
  <2> QED BY <1>3, <2>1
<1>5. first \in 1..Len(d.files) /\ LinkedFolder(d, first) = k /\ first <= f
  BY <1>2, <1>4 DEF LinkedFiles
<1>6. \A g \in 1..Len(d.files) : LinkedFolder(d, g) = k => first <= g
  BY <1>4 DEF LinkedFiles
<1> HIDE DEF first
<1>7. first \in 1..f
  BY <1>1, <1>5
<1> QED BY <1>5, <1>6, <1>7 DEF first

-----------------------------------------------------------------------------
(* The indices of the request, and those that one decoding delivers.       *)

LEMMA SortedIs ==
  ASSUME NEW n \in Nat, NEW S \in SUBSET (1..n)
  PROVE  /\ Cardinality(S) \in 0..n /\ Sorted(S) \in [1..Cardinality(S) -> S]
         /\ \A a, b \in 1..Cardinality(S) : a < b => Sorted(S)[a] < Sorted(S)[b]
<1> DEFINE R == {p \in S \X S : p[1] < p[2]}
           N == Cardinality(S)
           q == Sorted(S)
<1>1. IsFiniteSet(S) /\ N \in 0..n
  <2>1. IsFiniteSet(1..n) /\ Cardinality(1..n) = n
    BY FS_Interval
  <2>2. IsFiniteSet(S) /\ N <= n /\ N \in Nat
    BY <2>1, FS_Subset, FS_CardinalityType
  <2> QED BY <2>2
<1>2. \A x, y \in S : <<x, y>> \in R <=> x < y
  OBVIOUS
<1>3. \A x, y \in S : x # y => <<x, y>> \in R \/ <<y, x>> \in R
  BY <1>2
<1>4. \A x, y, z \in S : <<x, y>> \in R /\ <<y, z>> \in R => <<x, z>> \in R
  BY <1>2
<1> HIDE DEF R
<1>5. \E p \in [1..N -> S] : \A a, b \in 1..N : a < b => <<p[a], p[b]>> \in R
  BY <1>1, <1>3, <1>4, SortedSequence
<1>6. \E p \in [1..N -> S] : \A a, b \in DOMAIN p : a < b => p[a] < p[b]
  BY <1>2, <1>5
<1>7. q \in [1..N -> S] /\ \A a, b \in DOMAIN q : a < b => q[a] < q[b]
  BY <1>6 DEF Sorted
<1> QED BY <1>1, <1>7

(* n growing numbers up to n are 1 to n.                                   *)
LEMMA AllInOrder ==
  ASSUME NEW n \in Nat, NEW q \in [1..n -> 1..n], \A a, b \in 1..n : a < b => q[a] < q[b],
         NEW a \in 1..n
  PROVE  q[a] = a
<1>1. ASSUME NEW b \in 1..n PROVE q[b] >= b
  <2> DEFINE T == {c \in 1..n : q[c] < c}
  <2>1. T = {}
    <3> SUFFICES ASSUME T # {} PROVE FALSE
      OBVIOUS
    <3>1. PICK c \in T : \A m \in T : c <= m
      <4>1. T \in SUBSET Nat
        OBVIOUS
      <4> HIDE DEF T
      <4> QED BY <4>1, LeastNumber
    <3>2. c \in 1..n /\ q[c] < c /\ q[c] \in 1..n
      OBVIOUS
    <3>3. c - 1 \in 1..n /\ ~(c <= c - 1) /\ c - 1 < c
      BY <3>2
    <3>4. ~(q[c - 1] < c - 1) /\ q[c - 1] < q[c] /\ q[c - 1] \in 1..n
      BY <3>1, <3>2, <3>3
    <3> QED BY <3>2, <3>3, <3>4
  <2>2. ~(q[b] < b) /\ q[b] \in 1..n
    BY <2>1
  <2> QED BY <2>2
<1>2. ASSUME NEW b \in 1..n PROVE q[b] <= b
  <2> DEFINE T == {e \in 0..n : n - e \in 1..n /\ q[n - e] > n - e}
  <2>1. T = {}
    <3> SUFFICES ASSUME T # {} PROVE FALSE
      OBVIOUS
    <3>1. PICK e \in T : \A m \in T : e <= m
      <4>1. T \in SUBSET Nat
        OBVIOUS
      <4> HIDE DEF T
      <4> QED BY <4>1, LeastNumber
    <3>2. PICK c \in 1..n : c = n - e /\ q[c] > c /\ q[c] \in 1..n /\ e \in 0..n
      OBVIOUS
    <3>3. c + 1 \in 1..n /\ e - 1 \in 0..n /\ n - (e - 1) = c + 1 /\ ~(e <= e - 1) /\ c < c + 1
      BY <3>2
    <3>4. ~(q[c + 1] > c + 1)
      BY <3>1, <3>3
    <3>5. q[c] < q[c + 1] /\ q[c + 1] \in 1..n
      BY <3>2, <3>3
    <3> QED BY <3>2, <3>3, <3>4, <3>5
  <2>2. n - b \in 0..n /\ n - (n - b) = b /\ q[b] \in 1..n
    OBVIOUS
  <2>3. ~(q[b] > b)
    BY <2>1, <2>2
  <2> QED BY <2>2, <2>3
<1> QED BY <1>1, <1>2

(* numSolidFiles, for the state that NextFiles starts from.                *)
LEMMA SolidFilesAre ==
  ASSUME db \in ArchiveType, call.indices \in Seq(1..Len(db.files)),
         NEW p \in 1..Len(call.indices)
  PROVE  LET n == SolidFiles(p)  k == FolderOf(call.indices[p]) IN
         /\ n \in 1..(Len(call.indices) - p + 1)
         /\ k = NoFolder => n = 1
         /\ \A m \in p..(p + n - 1) : FolderOf(call.indices[m]) = k
         /\ k # NoFolder /\ p + n <= Len(call.indices) =>
              FolderOf(call.indices[p + n]) # k \/ call.indices[p + n] <= call.indices[p + n - 1]
<1> DEFINE L == Len(call.indices)
           k == FolderOf(call.indices[p])
           Run(n) == \A m \in (p + 1)..(p + n - 1) :
                       FolderOf(call.indices[m]) = k /\ call.indices[m] > call.indices[m - 1]
           together == {n \in 1..(L - p + 1) : Run(n)}
           n == SolidFiles(p)
<1>1. L \in Nat /\ \A m \in 1..L : call.indices[m] \in 1..Len(db.files)
  OBVIOUS
<1>2. n = IF k = NoFolder THEN 1 ELSE CHOOSE x \in together : \A m \in together : m <= x
  BY DEF SolidFiles
<1> HIDE DEF L, n, k
<1>3. p \in 1..L /\ L - p + 1 \in Nat /\ 1 \in together
  BY <1>1 DEF L
<1>4. \E x \in together : \A m \in together : m <= x
  <2> DEFINE T == {e \in 0..(L - p + 1) : (L - p + 1) - e \in together}
  <2>1. PICK e \in T : \A m \in T : e <= m
    <3>1. T \in SUBSET Nat
      OBVIOUS
    <3>2. (L - p + 1) - 1 \in T
      <4>1. (L - p + 1) - 1 \in 0..(L - p + 1) /\ (L - p + 1) - ((L - p + 1) - 1) = 1
        BY <1>3
      <4> HIDE DEF together
      <4> QED BY <1>3, <4>1
    <3> HIDE DEF T
    <3> QED BY <3>1, <3>2, LeastNumber
  <2>2. ASSUME NEW m \in together PROVE m <= (L - p + 1) - e
    <3>1. m \in 1..(L - p + 1)
      OBVIOUS
    <3>2. (L - p + 1) - m \in 0..(L - p + 1) /\ (L - p + 1) - ((L - p + 1) - m) = m
      BY <1>3, <3>1
    <3>3. (L - p + 1) - m \in T
      <4> HIDE DEF together
      <4> QED BY <3>2
    <3>4. e <= (L - p + 1) - m /\ e \in 0..(L - p + 1)
      BY <2>1, <3>3
    <3> QED BY <1>3, <3>1, <3>4
  <2>3. (L - p + 1) - e \in together
    OBVIOUS
  <2> HIDE DEF together, T
  <2> QED BY <2>2, <2>3
<1>5. CASE k = NoFolder
  <2>1. n = 1
    BY <1>2, <1>5
  <2>2. \A m \in p..(p + n - 1) : FolderOf(call.indices[m]) = k
    BY <1>3, <2>1 DEF k
  <2> QED BY <1>3, <1>5, <2>1, <2>2 DEF n, k, L
<1>6. CASE k # NoFolder
  <2>1. n \in together /\ \A m \in together : m <= n
    <3> HIDE DEF together
    <3> QED BY <1>2, <1>4, <1>6
  <2>2. n \in 1..(L - p + 1) /\ Run(n)
    BY <2>1
  <2>3. ASSUME NEW m \in p..(p + n - 1) PROVE FolderOf(call.indices[m]) = k
    <3>1. m = p \/ m \in (p + 1)..(p + n - 1)
      BY <1>3, <2>2
    <3> QED BY <2>2, <3>1 DEF k
  <2>0. n \in 1..(L - p + 1)
    BY <2>2
  <2>4. ASSUME p + n <= L
        PROVE  FolderOf(call.indices[p + n]) # k \/ call.indices[p + n] <= call.indices[p + n - 1]
    <3>1. n + 1 \in 1..(L - p + 1) /\ ~(n + 1 <= n) /\ p + n \in 1..L /\ p + n - 1 \in 1..L
      <4> HIDE DEF together, Run
      <4> QED BY <1>1, <1>3, <2>0, <2>4
    <3>2. n + 1 \notin together
      <4> HIDE DEF together
      <4> QED BY <2>1, <3>1
    <3>3. PICK m \in (p + 1)..(p + (n + 1) - 1) :
            ~(FolderOf(call.indices[m]) = k /\ call.indices[m] > call.indices[m - 1])
      BY <3>1, <3>2
    <3>4. m = p + n /\ m - 1 = p + n - 1
      <4>1. m = p + n
        BY <1>3, <2>2, <3>3
      <4> QED BY <1>3, <2>0, <4>1
    <3>5. call.indices[p + n] \in Nat /\ call.indices[p + n - 1] \in Nat
      <4>1. \A j \in 1..L : call.indices[j] \in Nat
        BY <1>1
      <4> HIDE DEF L, together, Run
      <4> QED BY <3>1, <4>1
    <3> QED BY <3>3, <3>4, <3>5
  <2> HIDE DEF Run, together
  <2> QED BY <1>6, <2>2, <2>3, <2>4 DEF n, k, L
<1> QED BY <1>5, <1>6

-----------------------------------------------------------------------------
(* The inductive invariant of extraction.                                  *)

ResultType == [file : 1..Len(db.files), mode : {"extract", "test", "skip"},
               result : {"ok", "crc", "dataError", "unsupported"}, intact : BOOLEAN]

OutType == [fileIndex : 1..(Len(db.files) + 1), numFiles : 0..Len(call.indices),
            open : BOOLEAN, mode : {"extract", "test", "skip"}, hasStream : BOOLEAN,
            rem : Nat, right : BOOLEAN]

Types == TypeOK /\ db \in Archives /\ results \in Seq(ResultType)

(* The request is in the order of the archive.                             *)
Request ==
  /\ \A m, n \in 1..Len(call.indices) : m < n => call.indices[m] < call.indices[n]
  /\ call.all => /\ Len(call.indices) = Len(db.files)
                 /\ \A n \in 1..Len(call.indices) : call.indices[n] = n

(* Both counters of CFolderOutStream: the next requested file is in the    *)
(* folder and not behind the file that is decoded.  A request for all      *)
(* files starts a folder with its first.                                   *)
Ahead ==
  /\ out.numFiles < i
  /\ out.numFiles > 0 =>
       /\ out.fileIndex <= call.indices[i - out.numFiles]
       /\ call.all => out.fileIndex = call.indices[i - out.numFiles]
       /\ \A m \in (i - out.numFiles)..(i - 1) : FolderOf(call.indices[m]) = folder
       /\ folder = NoFolder => out.numFiles = 1 /\ out.fileIndex = call.indices[i - 1]
  /\ call.all /\ 1 < i /\ i <= Len(call.indices) =>
       FolderOf(call.indices[i]) = NoFolder \/ FolderOf(call.indices[i - 1]) # FolderOf(call.indices[i])

OpenRight ==
  out.open =>
    /\ out.numFiles > 0
    /\ out.mode = "skip" <=> out.fileIndex # NextFileIndex
    /\ out.rem <= File(out.fileIndex).size
    /\ ~out.right => File(out.fileIndex).hasStream

AskedRight ==
  /\ Cardinality(Asked) = i - 1 - out.numFiles
  /\ \A m \in Asked : results[m].file = call.indices[Cardinality({n \in Asked : n <= m})]

Truthful ==
  \A n \in DOMAIN results :
    /\ results[n].result = "ok" => results[n].intact \/ ~File(results[n].file).crcDefined
    /\ results[n].result = "crc" => ~results[n].intact

Failed == {"dataError", "unsupported"}

Shown(k) == \E m \in Asked : FolderOf(results[m].file) = k /\ results[m].result # "ok"

(* A folder that failed has been reported, or will be when it is flushed.  *)
FailuresShow ==
  returned \in {"no", "ok"} =>
    \A k \in failures \ blocks :
      \/ Shown(k)
      \/ pc = "flush" /\ k = folder /\ outcome \in Failed /\ (finished \/ out.numFiles > 0)

MixerRight ==
  /\ decoder.prev # NoBind =>
       \/ decoder.mixer = [bind |-> decoder.prev, whole |-> TRUE]
       \/ /\ decoder.mixer.bind # decoder.prev /\ decoder.mixer.bind \in NoCoderBinds
          /\ \E k \in failures : db.folders[k].bind = decoder.mixer.bind
  /\ pc \in {"setup", "code"} => decoder.prev = Bind

Control ==
  /\ pc = "next" => out.numFiles = 0 /\ ~out.open
  /\ pc \in {"decode", "setup", "code", "flush"} => folder # NoFolder
  /\ pc \in {"decode", "setup"} => ~out.open
  /\ pc = "flush" =>
       /\ finished => out.numFiles = 0
       /\ out.open /\ out.hasStream => out.rem < File(out.fileIndex).size \/ File(out.fileIndex).isDir
  /\ pc # "returned" => returned = "no"
  /\ returned = "ok" => out.numFiles = 0 /\ i = Len(call.indices) + 1

IInv == /\ Types /\ Request /\ Ahead /\ OpenRight /\ AskedRight /\ Truthful
        /\ FailuresShow /\ MixerRight /\ Control

-----------------------------------------------------------------------------
(* Facts about the state.                                                  *)

LEMMA TypeFacts ==
  ASSUME Types
  PROVE  /\ db \in ArchiveType /\ AsRead(db)
         /\ Len(db.files) \in Nat /\ Len(db.folders) \in Nat /\ Len(call.indices) \in Nat
         /\ call.indices \in Seq(1..Len(db.files)) /\ call.all \in BOOLEAN /\ call.test \in BOOLEAN
         /\ \A n \in 1..Len(call.indices) : call.indices[n] \in 1..Len(db.files)
         /\ \A f \in 1..Len(db.files) : File(f).size \in Nat /\ FolderOf(f) \in 0..Len(db.folders)
         /\ \A k \in 1..Len(db.folders) : db.folders[k].bind \in BindInfos
         /\ i \in 1..(Len(call.indices) + 1) /\ folder \in 0..Len(db.folders)
         /\ out \in OutType /\ out.fileIndex \in 1..(Len(db.files) + 1)
         /\ out.numFiles \in 0..Len(call.indices) /\ out.rem \in Nat
<1>1. db \in ArchiveType /\ AsRead(db)
  BY ConstantsAssumption DEF Types
<1>2. /\ Len(db.files) \in Nat /\ Len(db.folders) \in Nat
      /\ \A k \in 1..Len(db.folders) : db.folders[k] \in FolderType
      /\ \A f \in 1..Len(db.files) : db.files[f] \in FileType
  BY <1>1, ArchiveFacts
<1>3. call.indices \in Seq(1..Len(db.files)) /\ call.all \in BOOLEAN /\ call.test \in BOOLEAN
  BY DEF Types, TypeOK
<1>4. Len(call.indices) \in Nat /\ \A n \in 1..Len(call.indices) : call.indices[n] \in 1..Len(db.files)
  BY <1>3
<1>5. \A f \in 1..Len(db.files) : File(f).size \in Nat
  BY <1>2 DEF File, FileType
<1>6. \A f \in 1..Len(db.files) : FolderOf(f) \in 0..Len(db.folders)
  BY <1>1, LinkIsOwner DEF FolderOf
<1>7. \A k \in 1..Len(db.folders) : db.folders[k].bind \in BindInfos
  BY <1>2 DEF FolderType
<1>8. i \in 1..(Len(call.indices) + 1) /\ folder \in 0..Len(db.folders) /\ out \in OutType
  BY DEF Types, TypeOK, OutType
<1>9. /\ out.fileIndex \in 1..(Len(db.files) + 1) /\ out.numFiles \in 0..Len(call.indices)
      /\ out.rem \in Nat
  BY <1>8 DEF OutType
<1> QED BY <1>1, <1>2, <1>3, <1>4, <1>5, <1>6, <1>7, <1>8, <1>9

(* With files left there is a next requested file and a file to decode.    *)
LEMMA FilesLeft ==
  ASSUME Types, Ahead, out.numFiles > 0
  PROVE  /\ i - out.numFiles \in 1..Len(call.indices) /\ i - 1 \in 1..Len(call.indices)
         /\ NextFileIndex = call.indices[i - out.numFiles]
         /\ call.indices[i - out.numFiles] \in 1..Len(db.files)
         /\ out.fileIndex \in 1..Len(db.files) /\ out.fileIndex <= NextFileIndex
         /\ FolderOf(NextFileIndex) = folder
<1>1. i - out.numFiles \in 1..Len(call.indices) /\ i - 1 \in 1..Len(call.indices)
  BY TypeFacts, SMTT(30) DEF Ahead
<1>2. call.indices[i - out.numFiles] \in 1..Len(db.files)
  BY <1>1, TypeFacts
<1>3. NextFileIndex = call.indices[i - out.numFiles]
  BY DEF NextFileIndex, Ahead
<1>4. out.fileIndex <= NextFileIndex
  BY <1>3 DEF Ahead
<1>5. out.fileIndex \in 1..Len(db.files)
  BY <1>2, <1>3, <1>4, TypeFacts, SMTT(30)
<1>6. i - out.numFiles \in (i - out.numFiles)..(i - 1)
  BY TypeFacts
<1>7. FolderOf(NextFileIndex) = folder
  BY <1>3, <1>6 DEF Ahead
<1> QED BY <1>1, <1>2, <1>3, <1>4, <1>5, <1>7

(* What does not move the streams or the results leaves most as it was.    *)
LEMMA Frame ==
  ASSUME IInv, UNCHANGED <<db, call, i, folder, out, results>>
  PROVE  Request' /\ Ahead' /\ OpenRight' /\ AskedRight' /\ Truthful'
<1>1. Request'
  BY DEF IInv, Request
<1>2. Ahead'
  BY DEF IInv, Ahead, FolderOf
<1>3. OpenRight'
  BY DEF IInv, OpenRight, NextFileIndex, File
<1>4. AskedRight'
  BY DEF IInv, AskedRight, Asked
<1>5. Truthful'
  BY DEF IInv, Truthful, File
<1> QED BY <1>1, <1>2, <1>3, <1>4, <1>5

(* An error may be returned from anywhere.                                 *)
LEMMA ErrorReturned ==
  ASSUME IInv, Types', UNCHANGED <<db, call, folder, decoder>>, failures \subseteq failures',
         pc' = "returned", returned' \in {"error", "crashed"}
  PROVE  FailuresShow' /\ MixerRight' /\ Control'
<1>1. FailuresShow'
  BY DEF FailuresShow
<1>2. MixerRight'
  BY DEF IInv, MixerRight
<1>3. Control'
  BY DEF Control
<1> QED BY <1>1, <1>2, <1>3

-----------------------------------------------------------------------------
(* Decoding a folder.                                                      *)

DecoderType == [mixer : [bind : BindInfos \cup {NoBind}, whole : BOOLEAN],
                prev : BindInfos \cup {NoBind}]

LEMMA BindIsTyped ==
  ASSUME IInv, pc \in {"decode", "setup", "code", "flush"}
  PROVE  folder \in 1..Len(db.folders) /\ Bind \in BindInfos /\ Bind # NoBind
<1>1. folder \in 1..Len(db.folders)
  BY TypeFacts DEF IInv, Control, NoFolder
<1> QED BY <1>1, TypeFacts, ConstantsAssumption DEF IInv, Bind

LEMMA TypesFrame ==
  ASSUME Types, UNCHANGED <<db, call, i, folder, out, results>>,
         pc' \in {"next", "init", "decode", "setup", "code", "flush", "returned"},
         outcome' \in {"none", "done", "dataError", "unsupported", "exception", "error"},
         finished' \in BOOLEAN, decoder' \in DecoderType,
         blocks' \subseteq 1..Len(db.folders), failures' \subseteq 1..Len(db.folders),
         returned' \in {"no", "ok", "error", "crashed"}
  PROVE  Types'
BY DEF Types, TypeOK, ResultType, DecoderType

LEMMA TypesParts ==
  ASSUME Types
  PROVE  /\ pc \in {"next", "init", "decode", "setup", "code", "flush", "returned"}
         /\ outcome \in {"none", "done", "dataError", "unsupported", "exception", "error"}
         /\ finished \in BOOLEAN /\ decoder \in DecoderType
         /\ blocks \subseteq 1..Len(db.folders) /\ failures \subseteq 1..Len(db.folders)
         /\ returned \in {"no", "ok", "error", "crashed"}
BY DEF Types, TypeOK, DecoderType

LEMMA DecodeReturnsStep ==
  ASSUME IInv, pc \in {"decode", "setup", "code"}, decoder' \in DecoderType,
         NEW r \in {"done", "dataError", "unsupported", "exception", "error"}, DecodeReturns(r),
         out.open => out.rem < File(out.fileIndex).size
  PROVE  Types' /\ FailuresShow' /\ Control' /\ pc' \in {"flush", "returned"}
<1>1. /\ UNCHANGED <<db, call, i, folder, out, results, blocks>>
      /\ outcome' = r /\ finished' = WasWritingFinished
      /\ failures' = IF r \in Failed THEN failures \cup {folder} ELSE failures
      /\ \/ r = "error" /\ pc' = "returned" /\ returned' = "error"
         \/ r # "error" /\ pc' = "flush" /\ returned' = returned
  BY DEF DecodeReturns, Return, Failed
<1>2. folder \in 1..Len(db.folders)
  BY BindIsTyped
<1>3. Types'
  BY <1>1, <1>2, TypesParts, TypesFrame DEF IInv, WasWritingFinished
<1>4. \A k \in failures \ blocks : returned = "no" => Shown(k)
  BY DEF IInv, FailuresShow
<1>5. \A k : Shown(k)' <=> Shown(k)
  BY <1>1 DEF Shown, Asked, FolderOf
<1>6. returned = "no" /\ returned' \in {"no", "error"}
  BY <1>1 DEF IInv, Control
<1>7. FailuresShow'
  <2> SUFFICES ASSUME returned' \in {"no", "ok"}, NEW k \in (failures \ blocks)', ~Shown(k)
               PROVE  /\ pc' = "flush" /\ k = folder' /\ outcome' \in Failed
                      /\ finished' \/ out'.numFiles > 0
    BY <1>5 DEF FailuresShow
  <2>1. k \notin failures \ blocks
    BY <1>4, <1>6
  <2>2. r \in Failed /\ k = folder
    BY <1>1, <2>1
  <2>3. out.numFiles \in Nat
    BY TypeFacts DEF IInv
  <2>4. pc' = "flush" /\ folder' = folder /\ outcome' \in Failed
    BY <1>1, <2>2 DEF Failed
  <2>5. finished' \/ out'.numFiles > 0
    <3>1. CASE out.numFiles = 0
      <4>1. WasWritingFinished = TRUE
        BY <3>1 DEF WasWritingFinished
      <4> QED BY <1>1, <4>1
    <3>2. CASE out.numFiles > 0
      BY <1>1, <3>2
    <3> QED BY <2>3, <3>1, <3>2
  <2> QED BY <2>2, <2>4, <2>5
<1>8. Control'
  BY <1>1, <1>2, <1>6 DEF IInv, Control, WasWritingFinished, File, NoFolder
<1> QED BY <1>1, <1>3, <1>7, <1>8

(* FailuresShow for steps that leave failures, blocks and results alone    *)
(* and do not leave the flushing of a folder.                              *)
LEMMA FailuresFrame ==
  ASSUME FailuresShow, UNCHANGED <<db, failures, blocks, results, returned>>, pc # "flush"
  PROVE  FailuresShow'
<1>1. \A k : Shown(k)' <=> Shown(k)
  BY DEF Shown, Asked, FolderOf
<1> QED BY <1>1 DEF FailuresShow

LEMMA RefuseFolderStep ==
  ASSUME IInv, RefuseFolder
  PROVE  IInv'
<1>1. pc = "decode" /\ DecodeReturns("unsupported") /\ UNCHANGED decoder
  BY DEF RefuseFolder
<1>2. Types' /\ FailuresShow' /\ Control' /\ pc' \in {"flush", "returned"}
  BY <1>1, DecodeReturnsStep, TypesParts DEF IInv, Control
<1>3. UNCHANGED <<db, call, i, folder, out, results>> /\ failures \subseteq failures'
  BY <1>1 DEF DecodeReturns
<1>4. MixerRight'
  BY <1>1, <1>2, <1>3 DEF IInv, MixerRight
<1> QED BY <1>2, <1>3, <1>4, Frame DEF IInv

LEMMA KeepMixerStep ==
  ASSUME IInv, KeepMixer
  PROVE  IInv'
<1>1. /\ pc = "decode" /\ pc' = "setup" /\ Bind = decoder.prev
      /\ UNCHANGED <<db, call, i, folder, outcome, finished, decoder, out, results, blocks, failures,
                     returned>>
  BY DEF KeepMixer
<1>2. Types'
  BY <1>1, TypesParts, TypesFrame DEF IInv
<1>3. FailuresShow'
  BY <1>1, FailuresFrame DEF IInv
<1>4. MixerRight'
  BY <1>1 DEF IInv, MixerRight, Bind
<1>5. Control'
  BY <1>1 DEF IInv, Control
<1> QED BY <1>1, <1>2, <1>3, <1>4, <1>5, Frame DEF IInv

LEMMA ReplaceMixerStep ==
  ASSUME IInv, ReplaceMixer
  PROVE  IInv'
<1>1. pc = "decode" /\ Bind # decoder.prev
  BY DEF ReplaceMixer
<1>2. folder \in 1..Len(db.folders) /\ Bind \in BindInfos /\ Bind # NoBind
  BY <1>1, BindIsTyped
<1>3. CASE Bind \in NoCoderBinds
  <2>1. /\ decoder' = [decoder EXCEPT !.mixer = [bind |-> Bind, whole |-> FALSE]]
        /\ DecodeReturns("unsupported")
    BY <1>3 DEF ReplaceMixer
  <2>2. decoder' \in DecoderType /\ decoder'.prev = decoder.prev /\ decoder'.mixer.bind = Bind
    BY <1>2, <2>1, TypesParts DEF IInv, DecoderType
  <2>3. Types' /\ FailuresShow' /\ Control' /\ pc' \in {"flush", "returned"}
    BY <1>1, <2>1, <2>2, DecodeReturnsStep DEF IInv, Control
  <2>4. UNCHANGED <<db, call, i, folder, out, results>> /\ failures' = failures \cup {folder}
    BY <2>1 DEF DecodeReturns
  <2>5. MixerRight'
    BY <1>1, <1>3, <2>2, <2>3, <2>4 DEF MixerRight, Bind
  <2> QED BY <2>3, <2>4, <2>5, Frame DEF IInv
<1>4. CASE Bind \notin NoCoderBinds
  <2>1. /\ decoder' = [mixer |-> [bind |-> Bind, whole |-> TRUE], prev |-> Bind] /\ pc' = "setup"
        /\ UNCHANGED <<db, call, i, folder, outcome, finished, out, results, blocks, failures,
                       returned>>
    BY <1>4 DEF ReplaceMixer
  <2>2. decoder' \in DecoderType
    BY <1>2, <2>1 DEF DecoderType
  <2>3. Types'
    BY <2>1, <2>2, TypesParts, TypesFrame DEF IInv
  <2>4. FailuresShow'
    BY <1>1, <2>1, FailuresFrame DEF IInv
  <2>5. MixerRight'
    BY <2>1 DEF MixerRight, Bind
  <2>6. Control'
    BY <1>1, <2>1 DEF IInv, Control
  <2> QED BY <2>1, <2>3, <2>4, <2>5, <2>6, Frame DEF IInv
<1> QED BY <1>3, <1>4

LEMMA SetUpCodersStep ==
  ASSUME IInv, SetUpCoders
  PROVE  IInv'
<1>1. pc = "setup" /\ UNCHANGED decoder /\ ~out.open
  BY DEF SetUpCoders, IInv, Control
<1>2. CASE /\ pc' = "code"
           /\ UNCHANGED <<db, call, i, folder, outcome, finished, out, results, blocks, failures,
                          returned>>
  <2>1. Types'
    BY <1>1, <1>2, TypesParts, TypesFrame DEF IInv
  <2>2. FailuresShow'
    BY <1>1, <1>2, FailuresFrame DEF IInv
  <2>3. MixerRight' /\ Control'
    BY <1>1, <1>2 DEF IInv, MixerRight, Control, Bind
  <2> QED BY <1>2, <2>1, <2>2, <2>3, Frame DEF IInv
<1>3. ASSUME NEW r \in {"unsupported", "error"}, DecodeReturns(r) PROVE IInv'
  <2>1. Types' /\ FailuresShow' /\ Control' /\ pc' \in {"flush", "returned"}
    BY <1>1, <1>3, DecodeReturnsStep, TypesParts DEF IInv
  <2>2. UNCHANGED <<db, call, i, folder, out, results>> /\ failures \subseteq failures'
    BY <1>3 DEF DecodeReturns
  <2>3. MixerRight'
    BY <1>1, <2>1, <2>2 DEF IInv, MixerRight
  <2> QED BY <2>1, <2>2, <2>3, Frame DEF IInv
<1>4. CASE /\ Return("crashed")
           /\ UNCHANGED <<db, call, i, folder, outcome, finished, out, results, blocks, failures>>
  <2>1. Types'
    BY <1>1, <1>4, TypesParts, TypesFrame DEF IInv, Return
  <2> QED BY <1>1, <1>4, <2>1, ErrorReturned, Frame DEF IInv, Return
<1> QED BY <1>1, <1>2, <1>3, <1>4 DEF SetUpCoders

LEMMA CodeEndsStep ==
  ASSUME IInv, CodeEnds
  PROVE  IInv'
<1>1. /\ pc = "code" /\ UNCHANGED decoder
      /\ out.open => out.rem \in 1..(File(out.fileIndex).size - 1)
  BY DEF CodeEnds
<1>2. PICK r \in {"done", "dataError", "unsupported", "exception", "error"} : DecodeReturns(r)
  BY DEF CodeEnds
<1>3. out.open => out.rem < File(out.fileIndex).size
  <2> SUFFICES ASSUME out.open PROVE out.rem < File(out.fileIndex).size
    OBVIOUS
  <2>1. File(out.fileIndex).size \in Nat
    BY FilesLeft, TypeFacts DEF IInv, OpenRight
  <2> QED BY <1>1, <2>1
<1>4. Types' /\ FailuresShow' /\ Control' /\ pc' \in {"flush", "returned"}
  BY <1>1, <1>2, <1>3, DecodeReturnsStep, TypesParts DEF IInv
<1>5. UNCHANGED <<db, call, i, folder, out, results>> /\ failures \subseteq failures'
  BY <1>2 DEF DecodeReturns
<1>6. MixerRight'
  BY <1>1, <1>4, <1>5 DEF IInv, MixerRight
<1> QED BY <1>4, <1>5, <1>6, Frame DEF IInv

(* A file without folder is empty, so that Init delivers it.               *)
LEMMA InitializedStep ==
  ASSUME IInv, Initialized
  PROVE  IInv'
<1>1. /\ pc = "init" /\ ~out.open /\ ~AtEmptyFile
      /\ pc' = IF WasWritingFinished THEN "next" ELSE "decode"
      /\ UNCHANGED <<db, call, i, folder, outcome, finished, decoder, out, results, blocks, failures,
                     returned>>
  BY DEF Initialized
<1>2. pc' = "decode" => folder # NoFolder
  <2> SUFFICES ASSUME pc' = "decode", folder = NoFolder PROVE FALSE
    OBVIOUS
  <2>1. out.numFiles # 0 /\ out.numFiles > 0
    BY <1>1, TypeFacts DEF WasWritingFinished, IInv
  <2>2. out.fileIndex \in 1..Len(db.files) /\ out.fileIndex = NextFileIndex
    BY <2>1, FilesLeft DEF IInv, Ahead
  <2>3. FolderOf(out.fileIndex) = NoFolder
    BY <2>1, <2>2, FilesLeft DEF IInv
  <2>4. File(out.fileIndex).size = 0
    BY <2>2, <2>3, TypeFacts, ArchiveFacts DEF AsRead, File, FolderOf, IInv
  <2> QED BY <1>1, <2>1, <2>4 DEF AtEmptyFile
<1>3. Types'
  BY <1>1, TypesParts, TypesFrame DEF IInv
<1>4. FailuresShow'
  BY <1>1, FailuresFrame DEF IInv
<1>5. MixerRight'
  BY <1>1 DEF IInv, MixerRight
<1>6. Control'
  BY <1>1, <1>2 DEF IInv, Control, WasWritingFinished
<1> QED BY <1>1, <1>3, <1>4, <1>5, <1>6, Frame DEF IInv

LEMMA FlushedStep ==
  ASSUME IInv, Flushed
  PROVE  IInv'
<1> DEFINE report == finished /\ outcome \in Failed
<1>1. /\ pc = "flush" /\ out.numFiles = 0 /\ returned = "no"
      /\ blocks' = IF report THEN blocks \cup {folder} ELSE blocks
      /\ UNCHANGED <<db, call, i, folder, outcome, finished, decoder, out, results, failures>>
  BY DEF Flushed, WasWritingFinished, Failed, IInv, Control
<1>2. \/ pc' = "next" /\ UNCHANGED returned
      \/ pc' = "returned" /\ returned' = "error"
  BY DEF Flushed, Return
<1>3. folder \in 1..Len(db.folders)
  BY <1>1, BindIsTyped
<1>4. Types'
  BY <1>1, <1>2, <1>3, TypesParts, TypesFrame DEF IInv
<1>5. CASE pc' = "returned" /\ returned' = "error"
  BY <1>1, <1>4, <1>5, ErrorReturned, Frame DEF IInv
<1>6. CASE pc' = "next" /\ UNCHANGED returned
  <2>1. \A k : Shown(k)' <=> Shown(k)
    BY <1>1 DEF Shown, Asked, FolderOf
  <2>2. \A k \in failures \ blocks : Shown(k) \/ (k = folder /\ report)
    BY <1>1 DEF IInv, FailuresShow
  <2>3. FailuresShow'
    BY <1>1, <2>1, <2>2 DEF FailuresShow
  <2>4. ~out.open
    BY <1>1 DEF IInv, OpenRight
  <2>5. MixerRight' /\ Control'
    BY <1>1, <1>6, <2>4 DEF IInv, MixerRight, Control
  <2> QED BY <1>1, <1>4, <2>3, <2>5, Frame DEF IInv
<1> QED BY <1>2, <1>5, <1>6

-----------------------------------------------------------------------------
(* The streams of files.                                                   *)

(* A step that moves neither counter of CFolderOutStream, in words of its  *)
(* fields.                                                                 *)
LEMMA SameFile ==
  ASSUME IInv, UNCHANGED <<db, call, i, folder, results>>,
         out'.fileIndex = out.fileIndex, out'.numFiles = out.numFiles
  PROVE  Request' /\ Ahead' /\ AskedRight' /\ Truthful' /\ NextFileIndex' = NextFileIndex
<1>1. Request'
  BY DEF IInv, Request
<1>2. Ahead'
  BY DEF IInv, Ahead, FolderOf
<1>3. AskedRight'
  BY DEF IInv, AskedRight, Asked
<1>4. Truthful'
  BY DEF IInv, Truthful, File
<1>5. NextFileIndex' = NextFileIndex
  BY DEF NextFileIndex
<1> QED BY <1>1, <1>2, <1>3, <1>4, <1>5

LEMMA StreamTypes ==
  ASSUME Types, UNCHANGED <<db, call, i, folder, outcome, finished, decoder, blocks, failures>>,
         pc' \in {"next", "init", "decode", "setup", "code", "flush", "returned"},
         returned' \in {"no", "ok", "error", "crashed"},
         out' \in OutType, results' \in Seq(ResultType)
  PROVE  Types'
BY DEF Types, TypeOK, ResultType, OutType

(* What an error leaves of a step that changes the stream.                 *)
LEMMA StreamError ==
  ASSUME IInv, UNCHANGED <<db, call, i, folder, outcome, finished, decoder, out, results, blocks,
                           failures>>,
         Return("error")
  PROVE  IInv'
<1>1. pc' = "returned" /\ returned' = "error"
  BY DEF Return
<1>2. Types'
  BY <1>1, TypesParts, TypesFrame DEF IInv
<1> QED BY <1>1, <1>2, ErrorReturned, Frame DEF IInv

LEMMA OpenFileStep ==
  ASSUME IInv, NEW b \in BOOLEAN, pc \in {"init", "code", "flush"}, b = (pc = "flush"),
         ~out.open, out.numFiles # 0, OpenFile(b)
  PROVE  IInv'
<1>1. UNCHANGED <<db, call, i, folder, outcome, finished, decoder, results, blocks, failures>>
  BY DEF OpenFile
<1>2. CASE Return("error") /\ UNCHANGED out
  BY <1>1, <1>2, StreamError
<1>3. ASSUME NEW granted \in IF AskMode(b) = "extract" THEN BOOLEAN ELSE {FALSE},
             NEW right \in IF /\ File(out.fileIndex).size = 0
                              /\ File(out.fileIndex).hasStream THEN BOOLEAN ELSE {TRUE},
             out' = [out EXCEPT !.open = TRUE, !.mode = AskMode(b),
                                !.rem = File(out.fileIndex).size,
                                !.hasStream = granted, !.right = right],
             UNCHANGED <<pc, returned>>
      PROVE  IInv'
  <2>1. out.numFiles > 0 /\ out.fileIndex \in 1..Len(db.files) /\ File(out.fileIndex).size \in Nat
    <3>1. out.numFiles > 0
      BY TypeFacts DEF IInv
    <3> QED BY <3>1, FilesLeft, TypeFacts DEF IInv
  <2>2. PICK m \in {"extract", "test", "skip"} : m = AskMode(b)
    BY DEF AskMode
  <2>3. PICK size \in Nat : size = File(out.fileIndex).size
    BY <2>1
  <2>4. granted \in BOOLEAN /\ right \in BOOLEAN
    OBVIOUS
  <2>5. out' = [out EXCEPT !.open = TRUE, !.mode = m, !.rem = size, !.hasStream = granted,
                           !.right = right]
    BY <1>3, <2>2, <2>3
  <2>6. /\ out' \in OutType /\ out'.fileIndex = out.fileIndex /\ out'.numFiles = out.numFiles
        /\ out'.open = TRUE /\ out'.mode = m /\ out'.rem = size /\ out'.hasStream = granted
        /\ out'.right = right
    BY <1>1, <2>4, <2>5, TypeFacts DEF OutType, IInv
  <2>7. Types'
    BY <1>1, <1>3, <2>6, TypesParts, StreamTypes DEF IInv, Types
  <2>8. Request' /\ Ahead' /\ AskedRight' /\ Truthful' /\ NextFileIndex' = NextFileIndex
    BY <1>1, <2>6, SameFile
  <2>9. m = "skip" <=> out.fileIndex # NextFileIndex
    BY <2>2 DEF AskMode
  <2>10. ~right => File(out.fileIndex).hasStream
    OBVIOUS
  <2>11. OpenRight'
    BY <1>1, <2>1, <2>3, <2>6, <2>8, <2>9, <2>10 DEF OpenRight, File
  <2>12. \A k : Shown(k)' <=> Shown(k)
    BY <1>1 DEF Shown, Asked, FolderOf
  <2>13. FailuresShow'
    BY <1>1, <1>3, <2>6, <2>12 DEF IInv, FailuresShow
  <2>14. MixerRight'
    BY <1>1, <1>3 DEF IInv, MixerRight, Bind
  <2>15. pc = "flush" /\ granted => File(out.fileIndex).isDir
    BY DEF AskMode
  <2>16. Control'
    BY <1>1, <1>3, <2>6, <2>15 DEF IInv, Control, File
  <2> QED BY <2>7, <2>8, <2>11, <2>13, <2>14, <2>16 DEF IInv
<1> QED BY <1>2, <1>3 DEF OpenFile

LEMMA OpenSteps ==
  ASSUME IInv, OpenEmptyFile \/ OpenNextFile \/ FlushOpen
  PROVE  IInv'
<1>1. CASE OpenEmptyFile
  BY <1>1, OpenFileStep DEF OpenEmptyFile, AtEmptyFile
<1>2. CASE OpenNextFile
  BY <1>2, OpenFileStep DEF OpenNextFile, WasWritingFinished
<1>3. CASE FlushOpen
  BY <1>3, OpenFileStep DEF FlushOpen, WasWritingFinished
<1> QED BY <1>1, <1>2, <1>3

LEMMA WriteBytesStep ==
  ASSUME IInv, WriteBytes
  PROVE  IInv'
<1>1. /\ pc = "code" /\ out.open /\ out.rem > 0
      /\ UNCHANGED <<db, call, i, folder, outcome, finished, decoder, results, blocks, failures>>
  BY DEF WriteBytes
<1>2. CASE Return("error") /\ UNCHANGED out
  BY <1>1, <1>2, StreamError
<1>3. ASSUME NEW cur \in 1..out.rem, NEW right \in BOOLEAN,
             out' = [out EXCEPT !.rem = out.rem - cur, !.right = out.right /\ right],
             UNCHANGED <<pc, returned>>
      PROVE  IInv'
  <2>1. out.rem \in Nat /\ out.right \in BOOLEAN
    BY TypeFacts DEF IInv, OutType
  <2>2. PICK rest \in Nat : rest = out.rem - cur /\ rest <= out.rem
    BY <2>1
  <2>3. PICK all \in BOOLEAN : all = (out.right /\ right)
    BY <2>1
  <2>4. out' = [out EXCEPT !.rem = rest, !.right = all]
    BY <1>3, <2>2, <2>3
  <2>5. /\ out' \in OutType /\ out'.fileIndex = out.fileIndex /\ out'.numFiles = out.numFiles
        /\ out'.open = out.open /\ out'.mode = out.mode /\ out'.rem = rest
        /\ out'.hasStream = out.hasStream /\ out'.right = all
    BY <1>1, <2>4, TypeFacts DEF OutType, IInv
  <2>6. Types'
    BY <1>1, <1>3, <2>5, TypesParts, StreamTypes DEF IInv, Types
  <2>7. Request' /\ Ahead' /\ AskedRight' /\ Truthful' /\ NextFileIndex' = NextFileIndex
    BY <1>1, <2>5, SameFile
  <2>8. /\ out.fileIndex \in 1..Len(db.files) /\ File(out.fileIndex).size \in Nat
        /\ out.rem <= File(out.fileIndex).size
    BY <1>1, FilesLeft, TypeFacts DEF IInv, OpenRight
  <2>9. File(out.fileIndex).hasStream
    <3>1. File(out.fileIndex).size # 0
      BY <1>1, <2>1, <2>8
    <3> QED BY <2>8, <3>1, TypeFacts, ArchiveFacts DEF AsRead, File, IInv
  <2>10. rest <= File(out.fileIndex).size
    BY <2>1, <2>2, <2>8
  <2>11. OpenRight'
    BY <1>1, <2>5, <2>7, <2>9, <2>10 DEF IInv, OpenRight, File
  <2>12. FailuresShow'
    BY <1>1, <1>3, FailuresFrame DEF IInv
  <2>13. MixerRight' /\ Control'
    BY <1>1, <1>3, <2>5 DEF IInv, MixerRight, Control, Bind
  <2> QED BY <2>6, <2>7, <2>11, <2>12, <2>13 DEF IInv
<1> QED BY <1>2, <1>3 DEF WriteBytes

-----------------------------------------------------------------------------
(* The end of a file.                                                      *)

LEMMA AskedAppend ==
  ASSUME Types, NEW r \in ResultType, results' = Append(results, r)
  PROVE  /\ results' \in Seq(ResultType) /\ Len(results) \in Nat
         /\ IsFiniteSet(Asked) /\ Asked \subseteq 1..Len(results)
         /\ DOMAIN results = 1..Len(results) /\ DOMAIN results' = 1..(Len(results) + 1)
         /\ results'[Len(results) + 1] = r
         /\ \A m \in 1..Len(results) : results'[m] = results[m]
         /\ Asked' = IF r.mode # "skip" THEN Asked \cup {Len(results) + 1} ELSE Asked
<1>1. results \in Seq(ResultType) /\ Len(results) \in Nat /\ DOMAIN results = 1..Len(results)
  BY DEF Types
<1>2. /\ results' \in Seq(ResultType) /\ Len(results') = Len(results) + 1
      /\ results'[Len(results) + 1] = r /\ \A m \in 1..Len(results) : results'[m] = results[m]
  BY <1>1
<1>3. DOMAIN results' = 1..(Len(results) + 1)
  BY <1>2
<1>4. IsFiniteSet(1..Len(results)) /\ Asked \subseteq 1..Len(results)
  BY <1>1, FS_Interval DEF Asked
<1>5. IsFiniteSet(Asked)
  BY <1>4, FS_Subset
<1>6. Asked' = IF r.mode # "skip" THEN Asked \cup {Len(results) + 1} ELSE Asked
  <2>1. Asked' = {m \in 1..(Len(results) + 1) : results'[m].mode # "skip"}
    BY <1>3 DEF Asked
  <2>2. Asked = {m \in 1..Len(results) : results[m].mode # "skip"}
    BY <1>1 DEF Asked
  <2>3. 1..(Len(results) + 1) = 1..Len(results) \cup {Len(results) + 1}
    BY <1>1
  <2> QED BY <1>2, <2>1, <2>2, <2>3
<1> QED BY <1>1, <1>2, <1>3, <1>4, <1>5, <1>6

(* The result of a file: positions of earlier ones stay.                   *)
LEMMA AskedStep ==
  ASSUME Types, AskedRight, UNCHANGED <<call, i>>, NEW r \in ResultType,
         results' = Append(results, r), out.numFiles > 0, out.numFiles < i,
         IF r.mode # "skip"
         THEN /\ r.file = call.indices[i - out.numFiles] /\ out'.numFiles = out.numFiles - 1
         ELSE out'.numFiles = out.numFiles
  PROVE  AskedRight'
<1> DEFINE n == Len(results) + 1
           Upto(m) == {x \in Asked : x <= m}
<1>1. /\ n \in Nat /\ IsFiniteSet(Asked) /\ Asked \subseteq 1..(n - 1)
      /\ results'[n] = r /\ \A m \in Asked : results'[m] = results[m]
      /\ Asked' = IF r.mode # "skip" THEN Asked \cup {n} ELSE Asked
  BY AskedAppend
<1>2. Cardinality(Asked) = i - 1 - out.numFiles /\ Cardinality(Asked) \in Nat
  BY <1>1, FS_CardinalityType DEF AskedRight
<1>3. i \in Nat /\ out.numFiles \in Nat
  BY TypeFacts
<1>4. \A m \in Asked : results[m].file = call.indices[Cardinality(Upto(m))]
  BY DEF AskedRight
<1> HIDE DEF n
<1>5. CASE r.mode = "skip"
  <2>1. Asked' = Asked /\ out'.numFiles = out.numFiles
    BY <1>1, <1>5
  <2>2. \A m \in Asked' : results'[m].file = call'.indices[Cardinality({x \in Asked' : x <= m})]
    BY <1>1, <1>4, <2>1
  <2> QED BY <1>2, <2>1, <2>2 DEF AskedRight
<1>6. CASE r.mode # "skip"
  <2>1. Asked' = Asked \cup {n} /\ out'.numFiles = out.numFiles - 1 /\ n \notin Asked
    BY <1>1, <1>6
  <2>2. Cardinality(Asked') = Cardinality(Asked) + 1
    BY <1>1, <2>1, FS_AddElement
  <2>3. \A m \in Asked : {x \in Asked' : x <= m} = Upto(m)
    BY <1>1, <2>1
  <2>4. {x \in Asked' : x <= n} = Asked'
    <3>1. \A x \in Asked' : x <= n
      BY <1>1, <2>1
    <3> QED BY <3>1
  <2>5. ASSUME NEW m \in Asked'
        PROVE  results'[m].file = call'.indices[Cardinality({x \in Asked' : x <= m})]
    <3>1. CASE m \in Asked
      BY <1>1, <1>4, <2>3, <3>1
    <3>2. CASE m = n
      <4>1. Cardinality(Asked') = i - out.numFiles
        BY <1>2, <1>3, <2>2
      <4> QED BY <1>1, <1>6, <2>4, <3>2, <4>1
    <3> QED BY <2>1, <3>1, <3>2
  <2>6. Cardinality(Asked') = i' - 1 - out'.numFiles
    BY <1>2, <1>3, <2>1, <2>2
  <2> QED BY <2>5, <2>6 DEF AskedRight
<1> QED BY <1>5, <1>6

LEMMA ShownStays ==
  ASSUME Types, UNCHANGED db, NEW r \in ResultType, results' = Append(results, r), NEW k
  PROVE  /\ Shown(k) => Shown(k)'
         /\ r.mode # "skip" /\ r.result # "ok" /\ FolderOf(r.file) = k => Shown(k)'
<1> DEFINE n == Len(results) + 1
<1>1. /\ n \notin Asked /\ results'[n] = r /\ \A m \in Asked : results'[m] = results[m]
      /\ Asked' = IF r.mode # "skip" THEN Asked \cup {n} ELSE Asked
  BY AskedAppend
<1> HIDE DEF n
<1>2. \A f : FolderOf(f)' = FolderOf(f)
  BY DEF FolderOf
<1>3. Shown(k) => Shown(k)'
  <2> SUFFICES ASSUME NEW m \in Asked, FolderOf(results[m].file) = k, results[m].result # "ok"
               PROVE  Shown(k)'
    BY DEF Shown
  <2>1. m \in Asked' /\ results'[m] = results[m]
    BY <1>1
  <2>2. LinkedFolder(db', results'[m].file) = k
    BY <2>1 DEF FolderOf
  <2> QED BY <2>1, <2>2 DEF Shown, FolderOf
<1>4. ASSUME r.mode # "skip", r.result # "ok", FolderOf(r.file) = k PROVE Shown(k)'
  <2>1. n \in Asked' /\ results'[n] = r
    BY <1>1, <1>4
  <2>2. LinkedFolder(db', results'[n].file) = k
    BY <1>4, <2>1 DEF FolderOf
  <2> QED BY <1>4, <2>1, <2>2 DEF Shown, FolderOf
<1> QED BY <1>3, <1>4

LEMMA CloseStep ==
  ASSUME IInv, pc \in {"init", "code", "flush"}, out.open,
         NEW res \in {"ok", "crc", "dataError", "unsupported"}, Close(res, pc),
         \/ pc = "flush" /\ res \in Failed
         \/ /\ pc # "flush" /\ out.rem = 0
            /\ res = IF CalcCrc /\ ~out.right THEN "crc" ELSE "ok"
  PROVE  IInv'
<1> DEFINE f == out.fileIndex
           asked == NextFileIndex = f
<1>1. /\ UNCHANGED <<db, call, i, folder, outcome, finished, decoder, blocks, failures>>
      /\ \/ pc' = pc /\ UNCHANGED returned
         \/ pc' = "returned" /\ returned' = "error"
  BY DEF Close, Return
<1>2. /\ Types /\ Ahead /\ out.numFiles > 0 /\ out.numFiles < i /\ i \in Nat /\ out.numFiles \in Nat
      /\ f \in 1..Len(db.files) /\ f <= NextFileIndex /\ FolderOf(NextFileIndex) = folder
      /\ NextFileIndex = call.indices[i - out.numFiles] /\ NextFileIndex \in 1..Len(db.files)
      /\ out.open \in BOOLEAN /\ out.right \in BOOLEAN /\ out.rem \in Nat
      /\ out.mode \in {"extract", "test", "skip"} /\ (out.mode = "skip" <=> ~asked)
  <2>1. Types /\ Ahead /\ out.numFiles > 0 /\ out.numFiles < i
    BY DEF IInv, Ahead, OpenRight
  <2>2. i \in Nat /\ out.numFiles \in Nat /\ out \in OutType
    BY <2>1, TypeFacts
  <2>3. /\ f \in 1..Len(db.files) /\ f <= NextFileIndex /\ FolderOf(NextFileIndex) = folder
        /\ NextFileIndex = call.indices[i - out.numFiles] /\ NextFileIndex \in 1..Len(db.files)
    BY <2>1, FilesLeft
  <2>4. /\ out.open \in BOOLEAN /\ out.right \in BOOLEAN /\ out.rem \in Nat
        /\ out.mode \in {"extract", "test", "skip"}
    BY <2>2 DEF OutType
  <2>5. out.mode = "skip" <=> ~asked
    BY DEF IInv, OpenRight
  <2> QED BY <2>1, <2>2, <2>3, <2>4, <2>5
<1> HIDE DEF f
<1>3. PICK intact \in BOOLEAN : intact = (out.right /\ out.rem = 0)
  OBVIOUS
<1>4. PICK r \in ResultType : r.file = f /\ r.mode = out.mode /\ r.result = res /\ r.intact = intact
                              /\ results' = Append(results, r)
  <2>1. [file |-> f, mode |-> out.mode, result |-> res, intact |-> intact] \in ResultType
    BY <1>2 DEF ResultType
  <2>2. results' = Append(results, [file |-> f, mode |-> out.mode, result |-> res, intact |-> intact])
    BY <1>3 DEF Close, CloseFile_and_SetResult, f
  <2> QED BY <2>1, <2>2
<1>5. PICK n \in Nat : n = IF asked THEN out.numFiles - 1 ELSE out.numFiles
  BY <1>2
<1>6. out' = [out EXCEPT !.open = FALSE, !.fileIndex = f + 1, !.numFiles = n]
  BY <1>5 DEF Close, CloseFile_and_SetResult, f
<1>7. f + 1 \in 1..(Len(db.files) + 1) /\ n \in 0..Len(call.indices)
  <2>1. /\ Len(db.files) \in Nat /\ Len(call.indices) \in Nat
        /\ out.numFiles \in 0..Len(call.indices)
    BY <1>2, TypeFacts
  <2>2. f + 1 \in 1..(Len(db.files) + 1)
    BY <1>2, <2>1
  <2>3. n <= out.numFiles
    BY <1>2, <1>5
  <2>4. n \in 0..Len(call.indices)
    BY <2>1, <2>3
  <2> QED BY <2>2, <2>4
<1>8. /\ out' \in OutType /\ out'.open = FALSE /\ out'.fileIndex = f + 1 /\ out'.numFiles = n
  <2>1. out \in OutType
    BY <1>2, TypeFacts
  <2>2. PICK g \in 1..(Len(db.files) + 1) : g = f + 1
    BY <1>7
  <2>3. out' = [out EXCEPT !.open = FALSE, !.fileIndex = g, !.numFiles = n]
    BY <1>6, <2>2
  <2>4. out' \in OutType /\ out'.open = FALSE /\ out'.fileIndex = g /\ out'.numFiles = n
    BY <1>1, <1>7, <2>1, <2>3 DEF OutType
  <2> QED BY <2>2, <2>4
<1>9. Types'
  <2>1. results' \in Seq(ResultType)
    BY <1>2, <1>4, AskedAppend
  <2> QED BY <1>1, <1>2, <1>8, <2>1, TypesParts, StreamTypes
<1>10. Request'
  BY <1>1 DEF IInv, Request
<1>11. AskedRight'
  <2>1. CASE asked
    BY <1>1, <1>2, <1>4, <1>5, <1>8, <2>1, AskedStep DEF IInv
  <2>2. CASE ~asked
    BY <1>1, <1>2, <1>4, <1>5, <1>8, <2>2, AskedStep DEF IInv
  <2> QED BY <2>1, <2>2
<1>12. Truthful'
  <2>1. /\ DOMAIN results = 1..Len(results) /\ DOMAIN results' = 1..(Len(results) + 1)
        /\ results'[Len(results) + 1] = r /\ Len(results) \in Nat
        /\ \A m \in 1..Len(results) : results'[m] = results[m]
    BY <1>2, <1>4, AskedAppend
  <2>2. /\ r.result = "ok" => r.intact \/ ~File(r.file).crcDefined
        /\ r.result = "crc" => ~r.intact
    <3>1. CASE pc = "flush"
      BY <1>4, <3>1 DEF Failed
    <3>2. CASE pc # "flush"
      <4>1. out.rem = 0 /\ res = IF CalcCrc /\ ~out.right THEN "crc" ELSE "ok"
        BY <3>2
      <4>2. ~out.right => File(f).hasStream /\ ~File(f).isDir
        <5>1. ~out.right => File(f).hasStream
          BY DEF IInv, OpenRight, f
        <5>2. File(f).hasStream => ~File(f).isDir
          BY <1>2, TypeFacts, ArchiveFacts DEF AsRead, File
        <5> QED BY <5>1, <5>2
      <4>3. CalcCrc <=> File(f).crcDefined /\ ~File(f).isDir
        BY DEF CalcCrc, f
      <4> QED BY <1>3, <1>4, <4>1, <4>2, <4>3
    <3> QED BY <3>1, <3>2
  <2>3. ASSUME NEW m \in DOMAIN results'
        PROVE  /\ results'[m].result = "ok" => results'[m].intact \/ ~File(results'[m].file).crcDefined
               /\ results'[m].result = "crc" => ~results'[m].intact
    <3>1. CASE m = Len(results) + 1
      BY <2>1, <2>2, <3>1
    <3>2. CASE m # Len(results) + 1
      BY <2>1, <3>2 DEF IInv, Truthful
    <3> QED BY <3>1, <3>2
  <2> QED BY <1>1, <2>3 DEF Truthful, File
<1>13. Ahead'
  <2>1. n < i
    BY <1>2, <1>5
  <2>2. ASSUME n > 0
        PROVE  /\ f + 1 <= call.indices[i - n]
               /\ call.all => f + 1 = call.indices[i - n]
               /\ \A m \in (i - n)..(i - 1) : FolderOf(call.indices[m]) = folder
               /\ folder # NoFolder
    <3>0. i - n \in 1..Len(call.indices) /\ Len(call.indices) \in Nat /\ i - out.numFiles \in 1..Len(call.indices)
      <4>1. i - out.numFiles \in 1..Len(call.indices) /\ Len(call.indices) \in Nat
        BY <1>2, TypeFacts, FilesLeft
      <4>2. i <= Len(call.indices) + 1
        BY <1>2, TypeFacts
      <4>3. n = out.numFiles \/ n = out.numFiles - 1
        BY <1>5
      <4> QED BY <1>2, <2>2, <4>1, <4>2, <4>3
    <3>1. \A m \in (i - n)..(i - 1) : FolderOf(call.indices[m]) = folder
      BY <1>2, <1>5 DEF Ahead
    <3>2. CASE asked
      <4>1. n = out.numFiles - 1 /\ out.numFiles # 1 /\ i - n = i - out.numFiles + 1
        BY <1>2, <1>5, <2>2, <3>2
      <4>2. call.indices[i - out.numFiles] < call.indices[i - n]
        BY <3>0, <4>1, <1>2, SMTT(30) DEF IInv, Request
      <4>3. call.indices[i - n] \in Nat
        <5>1. call.indices[i - n] \in 1..Len(db.files) /\ Len(db.files) \in Nat
          BY <3>0, <1>2, TypeFacts
        <5> QED BY <5>1
      <4>4. f + 1 <= call.indices[i - n]
        BY <1>2, <3>2, <4>2, <4>3
      <4>5. call.all => f + 1 = call.indices[i - n]
        BY <1>2, <3>0, <3>2, <4>1 DEF IInv, Request
      <4> QED BY <1>2, <3>1, <4>1, <4>4, <4>5 DEF Ahead
    <3>3. CASE ~asked
      <4>1. n = out.numFiles /\ f + 1 <= NextFileIndex
        BY <1>2, <1>5, <3>3
      <4>2. ~call.all /\ folder # NoFolder
        BY <1>2, <3>3 DEF Ahead, f
      <4> QED BY <1>2, <3>1, <4>1, <4>2
    <3> QED BY <3>2, <3>3
  <2>3. call.all /\ 1 < i /\ i <= Len(call.indices) =>
       FolderOf(call.indices[i]) = NoFolder \/ FolderOf(call.indices[i - 1]) # FolderOf(call.indices[i])
    BY <1>2 DEF Ahead
  <2> QED BY <1>1, <1>8, <2>1, <2>2, <2>3 DEF Ahead, FolderOf
<1>14. OpenRight'
  BY <1>8 DEF OpenRight
<1>15. CASE pc' = "returned" /\ returned' = "error"
  BY <1>1, <1>9, <1>10, <1>11, <1>12, <1>13, <1>14, <1>15, ErrorReturned DEF IInv
<1>16. CASE pc' = pc /\ UNCHANGED returned
  <2>1. FailuresShow'
    <3>1. \A k : Shown(k) => Shown(k)'
      BY <1>1, <1>2, <1>4, ShownStays
    <3>2. pc = "flush" => Shown(folder)' \/ n = out.numFiles
      <4> SUFFICES ASSUME pc = "flush", asked PROVE Shown(folder)'
        BY <1>5
      <4>1. r.mode # "skip" /\ r.result # "ok" /\ FolderOf(r.file) = folder
        BY <1>2, <1>4 DEF Failed
      <4> QED BY <1>1, <1>2, <1>4, <4>1, ShownStays
    <3> SUFFICES ASSUME NEW k \in failures \ blocks, ~Shown(k)', returned \in {"no", "ok"}
                 PROVE  /\ pc = "flush" /\ k = folder /\ outcome \in Failed
                        /\ finished \/ n > 0
      BY <1>1, <1>8, <1>16 DEF FailuresShow
    <3>3. pc = "flush" /\ k = folder /\ outcome \in Failed /\ (finished \/ out.numFiles > 0)
      BY <3>1 DEF IInv, FailuresShow
    <3>4. n = out.numFiles
      BY <1>1, <3>2, <3>3
    <3> QED BY <3>3, <3>4
  <2>2. MixerRight'
    BY <1>1, <1>16 DEF IInv, MixerRight, Bind
  <2>3. Control'
    <3>1. pc = "flush" /\ finished => FALSE
      BY <1>2 DEF IInv, Control
    <3>2. returned = "no"
      BY DEF IInv, Control
    <3> QED BY <1>1, <1>8, <1>16, <3>1, <3>2 DEF IInv, Control
  <2> QED BY <1>9, <1>10, <1>11, <1>12, <1>13, <1>14, <2>1, <2>2, <2>3 DEF IInv
<1> QED BY <1>1, <1>15, <1>16

LEMMA CloseSteps ==
  ASSUME IInv, CloseEmptyFile \/ FlushClose
  PROVE  IInv'
<1>1. CASE CloseEmptyFile
  BY <1>1, CloseStep DEF CloseEmptyFile, CloseFile
<1>2. CASE FlushClose
  BY <1>2, CloseStep DEF FlushClose, ResOp, Failed
<1> QED BY <1>1, <1>2

-----------------------------------------------------------------------------
(* The start of a folder.                                                  *)

LEMMA NextFilesStep ==
  ASSUME IInv, NextFiles
  PROVE  IInv'
<1>1. /\ pc = "next" /\ UNCHANGED <<db, call, finished, decoder, results, blocks, failures>>
      /\ out.numFiles = 0 /\ ~out.open /\ returned = "no"
  BY DEF NextFiles, IInv, Control
<1>2. CASE Return("error") /\ UNCHANGED <<i, folder, outcome, out>>
  BY <1>1, <1>2, StreamError
<1>3. CASE i > Len(call.indices) /\ Return("ok") /\ UNCHANGED <<i, folder, outcome, out>>
  <2>1. pc' = "returned" /\ returned' = "ok"
    BY <1>3 DEF Return
  <2>2. Types'
    BY <1>1, <1>3, <2>1, TypesParts, TypesFrame DEF IInv
  <2>3. \A k : Shown(k)' <=> Shown(k)
    BY <1>1 DEF Shown, Asked, FolderOf
  <2>4. FailuresShow'
    BY <1>1, <2>3 DEF IInv, FailuresShow
  <2>5. i = Len(call.indices) + 1
    BY <1>3, TypeFacts, SMTT(30) DEF IInv
  <2>6. MixerRight' /\ Control'
    BY <1>1, <1>3, <2>1, <2>5 DEF IInv, MixerRight, Control
  <2> QED BY <1>1, <1>3, <2>2, <2>4, <2>6, Frame DEF IInv
<1>4. ASSUME i <= Len(call.indices), pc' = "init", outcome' = "none", UNCHANGED returned,
             NEW k, k = FolderOf(call.indices[i]), folder' = k, i' = i + SolidFiles(i),
             out' = [ClosedStream EXCEPT
                       !.fileIndex = IF k = NoFolder THEN call.indices[i] ELSE FolderStart(k),
                       !.numFiles = SolidFiles(i)]
      PROVE  IInv'
  <2>1. /\ i \in 1..Len(call.indices) /\ Len(call.indices) \in Nat /\ Len(db.files) \in Nat
        /\ db \in ArchiveType /\ call.indices \in Seq(1..Len(db.files))
        /\ call.indices[i] \in 1..Len(db.files) /\ k \in 0..Len(db.folders)
        /\ \A n \in 1..Len(call.indices) : call.indices[n] \in 1..Len(db.files)
    <3>1. i \in 1..Len(call.indices)
      BY <1>4, TypeFacts DEF IInv
    <3> QED BY <1>4, <3>1, TypeFacts DEF IInv
  <2>2. PICK n \in Nat :
          /\ n = SolidFiles(i) /\ n \in 1..(Len(call.indices) - i + 1)
          /\ k = NoFolder => n = 1
          /\ \A m \in i..(i + n - 1) : FolderOf(call.indices[m]) = k
          /\ k # NoFolder /\ i + n <= Len(call.indices) =>
               FolderOf(call.indices[i + n]) # k \/ call.indices[i + n] <= call.indices[i + n - 1]
    <3>1. SolidFiles(i) \in 1..(Len(call.indices) - i + 1)
      BY <2>1, SolidFilesAre
    <3>2. SolidFiles(i) \in Nat
      BY <2>1, <3>1
    <3> QED BY <1>4, <2>1, <3>1, <3>2, SolidFilesAre
  <2>20. /\ i \in Nat /\ n \in Nat /\ n > 0 /\ i \in 1..Len(call.indices) /\ Len(call.indices) \in Nat
         /\ i + n - 1 = (i + n) - 1 /\ (i + n) - n = i /\ i + n <= Len(call.indices) + 1
    <3>1. i \in Nat /\ n \in 1..(Len(call.indices) - i + 1)
      BY <2>1, <2>2
    <3> QED BY <2>1, <3>1
  <2>3. PICK f \in 1..Len(db.files) :
          /\ f = IF k = NoFolder THEN call.indices[i] ELSE FolderStart(k)
          /\ f <= call.indices[i]
          /\ k # NoFolder => FolderOf(f) = k /\ \A g \in 1..Len(db.files) : FolderOf(g) = k => f <= g
    <3>1. CASE k = NoFolder
      BY <2>1, <3>1
    <3>2. CASE k # NoFolder
      <4>1. /\ FirstFile(db, k) \in 1..call.indices[i] /\ LinkedFolder(db, FirstFile(db, k)) = k
            /\ \A g \in 1..Len(db.files) : LinkedFolder(db, g) = k => FirstFile(db, k) <= g
        BY <1>4, <2>1, FirstFileIsFirst DEF FolderOf
      <4>2. FirstFile(db, k) \in 1..Len(db.files) /\ FirstFile(db, k) <= call.indices[i]
        BY <2>1, <4>1
      <4> QED BY <3>2, <4>1, <4>2 DEF FolderStart, FolderOf
    <3> QED BY <3>1, <3>2
  <2>4. out' = [ClosedStream EXCEPT !.fileIndex = f, !.numFiles = n]
    BY <1>4, <2>2, <2>3
  <2>5. /\ out'.fileIndex = f /\ out'.numFiles = n /\ out'.open = FALSE /\ out'.hasStream = FALSE
        /\ out' \in OutType /\ i' = i + n
    <3>1. out' = [fileIndex |-> f, numFiles |-> n, open |-> FALSE, mode |-> "skip",
                  hasStream |-> FALSE, rem |-> 0, right |-> TRUE]
      BY <2>4 DEF ClosedStream
    <3>2. f \in 1..(Len(db.files) + 1) /\ n \in 0..Len(call.indices)
      BY <2>1, <2>2, <2>3
    <3>3. out' \in OutType
      BY <3>1, <3>2 DEF OutType
    <3>4. i' = i + n
      BY <1>4, <2>2
    <3>5. out'.fileIndex = f /\ out'.numFiles = n /\ out'.open = FALSE /\ out'.hasStream = FALSE
      BY <3>1
    <3> QED BY <3>3, <3>4, <3>5
  <2>6. i' \in 1..(Len(call.indices) + 1)
    BY <2>1, <2>2, <2>5, SMTT(30)
  <2>7. Types'
    BY <1>1, <1>4, <2>1, <2>5, <2>6 DEF IInv, Types, TypeOK, ResultType, OutType
  <2>8. Request'
    BY <1>1 DEF IInv, Request
  <2>9. AskedRight'
    <3>1. Cardinality(Asked) = (i + n) - 1 - n
      BY <1>1, <2>1, <2>2 DEF IInv, AskedRight
    <3> QED BY <1>1, <2>5, <3>1 DEF IInv, AskedRight, Asked
  <2>10. Truthful'
    BY <1>1 DEF IInv, Truthful, File
  <2>11. OpenRight'
    BY <2>5 DEF OpenRight
  <2>12. call.all => f = call.indices[i]
    <3> SUFFICES ASSUME call.all, k # NoFolder, f < call.indices[i] PROVE FALSE
      BY <2>1, <2>3
    <3>1. call.indices[i] = i /\ Len(call.indices) = Len(db.files)
      BY <2>1 DEF IInv, Request
    <3>2. f < i /\ i - 1 \in 1..Len(call.indices) /\ i > 1
      BY <2>1, <3>1
    <3>3. call.indices[i - 1] = i - 1
      BY <3>2 DEF IInv, Request
    <3>4. FolderOf(i - 1) # k
      BY <1>4, <2>1, <3>1, <3>2, <3>3 DEF IInv, Ahead
    <3>5. FolderOf(i) = k /\ FolderOf(f) = k
      BY <1>4, <2>3, <3>1
    <3>6. CASE f = i - 1
      BY <3>4, <3>5, <3>6
    <3>7. CASE f < i - 1
      <4>1. PICK g \in 1..Len(db.files) : g = i - 1 /\ f < g /\ g < i
        BY <2>1, <3>1, <3>2, <3>7
      <4>2. i \in 1..Len(db.files)
        BY <2>1, <3>1
      <4>3. LinkedFolder(db, g) = LinkedFolder(db, f)
        BY <2>1, <3>5, <4>1, <4>2, FoldersTogether DEF FolderOf
      <4> QED BY <3>4, <3>5, <4>1, <4>3 DEF FolderOf
    <3> QED BY <2>1, <3>2, <3>6, <3>7
  <2>13. call.all /\ i + n <= Len(call.indices) =>
           \/ FolderOf(call.indices[i + n]) = NoFolder
           \/ FolderOf(call.indices[i + n - 1]) # FolderOf(call.indices[i + n])
    <3> SUFFICES ASSUME call.all, i + n <= Len(call.indices),
                        FolderOf(call.indices[i + n]) # NoFolder
                 PROVE  FolderOf(call.indices[i + n - 1]) # FolderOf(call.indices[i + n])
      OBVIOUS
    <3>1. i + n - 1 \in i..(i + n - 1) /\ i + n \in 1..Len(call.indices) /\ i + n - 1 \in 1..Len(call.indices)
      BY <2>20
    <3>2. FolderOf(call.indices[i + n - 1]) = k
      BY <2>2, <3>1
    <3>3. call.indices[i + n - 1] < call.indices[i + n]
      <4>1. i + n - 1 < i + n
        BY <2>1, <2>2
      <4> QED BY <3>1, <4>1 DEF IInv, Request
    <3>4. call.indices[i + n - 1] \in Nat /\ call.indices[i + n] \in Nat
      BY <2>1, <3>1, SMTT(30)
    <3>5. ~(call.indices[i + n] <= call.indices[i + n - 1])
      BY <3>3, <3>4
    <3> QED BY <2>2, <3>2, <3>5
  <2>14. Ahead'
    <3>1. n < i + n /\ (i + n) - n = i /\ n > 0
      BY <2>20
    <3>2. \A m \in i..((i + n) - 1) : FolderOf(call.indices[m]) = k
      BY <2>2, <2>20
    <3>3. k = NoFolder => n = 1 /\ f = call.indices[(i + n) - 1]
      <4> SUFFICES ASSUME k = NoFolder PROVE n = 1 /\ f = call.indices[(i + n) - 1]
        OBVIOUS
      <4>1. n = 1 /\ (i + n) - 1 = i
        BY <2>1, <2>2
      <4> QED BY <2>3, <4>1
    <3>4. PICK j \in Nat : j = i + n
      BY <2>20
    <3>5. i' = j /\ j - n = i /\ n < j /\ i + n - 1 = j - 1
      BY <2>5, <2>20, <3>4
    <3>6. \A m \in (j - n)..(j - 1) : FolderOf(call.indices[m]) = k
      BY <3>2, <3>4, <3>5
    <3>7. /\ f <= call.indices[j - n] /\ (call.all => f = call.indices[j - n])
          /\ k = NoFolder => n = 1 /\ f = call.indices[j - 1]
      BY <2>3, <2>12, <3>3, <3>4, <3>5
    <3>8. call.all /\ j <= Len(call.indices) =>
            FolderOf(call.indices[j]) = NoFolder \/ FolderOf(call.indices[j - 1]) # FolderOf(call.indices[j])
      BY <2>13, <3>4, <3>5
    <3>9. /\ out'.numFiles = n /\ out'.fileIndex = f /\ folder' = k /\ i' = j
          /\ call' = call /\ \A g : FolderOf(g)' = FolderOf(g)
      BY <1>1, <1>4, <2>5, <3>5 DEF FolderOf
    <3>10. /\ f <= call.indices[j - n] /\ (call.all => f = call.indices[j - n])
           /\ \A m \in (j - n)..(j - 1) : LinkedFolder(db, call.indices[m]) = k
           /\ call.all /\ j <= Len(call.indices) =>
                \/ LinkedFolder(db, call.indices[j]) = NoFolder
                \/ LinkedFolder(db, call.indices[j - 1]) # LinkedFolder(db, call.indices[j])
      BY <3>6, <3>7, <3>8 DEF FolderOf
    <3>11. db' = db
      BY <1>1
    <3> QED BY <3>5, <3>7, <3>9, <3>10, <3>11 DEF Ahead, FolderOf
  <2>15. FailuresShow'
    BY <1>1, <1>4, FailuresFrame DEF IInv
  <2>16. MixerRight' /\ Control'
    BY <1>1, <1>4, <2>5 DEF IInv, MixerRight, Control
  <2> QED BY <2>7, <2>8, <2>9, <2>10, <2>11, <2>14, <2>15, <2>16 DEF IInv
<1>5. CASE /\ i <= Len(call.indices)
           /\ LET k == FolderOf(call.indices[i]) IN
              /\ out' = [ClosedStream EXCEPT
                           !.fileIndex = IF k = NoFolder THEN call.indices[i] ELSE FolderStart(k),
                           !.numFiles = SolidFiles(i)]
              /\ i' = i + SolidFiles(i) /\ folder' = k
           /\ pc' = "init" /\ outcome' = "none"
           /\ UNCHANGED returned
  BY <1>4, <1>5
<1> QED BY <1>2, <1>3, <1>5 DEF NextFiles

-----------------------------------------------------------------------------
(* Extraction.                                                             *)

LEMMA CountUpTo ==
  \A n \in Nat : Cardinality(1..n) = n
BY FS_Interval

LEMMA Initial ==
  Init => IInv
<1> SUFFICES ASSUME Init PROVE IInv
  OBVIOUS
<1>1. /\ db \in Archives /\ pc = "next" /\ i = 1 /\ folder = NoFolder /\ outcome = "none"
      /\ finished = FALSE /\ decoder = [mixer |-> NoMixer, prev |-> NoBind]
      /\ out = ClosedStream /\ results = <<>> /\ blocks = {} /\ failures = {} /\ returned = "no"
  BY DEF Init
<1>2. db \in ArchiveType /\ Len(db.files) \in Nat /\ Len(db.folders) \in Nat
  BY <1>1, ConstantsAssumption, ArchiveFacts
<1>3. PICK S \in SUBSET (1..Len(db.files)), all \in BOOLEAN, test \in BOOLEAN :
        /\ all => S = 1..Len(db.files)
        /\ call = [indices |-> Sorted(S), all |-> all, test |-> test]
  BY DEF Init
<1>20. PICK N \in 0..Len(db.files) : N = Cardinality(S)
  BY <1>2, <1>3, SortedIs
<1>4. PICK q \in [1..N -> S] : q = Sorted(S) /\ \A a, b \in 1..N : a < b => q[a] < q[b]
  BY <1>2, <1>3, <1>20, SortedIs
<1>5. call = [indices |-> q, all |-> all, test |-> test]
  BY <1>3, <1>4
<1>6. call.indices = q /\ call.all = all /\ call.test = test
  BY <1>5
<1>7. N \in Nat /\ q \in [1..N -> 1..Len(db.files)] /\ q \in Seq(1..Len(db.files)) /\ Len(q) = N
  <2>1. N \in Nat /\ q \in [1..N -> 1..Len(db.files)]
    <3>1. N \in Nat
      BY <1>2
    <3>2. \A m \in 1..N : q[m] \in 1..Len(db.files)
      BY <1>3, <1>4
    <3>3. q = [m \in 1..N |-> q[m]]
      BY <1>4
    <3> QED BY <3>1, <3>2, <3>3
  <2> QED BY <2>1
<1>8. call \in [indices : Seq(1..Len(db.files)), all : BOOLEAN, test : BOOLEAN]
  BY <1>5, <1>7
<1>9. /\ out.fileIndex = 1 /\ out.numFiles = 0 /\ out.open = FALSE /\ out.hasStream = FALSE
      /\ out \in OutType
  <2>1. 1 \in 1..(Len(db.files) + 1) /\ 0 \in 0..Len(call.indices)
    BY <1>2, <1>6, <1>7
  <2> QED BY <1>1, <2>1 DEF ClosedStream, OutType
<1>10. decoder \in DecoderType /\ decoder.prev = NoBind
  BY <1>1 DEF DecoderType, NoMixer
<1>11. Types
  <2>1. i \in 1..(Len(call.indices) + 1) /\ folder \in 0..Len(db.folders)
    BY <1>1, <1>2, <1>6, <1>7 DEF NoFolder
  <2>2. results \in Seq(ResultType) /\ blocks \subseteq 1..Len(db.folders)
        /\ failures \subseteq 1..Len(db.folders)
    BY <1>1
  <2>3. TypeOK
    BY <1>1, <1>2, <1>8, <1>9, <1>10, <2>1, <2>2 DEF TypeOK, OutType, DecoderType
  <2> QED BY <1>1, <2>2, <2>3 DEF Types
<1>12. Request
  <2>1. ASSUME call.all, NEW n \in 1..N PROVE N = Len(db.files) /\ q[n] = n
    <3>1. S = 1..Len(db.files)
      BY <1>3, <1>6, <2>1
    <3>2. N = Len(db.files)
      BY <1>2, <1>20, <3>1, CountUpTo
    <3> QED BY <1>4, <1>7, <3>2, AllInOrder
  <2>2. call.all => N = Len(db.files)
    <3> SUFFICES ASSUME call.all PROVE N = Len(db.files)
      OBVIOUS
    <3>1. S = 1..Len(db.files)
      BY <1>3, <1>6
    <3> QED BY <1>2, <1>20, <3>1, CountUpTo
  <2> QED BY <1>4, <1>6, <1>7, <2>1, <2>2 DEF Request
<1>13. Ahead
  BY <1>1, <1>9 DEF Ahead
<1>14. OpenRight
  BY <1>9 DEF OpenRight
<1>15. Asked = {} /\ Cardinality(Asked) = 0
  <2>1. Asked = {}
    BY <1>1 DEF Asked
  <2> QED BY <2>1, FS_EmptySet
<1>16. AskedRight /\ Truthful
  BY <1>1, <1>9, <1>15 DEF AskedRight, Truthful
<1>17. FailuresShow /\ MixerRight /\ Control
  BY <1>1, <1>9, <1>10 DEF FailuresShow, MixerRight, Control
<1> QED BY <1>11, <1>12, <1>13, <1>14, <1>16, <1>17 DEF IInv

LEMMA Unmoved ==
  ASSUME IInv, UNCHANGED vars
  PROVE  IInv'
<1>1. /\ UNCHANGED <<db, call, i, folder, outcome, finished, decoder, out, results, blocks, failures>>
      /\ pc' = pc /\ returned' = returned
  BY DEF vars
<1>2. Types'
  BY <1>1, TypesParts, TypesFrame DEF IInv
<1>3. \A k : Shown(k)' <=> Shown(k)
  BY <1>1 DEF Shown, Asked, FolderOf
<1>4. FailuresShow'
  BY <1>1, <1>3 DEF IInv, FailuresShow
<1>5. MixerRight' /\ Control'
  BY <1>1 DEF IInv, MixerRight, Control, Bind, File
<1> QED BY <1>1, <1>2, <1>4, <1>5, Frame DEF IInv

LEMMA Inductive ==
  IInv /\ [Next]_vars => IInv'
BY NextFilesStep, OpenSteps, CloseSteps, InitializedStep, RefuseFolderStep, KeepMixerStep,
   ReplaceMixerStep, SetUpCodersStep, WriteBytesStep, CodeEndsStep, FlushedStep, Unmoved
   DEF Next, Done

LEMMA Invariance ==
  Spec => []IInv
BY Initial, Inductive, PTL DEF Spec

(* The callback hears of every requested file once, in the order of the    *)
(* request, whatever of empty files, cut folders and failures moved        *)
(* _fileIndex and _numFiles of CFolderOutStream; and of all of them before *)
(* Extract returns S_OK.                                                   *)
THEOREM RequestFollowed ==
  Spec => []ResultsFollowRequest
<1>1. IInv => ResultsFollowRequest
  <2> SUFFICES ASSUME IInv PROVE ResultsFollowRequest
    OBVIOUS
  <2>1. Cardinality(Asked) = i - 1 - out.numFiles
    BY DEF IInv, AskedRight
  <2>2. Cardinality(Asked) <= Len(call.indices)
    BY <2>1, TypeFacts DEF IInv
  <2>3. returned = "ok" => Cardinality(Asked) = Len(call.indices)
    BY <2>1, TypeFacts DEF IInv, Control
  <2> QED BY <2>2, <2>3 DEF ResultsFollowRequest, IInv, Types, AskedRight
<1> QED BY <1>1, Invariance, PTL

(* A file is reported good only with all its bytes and the right CRC; a    *)
(* folder that Decode failed for shows in the result of a requested file   *)
(* or in ReportExtractResult before the next folder and before S_OK; and a *)
(* file that is lost before its first byte is not created.                 *)
THEOREM HonestResults ==
  Spec => []ResultsAreHonest
<1>1. IInv => ResultsAreHonest
  <2> SUFFICES ASSUME IInv PROVE ResultsAreHonest
    OBVIOUS
  <2>1. pc = "next" \/ returned = "ok" => \A k \in failures \ blocks : Shown(k)
    BY DEF IInv, FailuresShow, Control
  <2> QED BY <2>1 DEF ResultsAreHonest, IInv, Truthful, Control, Shown
<1> QED BY <1>1, Invariance, PTL

(* CDecoder sets coders up only in a mixer made for the bind info of the   *)
(* folder, but for the folder that follows one whose coders could not be   *)
(* created, when the folder before that one had its bind info.             *)
THEOREM MixerFitsFolder ==
  Spec => []MixerIsForFolder
<1>1. IInv => MixerIsForFolder
  BY BindIsTyped DEF IInv, MixerRight, MixerIsForFolder, MixerFits
<1> QED BY <1>1, Invariance, PTL


-----------------------------------------------------------------------------
(* The threads of Update.                                                  *)

CONSTANTS Updates, MaxSize

VARIABLES u, damaged, jobs, main, worker, rp, binder, fin, data, newDatabase, given

Update == INSTANCE SevenZipUpdate

HasFields ==
  {"pc", "job"} \subseteq DOMAIN main /\ {"pc", "size", "cur", "result"} \subseteq DOMAIN worker

(* Where the main thread is while the other one may work for it.           *)
ForWorker == Update!RepackInThread /\ main.pc \in {"mixer", "encode", "release", "await"}

WInv == HasFields /\ (worker.pc # "idle" => ForWorker)

LEMMA WorkerInitial ==
  Update!Init => WInv
BY DEF Update!Init, WInv, HasFields

(* A step of the main thread at a folder that is not its to share.         *)
LEMMA MainAlone ==
  ASSUME WInv, ~ForWorker, HasFields', worker' = worker
  PROVE  WInv'
BY DEF WInv

(* A step of the main thread that leaves its folder alone.                 *)
LEMMA MainStays ==
  ASSUME WInv, HasFields', worker' = worker, UNCHANGED <<u, jobs>>, main'.job = main.job,
         main'.pc \in {"mixer", "encode", "release", "await"}
  PROVE  WInv'
BY DEF WInv, ForWorker, Update!RepackInThread, Update!IsJob, Update!Job

(* A step of the other thread.                                             *)
LEMMA WorkerMoves ==
  ASSUME WInv, HasFields', worker.pc # "idle", UNCHANGED <<u, jobs, main>>
  PROVE  WInv'
BY DEF WInv, ForWorker, Update!RepackInThread, Update!IsJob, Update!Job

LEMMA ReturnKeepsFields ==
  ASSUME HasFields, NEW r, Update!Return(r), UNCHANGED worker
  PROVE  HasFields'
BY DEF HasFields, Update!Return

LEMMA FolderDoneKeepsFields ==
  ASSUME HasFields, NEW e, NEW n, NEW c, NEW b, Update!FolderDone(e, n, c, b), UNCHANGED worker
  PROVE  HasFields'
BY DEF HasFields, Update!FolderDone

LEMMA EncodeReturnsKeepsFields ==
  ASSUME HasFields, NEW r, Update!EncodeReturns(r), UNCHANGED worker
  PROVE  HasFields'
BY DEF HasFields, Update!EncodeReturns

LEMMA WorkerReturnsKeepsFields ==
  ASSUME HasFields, NEW r, Update!WorkerReturns(r), UNCHANGED main
  PROVE  HasFields'
BY DEF HasFields, Update!WorkerReturns

LEMMA NotBlock ==
  Update!IsJob("block") \/ Update!IsJob("copy") => ~ForWorker
BY DEF ForWorker, Update!RepackInThread, Update!IsJob

LEMMA MainStepKeeps ==
  ASSUME WInv, Update!MainStep
  PROVE  WInv'
<1> USE DEF Update!Constant, Update!Coding
<1>0. HasFields
  BY DEF WInv
<1>1. CASE Update!CreateThread
  <2>1. HasFields'
    BY <1>0, <1>1, ReturnKeepsFields DEF Update!CreateThread, HasFields
  <2> QED BY <1>1, <2>1, MainAlone DEF Update!CreateThread, ForWorker
<1>2. CASE Update!WriteEmptyFiles
  <2>1. HasFields'
    BY <1>0, <1>2 DEF Update!WriteEmptyFiles, HasFields
  <2> QED BY <1>2, <2>1, MainAlone DEF Update!WriteEmptyFiles, ForWorker
<1>3. CASE Update!CopyFolder
  <2>1. HasFields'
    BY <1>0, <1>3, ReturnKeepsFields, FolderDoneKeepsFields DEF Update!CopyFolder
  <2> QED BY <1>3, <2>1, MainAlone DEF Update!CopyFolder, ForWorker
<1>4. CASE Update!StartRepack
  <2>1. worker.pc = "idle" /\ main.pc = "next" /\ Update!IsJob("repack")
    BY <1>4 DEF Update!StartRepack, WInv, ForWorker
  <2>2. CASE UNCHANGED worker
    <3>1. HasFields'
      BY <1>0, <1>4, <2>2, ReturnKeepsFields DEF Update!StartRepack, HasFields
    <3> QED BY <2>1, <2>2, <3>1, MainAlone DEF ForWorker
  <2>3. CASE /\ main' = [main EXCEPT !.pc = "mixer"]
             /\ worker' = [worker EXCEPT !.pc = IF u.mt THEN "decode" ELSE "idle", !.result = "ok"]
    <3>1. HasFields' /\ main'.pc = "mixer" /\ main'.job = main.job
      BY <1>0, <2>3 DEF HasFields
    <3>2. UNCHANGED <<u, jobs>>
      BY <1>4 DEF Update!StartRepack
    <3>3. CASE u.mt
      BY <2>1, <3>1, <3>2, <3>3
         DEF WInv, ForWorker, Update!RepackInThread, Update!IsJob, Update!Job
    <3>4. CASE ~u.mt
      <4>1. worker'.pc = "idle"
        BY <1>0, <2>3, <3>4 DEF HasFields
      <4> QED BY <3>1, <4>1 DEF WInv
    <3> QED BY <3>3, <3>4
  <2> QED BY <1>4, <2>2, <2>3 DEF Update!StartRepack
<1>5. CASE Update!CreateCoders
  <2>1. HasFields' /\ UNCHANGED <<worker, u, jobs>>
    BY <1>0, <1>5, ReturnKeepsFields DEF Update!CreateCoders, HasFields
  <2>2. CASE \E r : Update!Return(r) /\ ~Update!RepackInThread
    BY <2>1, <2>2, MainAlone DEF ForWorker
  <2>3. CASE ~(\E r : Update!Return(r) /\ ~Update!RepackInThread)
    <3>1. main'.pc \in {"encode", "release"} /\ main'.job = main.job
      BY <1>0, <1>5, <2>3 DEF Update!CreateCoders, HasFields
    <3> QED BY <2>1, <3>1, MainStays
  <2> QED BY <2>2, <2>3
<1>6. CASE Update!EncoderReads
  BY <1>0, <1>6, MainAlone, MainStays DEF Update!EncoderReads, Update!Encoding, HasFields
<1>7. CASE Update!EncoderEnds
  <2>1. HasFields' /\ main'.pc = "release" /\ main'.job = main.job
    BY <1>0, <1>7 DEF Update!EncoderEnds, Update!AfterEncode, HasFields
  <2> QED BY <1>7, <2>1, MainStays DEF Update!EncoderEnds
<1>8. CASE Update!CloseRead
  <2>1. HasFields' /\ main'.pc = "await" /\ main'.job = main.job
    BY <1>0, <1>8 DEF Update!CloseRead, HasFields
  <2> QED BY <1>8, <2>1, MainStays DEF Update!CloseRead
<1>9. CASE Update!AwaitWorker
  <2>1. HasFields' /\ worker'.pc = "idle"
    BY <1>0, <1>9 DEF Update!AwaitWorker, HasFields
  <2> QED BY <2>1 DEF WInv
<1>10. CASE Update!Verdict
  <2>1. HasFields'
    BY <1>0, <1>10, ReturnKeepsFields, FolderDoneKeepsFields DEF Update!Verdict
  <2> QED BY <1>10, <2>1, MainAlone DEF Update!Verdict, ForWorker
<1>11. CASE Update!OpenOldFileHere \/ Update!DecodeHere \/ Update!EncodeEndsHere
  <2>1. HasFields'
    BY <1>0, <1>11, EncodeReturnsKeepsFields
       DEF Update!OpenOldFileHere, Update!DecodeHere, Update!EncodeEndsHere, HasFields
  <2> QED
    BY <1>11, <2>1, MainAlone
       DEF Update!OpenOldFileHere, Update!DecodeHere, Update!EncodeEndsHere, Update!OneThread,
           ForWorker, Update!RepackInThread
<1>12. CASE Update!DecodeFailsHere
  <2>1. worker.pc = "idle"
    BY <1>12 DEF Update!DecodeFailsHere, Update!OneThread, WInv, ForWorker, Update!RepackInThread
  <2>2. HasFields' /\ worker'.pc = "idle"
    BY <1>0, <1>12, <2>1 DEF Update!DecodeFailsHere, Update!EncodeReturns, HasFields
  <2> QED BY <2>2 DEF WInv
<1>13. CASE Update!StartBlock
  <2>1. HasFields'
    BY <1>0, <1>13 DEF Update!StartBlock, HasFields
  <2> QED BY <1>13, <2>1, MainAlone, NotBlock DEF Update!StartBlock
<1>14. CASE Update!OpenStream \/ Update!ReadNewBytes \/ Update!CloseStream
  <2>1. HasFields'
    BY <1>0, <1>14, ReturnKeepsFields
       DEF Update!OpenStream, Update!ReadNewBytes, Update!CloseStream, HasFields
  <2> QED
    BY <1>14, <2>1, MainAlone, NotBlock
       DEF Update!OpenStream, Update!ReadNewBytes, Update!CloseStream, Update!IsNext,
           Update!Encoding
<1>15. CASE Update!EncodeBlockEnds
  <2>1. HasFields'
    BY <1>0, <1>15, ReturnKeepsFields, FolderDoneKeepsFields DEF Update!EncodeBlockEnds
  <2> QED BY <1>15, <2>1, MainAlone, NotBlock DEF Update!EncodeBlockEnds, Update!Encoding
<1>16. CASE Update!Finish
  <2>1. HasFields'
    BY <1>0, <1>16, ReturnKeepsFields DEF Update!Finish
  <2> QED BY <1>16, <2>1, MainAlone DEF Update!Finish, ForWorker
<1>17. CASE Update!Join
  <2>1. HasFields'
    BY <1>0, <1>17 DEF Update!Join, HasFields
  <2> QED BY <1>17, <2>1, MainAlone DEF Update!Join, ForWorker
<1> QED
  BY <1>1, <1>2, <1>3, <1>4, <1>5, <1>6, <1>7, <1>8, <1>9, <1>10, <1>11, <1>12, <1>13, <1>14,
     <1>15, <1>16, <1>17 DEF Update!MainStep

LEMMA WorkerStepKeeps ==
  ASSUME WInv, Update!WorkerStep
  PROVE  WInv'
<1> USE DEF Update!Constant
<1>0. HasFields
  BY DEF WInv
<1>1. worker.pc # "idle" /\ UNCHANGED <<u, jobs, main>>
  BY DEF Update!WorkerStep, Update!DecodedBytes, Update!DecoderEnds, Update!OpenOldFile,
         Update!SkipOldBytes, Update!OfferOldBytes, Update!OfferTaken
<1>2. ASSUME NEW n, NEW r, Update!RoundEnds(n, r) PROVE HasFields'
  BY <1>0, <1>1, <1>2, WorkerReturnsKeepsFields DEF Update!RoundEnds, HasFields
<1>3. HasFields'
  BY <1>0, <1>1, <1>2, WorkerReturnsKeepsFields
     DEF Update!WorkerStep, Update!DecodedBytes, Update!DecoderEnds, Update!OpenOldFile,
         Update!SkipOldBytes, Update!OfferOldBytes, Update!OfferTaken, HasFields
<1> QED BY <1>1, <1>3, WorkerMoves

(* The decoding thread works with local variables of Update and on the one *)
(* binder there is: it is at rest whenever Update does anything but encode *)
(* for it or wait for it, so also when it returns, whatever failed.        *)
THEOREM WorkerRests ==
  Update!Spec => []Update!WorkerAtRest
<1>1. WInv /\ [Update!Next]_Update!vars => WInv'
  <2>1. CASE UNCHANGED Update!vars
    BY <2>1 DEF Update!vars, WInv, HasFields, ForWorker, Update!RepackInThread, Update!IsJob,
                Update!Job
  <2> QED BY <2>1, MainStepKeeps, WorkerStepKeeps DEF Update!Next
<1>2. WInv => Update!WorkerAtRest
  BY DEF WInv, ForWorker, Update!WorkerAtRest
<1> QED BY <1>1, <1>2, WorkerInitial, PTL DEF Update!Spec
=============================================================================
