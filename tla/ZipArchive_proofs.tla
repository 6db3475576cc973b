-------------------------- MODULE ZipArchive_proofs --------------------------
(***************************************************************************)
(* Proofs about ZipHeaders for any archives, commands and files: what is   *)
(* reserved for a header is what is written, so that entries are found     *)
(* again after any sequence of updates, stay open to who has the password, *)
(* and keep their times and fields.                                        *)
(*                                                                         *)
(* And about CacheOutStream, through which the archive is written, for any *)
(* ring and any file: what is seen at a position, through the ring or the  *)
(* file, changes by the request that was made and by nothing else, so that *)
(* the stream is the plain file, and only cached bytes can be lost.        *)
(***************************************************************************)
EXTENDS ZipHeaders, TLAPS, FiniteSetTheorems, SequenceTheorems

-----------------------------------------------------------------------------
(* Induction over the fields of an entry, by least counterexamples.        *)

IDs == DOMAIN FieldLen

Within(U, T) == U \subseteq T /\ U # T

LEMMA LeastIDs ==
  ASSUME NEW B \in SUBSET (SUBSET IDs), B # {}
  PROVE  \E T \in B : \A U \in B : ~Within(U, T)
<1>1. B \subseteq FiniteSubsetsOf(IDs)
  <2> SUFFICES ASSUME NEW T \in B PROVE T \subseteq IDs /\ IsFiniteSet(T)
    BY DEF FiniteSubsetsOf
  <2> QED BY FS_Subset, InputsAssumption DEF IDs
<1>2. PICK T \in B : \A U \in B : ~(<<U, T>> \in StrictSubsetOrdering(IDs))
  BY <1>1, FS_StrictSubsetOrderingWellFounded, WFMin
<1> QED BY <1>2 DEF StrictSubsetOrdering, Within

-----------------------------------------------------------------------------
(* The length of fields, as the sum it is.                                 *)

Choice(s) == CHOOSE x \in s : TRUE

Sums(g, s) == IF s = {} THEN 0 ELSE FieldLen[Choice(s)] + g[s \ {Choice(s)}]

IsSum(g, T) == g = [s \in SUBSET T |-> Sums(g, s)]

LEMMA ChoiceFact ==
  ASSUME NEW s, s # {}
  PROVE  Choice(s) \in s
BY DEF Choice

LEMMA SumAt ==
  ASSUME NEW g, NEW T, IsSum(g, T), NEW s \in SUBSET T
  PROVE  g[s] = Sums(g, s)
<1> DEFINE h == [x \in SUBSET T |-> Sums(g, x)]
<1>1. g = h
  BY DEF IsSum
<1>2. h[s] = Sums(g, s)
  OBVIOUS
<1> QED BY <1>1, <1>2

(* Two ways to sum agree where both apply.                                 *)
LEMMA SumsAgree ==
  ASSUME NEW g, NEW h, NEW T \in SUBSET IDs, NEW U \in SUBSET IDs, IsSum(g, T), IsSum(h, U)
  PROVE  \A s \in SUBSET T : s \subseteq U => g[s] = h[s]
<1> DEFINE B == {s \in SUBSET T : s \subseteq U /\ g[s] # h[s]}
<1> SUFFICES ASSUME B # {} PROVE FALSE
  OBVIOUS
<1>1. PICK s \in B : \A x \in B : ~Within(x, s)
  <2>1. B \in SUBSET (SUBSET IDs)
    OBVIOUS
  <2> HIDE DEF B
  <2> QED BY <2>1, LeastIDs
<1>2. s \subseteq T /\ s \subseteq U /\ g[s] # h[s]
  OBVIOUS
<1>3. g[s] = Sums(g, s) /\ h[s] = Sums(h, s)
  BY <1>2, SumAt
<1>4. s # {}
  BY <1>2, <1>3 DEF Sums
<1>5. Choice(s) \in s
  BY <1>4, ChoiceFact
<1> DEFINE r == s \ {Choice(s)}
<1>6. Within(r, s) /\ r \subseteq T /\ r \subseteq U
  BY <1>2, <1>5 DEF Within
<1>7. g[r] = h[r]
  BY <1>1, <1>6
<1> QED BY <1>2, <1>3, <1>4, <1>7 DEF Sums

LEMMA SumExists ==
  ASSUME NEW T \in SUBSET IDs
  PROVE  \E g : IsSum(g, T)
<1> DEFINE B == {U \in SUBSET IDs : ~(\E g : IsSum(g, U))}
<1> SUFFICES ASSUME B # {} PROVE FALSE
  OBVIOUS
<1>1. PICK U \in B : \A x \in B : ~Within(x, U)
  <2>1. B \in SUBSET (SUBSET IDs)
    OBVIOUS
  <2> HIDE DEF B
  <2> QED BY <2>1, LeastIDs
<1>2. U \subseteq IDs /\ ~(\E g : IsSum(g, U))
  OBVIOUS
<1> DEFINE G(x) == CHOOSE g : IsSum(g, x)
           f == [x \in SUBSET U |-> G(x)[x]]
           h == [s \in SUBSET U |-> Sums(f, s)]
<1>3. ASSUME NEW x \in SUBSET U, x # U PROVE IsSum(G(x), x)
  <2>1. Within(x, U) /\ x \in SUBSET IDs
    BY <1>2, <1>3 DEF Within
  <2>2. \E g : IsSum(g, x)
    BY <1>1, <2>1
  <2> QED BY <2>2
<1>4. ASSUME NEW s \in SUBSET U PROVE h[s] = Sums(h, s)
  <2>1. h[s] = Sums(f, s)
    OBVIOUS
  <2>2. CASE s = {}
    BY <2>1, <2>2 DEF Sums
  <2>3. CASE s # {}
    <3>1. Choice(s) \in s
      BY <2>3, ChoiceFact
    <3> DEFINE r == s \ {Choice(s)}
    <3>2. r \in SUBSET U /\ r # U
      BY <3>1
    <3>3. f[r] = G(r)[r] /\ h[r] = Sums(f, r)
      BY <3>2
    <3>4. G(r)[r] = Sums(G(r), r)
      BY <1>3, <3>2, SumAt
    <3>5. Sums(f, r) = Sums(G(r), r)
      <4>1. CASE r = {}
        BY <4>1 DEF Sums
      <4>2. CASE r # {}
        <5>1. Choice(r) \in r
          BY <4>2, ChoiceFact
        <5> DEFINE q == r \ {Choice(r)}
        <5>2. q \in SUBSET U /\ q # U /\ q \subseteq r
          BY <3>2, <5>1
        <5>3. f[q] = G(q)[q]
          BY <5>2
        <5>4. IsSum(G(q), q) /\ IsSum(G(r), r)
          BY <1>3, <3>2, <5>2
        <5>5. G(q)[q] = G(r)[q]
          <6>1. r \in SUBSET IDs /\ q \in SUBSET IDs
            BY <1>2, <3>2, <5>2
          <6> HIDE DEF G, q, r
          <6> QED BY <5>2, <5>4, <6>1, SumsAgree
        <5> QED BY <4>2, <5>3, <5>5 DEF Sums
      <4> QED BY <4>1, <4>2
    <3>6. f[r] = h[r]
      BY <3>3, <3>4, <3>5
    <3> QED BY <2>1, <2>3, <3>6 DEF Sums
  <2> QED BY <2>2, <2>3
<1>5. h = [s \in SUBSET U |-> Sums(h, s)]
  <2> HIDE DEF f
  <2> SUFFICES \A s \in SUBSET U : h[s] = Sums(h, s)
    <3> DEFINE k == [s \in SUBSET U |-> Sums(h, s)]
    <3>1. ASSUME \A s \in SUBSET U : h[s] = Sums(h, s) PROVE h = k
      <4>1. \A s \in SUBSET U : h[s] = k[s]
        BY <3>1
      <4>2. DOMAIN h = SUBSET U /\ DOMAIN k = SUBSET U
        OBVIOUS
      <4> QED BY <4>1, <4>2
    <3> QED BY <3>1
  <2> QED BY <1>4
<1> QED BY <1>2, <1>5 DEF IsSum

LEMMA LengthIs ==
  ASSUME NEW T \in SUBSET IDs
  PROVE  \E g : IsSum(g, T) /\ LengthOf(T) = g[T]
<1> DEFINE h == CHOOSE g : IsSum(g, T)
<1>1. IsSum(h, T)
  BY SumExists
<1>2. LengthOf(T) = h[T]
  BY DEF LengthOf, MapThenSumSet, MapThenFoldSet, IsSum, Sums, Choice
<1> QED BY <1>1, <1>2

LEMMA LengthStep ==
  ASSUME NEW T \in SUBSET IDs, T # {}
  PROVE  /\ Choice(T) \in T /\ T \ {Choice(T)} \in SUBSET IDs
         /\ LengthOf(T) = FieldLen[Choice(T)] + LengthOf(T \ {Choice(T)})
<1> DEFINE r == T \ {Choice(T)}
<1>1. Choice(T) \in T
  BY ChoiceFact
<1>2. r \in SUBSET T /\ r \in SUBSET IDs
  OBVIOUS
<1> HIDE DEF r
<1>3. PICK g : IsSum(g, T) /\ LengthOf(T) = g[T]
  BY LengthIs
<1>4. PICK h : IsSum(h, r) /\ LengthOf(r) = h[r]
  BY <1>2, LengthIs
<1>5. g[r] = h[r]
  BY <1>2, <1>3, <1>4, SumsAgree
<1>6. g[T] = Sums(g, T)
  BY <1>3, SumAt
<1>7. g[T] = FieldLen[Choice(T)] + g[r]
  BY <1>6 DEF Sums, r
<1>8. LengthOf(T) = FieldLen[Choice(T)] + LengthOf(r)
  BY <1>3, <1>4, <1>5, <1>7
<1> QED BY <1>1, <1>2, <1>8 DEF r

LEMMA LengthEmpty ==
  LengthOf({}) = 0
<1>1. PICK g : IsSum(g, {}) /\ LengthOf({}) = g[{}]
  BY LengthIs
<1> QED BY <1>1, SumAt DEF Sums

LEMMA LengthNat ==
  \A T \in SUBSET IDs : LengthOf(T) \in Nat
<1> DEFINE B == {U \in SUBSET IDs : LengthOf(U) \notin Nat}
<1> SUFFICES ASSUME B # {} PROVE FALSE
  OBVIOUS
<1>1. PICK U \in B : \A x \in B : ~Within(x, U)
  <2>1. B \in SUBSET (SUBSET IDs)
    OBVIOUS
  <2> HIDE DEF B
  <2> QED BY <2>1, LeastIDs
<1>2. U \in SUBSET IDs /\ LengthOf(U) \notin Nat
  OBVIOUS
<1>3. U # {}
  BY <1>2, LengthEmpty
<1> DEFINE r == U \ {Choice(U)}
<1>4. Choice(U) \in U /\ r \in SUBSET IDs /\ LengthOf(U) = FieldLen[Choice(U)] + LengthOf(r)
  BY <1>2, <1>3, LengthStep
<1>5. Within(r, U)
  BY <1>4 DEF Within
<1>6. LengthOf(r) \in Nat
  BY <1>1, <1>4, <1>5
<1>7. FieldLen[Choice(U)] \in Nat
  BY <1>2, <1>4, InputsAssumption DEF IDs
<1> QED BY <1>2, <1>4, <1>6, <1>7

(* The order of a sum does not matter.                                     *)
LEMMA LengthWithout ==
  \A T \in SUBSET IDs : \A x \in T : LengthOf(T) = FieldLen[x] + LengthOf(T \ {x})
<1> DEFINE B == {U \in SUBSET IDs :
                   ~(\A x \in U : LengthOf(U) = FieldLen[x] + LengthOf(U \ {x}))}
<1> SUFFICES ASSUME B # {} PROVE FALSE
  OBVIOUS
<1>1. PICK U \in B : \A x \in B : ~Within(x, U)
  <2>1. B \in SUBSET (SUBSET IDs)
    OBVIOUS
  <2> HIDE DEF B
  <2> QED BY <2>1, LeastIDs
<1>2. PICK x \in U : LengthOf(U) # FieldLen[x] + LengthOf(U \ {x})
  OBVIOUS
<1>3. U \in SUBSET IDs /\ U # {}
  BY <1>2
<1> DEFINE c == Choice(U)
           r == U \ {c}
           q == U \ {x}
           p == r \ {x}
<1>4. c \in U /\ r \in SUBSET IDs /\ LengthOf(U) = FieldLen[c] + LengthOf(r)
  BY <1>3, LengthStep
<1>5. x # c
  BY <1>2, <1>4
<1>6. Within(r, U) /\ Within(q, U) /\ q \in SUBSET IDs /\ p \in SUBSET IDs /\ x \in r /\ c \in q
  BY <1>3, <1>4, <1>5 DEF Within
<1>7. LengthOf(r) = FieldLen[x] + LengthOf(r \ {x})
  BY <1>1, <1>4, <1>6
<1>8. LengthOf(q) = FieldLen[c] + LengthOf(q \ {c})
  BY <1>1, <1>6
<1>9. q \ {c} = p
  OBVIOUS
<1>10. FieldLen[x] \in Nat /\ FieldLen[c] \in Nat /\ LengthOf(p) \in Nat
  BY <1>3, <1>4, <1>6, LengthNat, InputsAssumption DEF IDs
<1> HIDE DEF p, q, r, c
<1>11. LengthOf(U) = FieldLen[c] + (FieldLen[x] + LengthOf(p))
  BY <1>4, <1>7 DEF p
<1>12. LengthOf(q) = FieldLen[c] + LengthOf(p)
  BY <1>8, <1>9
<1>13. LengthOf(U) = FieldLen[x] + LengthOf(q)
  BY <1>10, <1>11, <1>12
<1> QED BY <1>2, <1>13 DEF q

(* Fewer fields are not longer.                                            *)
LEMMA LengthMonotone ==
  \A T \in SUBSET IDs : \A U \in SUBSET IDs : T \subseteq U => LengthOf(T) <= LengthOf(U)
<1> DEFINE B == {T \in SUBSET IDs :
                   ~(\A U \in SUBSET IDs : T \subseteq U => LengthOf(T) <= LengthOf(U))}
<1> SUFFICES ASSUME B # {} PROVE FALSE
  OBVIOUS
<1>1. PICK T \in B : \A x \in B : ~Within(x, T)
  <2>1. B \in SUBSET (SUBSET IDs)
    OBVIOUS
  <2> HIDE DEF B
  <2> QED BY <2>1, LeastIDs
<1>2. PICK U \in SUBSET IDs : T \subseteq U /\ ~(LengthOf(T) <= LengthOf(U))
  OBVIOUS
<1>3. T # {}
  BY <1>2, LengthEmpty, LengthNat
<1>4. PICK x \in T : TRUE
  BY <1>3
<1> DEFINE r == T \ {x}
           q == U \ {x}
<1>5. r \in SUBSET IDs /\ q \in SUBSET IDs /\ r \subseteq q /\ Within(r, T)
  BY <1>2 DEF Within
<1>6. LengthOf(r) <= LengthOf(q)
  BY <1>1, <1>5
<1>7. LengthOf(T) = FieldLen[x] + LengthOf(r) /\ LengthOf(U) = FieldLen[x] + LengthOf(q)
  BY <1>2, LengthWithout
<1>8. LengthOf(r) \in Nat /\ LengthOf(q) \in Nat /\ FieldLen[x] \in Nat
  BY <1>5, LengthNat, InputsAssumption DEF IDs
<1> HIDE DEF r, q
<1> QED BY <1>2, <1>6, <1>7, <1>8

-----------------------------------------------------------------------------
(* Times, of which there are three.                                        *)

Moments == {M, A, C}

LEMMA TwoElements ==
  ASSUME NEW a, NEW b, a # b
  PROVE  IsFiniteSet({a, b}) /\ Cardinality({a, b}) = 2
<1>1. {a, b} = {a} \cup {b} /\ b \notin {a}
  OBVIOUS
<1>2. IsFiniteSet({a}) /\ Cardinality({a}) = 1
  BY FS_Singleton
<1>3. Cardinality({a} \cup {b}) = Cardinality({a}) + 1 /\ IsFiniteSet({a} \cup {b})
  BY <1>1, <1>2, FS_AddElement
<1> QED BY <1>1, <1>2, <1>3

LEMMA ThreeElements ==
  ASSUME NEW a, NEW b, NEW c, a # b, a # c, b # c
  PROVE  Cardinality({a, b, c}) = 3
<1> DEFINE T == {a, b}
<1>1. {a, b, c} = T \cup {c} /\ c \notin T
  OBVIOUS
<1>2. IsFiniteSet(T) /\ Cardinality(T) = 2
  BY TwoElements
<1> HIDE DEF T
<1>3. Cardinality(T \cup {c}) = Cardinality(T) + 1
  BY <1>1, <1>2, FS_AddElement
<1>4. Cardinality(T \cup {c}) = 3
  BY <1>2, <1>3
<1> QED BY <1>1, <1>4, Zenon

LEMMA SetsOfTimes ==
  /\ Cardinality({1}) = 1 /\ Cardinality({2}) = 1 /\ Cardinality({3}) = 1
  /\ Cardinality({1, 2}) = 2 /\ Cardinality({1, 3}) = 2 /\ Cardinality({2, 3}) = 2
  /\ Cardinality({1, 2, 3}) = 3 /\ Cardinality({}) = 0
<1>1. 1 # 2 /\ 1 # 3 /\ 2 # 3
  OBVIOUS
<1>2. Cardinality({1, 2}) = 2 /\ Cardinality({1, 3}) = 2 /\ Cardinality({2, 3}) = 2
  BY <1>1, TwoElements
<1>3. Cardinality({1, 2, 3}) = 3
  BY <1>1, ThreeElements
<1>4. Cardinality({1}) = 1 /\ Cardinality({2}) = 1 /\ Cardinality({3}) = 1
  BY FS_Singleton
<1>5. Cardinality({}) = 0
  BY FS_EmptySet
<1> QED BY <1>2, <1>3, <1>4, <1>5

LEMMA CountOfTimes ==
  ASSUME NEW S \in SUBSET Moments
  PROVE  Cardinality(S) \in 0..3 /\ (S # {} => Cardinality(S) >= 1)
<1>1. S \in {{}, {1}, {2}, {3}, {1, 2}, {1, 3}, {2, 3}, {1, 2, 3}}
  BY DEF Moments, M, A, C
<1> QED BY <1>1, SetsOfTimes

(* What UpdateItems learns of an entry or of a file.                       *)
PropsType == [times : [1..3 -> Nat], ntfs : BOOLEAN, unix : SUBSET Moments]

LEMMA DosNat ==
  \A t \in Nat : DosOf(t) \in Nat \ {0} /\ UnixOf(t) \in Nat /\ OfUnix(t) \in Nat /\ OfDos(t) \in Nat
BY DEF DosOf, UnixOf, OfUnix, OfDos

LEMMA UnixTimeNat ==
  ASSUME NEW x, x.flags \subseteq Moments, x.slots \in Seq(Nat), NEW i \in 1..3
  PROVE  UnixTime(x, i) \in Nat \cup {-1}
<1> DEFINE k == Cardinality({j \in x.flags : j <= i})
<1>1. k \in 0..3 /\ (i \in x.flags => k >= 1)
  <2>1. {j \in x.flags : j <= i} \in SUBSET Moments
    OBVIOUS
  <2>2. i \in x.flags => {j \in x.flags : j <= i} # {}
    OBVIOUS
  <2> QED BY <2>1, <2>2, CountOfTimes
<1>2. CASE i \in x.flags /\ k <= Len(x.slots)
  <2>1. k \in 1..Len(x.slots)
    BY <1>1, <1>2
  <2>2. x.slots[k] \in Nat
    BY <2>1, ElementOfSeq
  <2>3. UnixTime(x, i) = x.slots[k]
    BY <1>2 DEF UnixTime
  <2> QED BY <2>2, <2>3
<1>3. CASE ~(i \in x.flags /\ k <= Len(x.slots))
  BY <1>3 DEF UnixTime
<1> QED BY <1>2, <1>3

LEMMA TimeNat ==
  ASSUME NEW e \in EntryType, NEW i \in 1..3
  PROVE  TimeOf(e, i) \in Nat
<1>1. /\ e.central \in ExtraType /\ e.local \in ExtraType /\ e.dos \in Nat
  BY DEF EntryType
<1>2. ASSUME NEW x \in ExtraType
      PROVE  x.unix.flags \subseteq Moments /\ x.unix.slots \in Seq(Nat)
             /\ x.ntfs \in {<<>>} \cup [1..3 -> Nat]
  BY <1>2 DEF ExtraType, Moments
<1>3. UnixTime(e.central.unix, i) \in Nat \cup {-1} /\ UnixTime(e.local.unix, i) \in Nat \cup {-1}
  BY <1>1, <1>2, UnixTimeNat
<1>4. UnixTimeOf(e, i) \in Nat
  BY <1>3, DosNat DEF UnixTimeOf
<1>5. CASE e.central.ntfs # <<>>
  <2>1. TimeOf(e, i) = e.central.ntfs[i]
    BY <1>5 DEF TimeOf, TimeType
  <2> QED BY <1>1, <1>2, <1>5, <2>1
<1>6. CASE e.central.ntfs = <<>> /\ HasUnixTime(e.central.unix)
  <2>1. TimeOf(e, i) = UnixTimeOf(e, i)
    BY <1>6 DEF TimeOf, TimeType
  <2> QED BY <1>4, <2>1
<1>7. CASE e.central.ntfs = <<>> /\ ~HasUnixTime(e.central.unix)
  <2>1. TimeOf(e, i) = IF i = M /\ e.dos # 0 THEN OfDos(e.dos) ELSE 0
    BY <1>7 DEF TimeOf, TimeType
  <2> QED BY <1>1, <2>1, DosNat
<1> QED BY <1>5, <1>6, <1>7

LEMMA PropsTyped ==
  /\ \A e \in EntryType : PropsOfEntry(e) \in PropsType
  /\ \A f \in FileType : PropsOfFile(f) \in PropsType
<1>1. ASSUME NEW e \in EntryType PROVE PropsOfEntry(e) \in PropsType
  <2>1. TimesOf(e) \in [1..3 -> Nat]
    BY TimeNat DEF TimesOf
  <2> DEFINE n == TimeType(e) = "ntfs"
             s == IF TimeType(e) = "unix" THEN {M} \cup {i \in {A, C} : TimeOf(e, i) # 0} ELSE {}
  <2>2. n \in BOOLEAN /\ s \in SUBSET Moments
    BY DEF Moments
  <2>3. PropsOfEntry(e) = [times |-> TimesOf(e), ntfs |-> n, unix |-> s]
    BY DEF PropsOfEntry
  <2> HIDE DEF n, s
  <2> QED BY <2>1, <2>2, <2>3 DEF PropsType
<1>2. ASSUME NEW f \in FileType PROVE PropsOfFile(f) \in PropsType
  BY DEF PropsOfFile, FileType, PropsType
<1> QED BY <1>1, <1>2

-----------------------------------------------------------------------------
(* The extra fields of a new header: their types and lengths.              *)

LEMMA NotEmpty ==
  ASSUME NEW t \in [1..3 -> Nat]
  PROVE  t # <<>>
<1>1. 1 \in DOMAIN t /\ 1 \notin DOMAIN <<>>
  OBVIOUS
<1> QED BY <1>1

LEMMA StoredTyped ==
  ASSUME opt \in OptionType, NEW p \in PropsType
  PROVE  /\ StoredUnix(p) \in SUBSET Moments /\ StoresNtfs(p) \in BOOLEAN
         /\ AdjustedTimes(p) \in [1..3 -> Nat]
<1>1. p.unix \in SUBSET Moments /\ p.ntfs \in BOOLEAN /\ p.times \in [1..3 -> Nat]
  BY DEF PropsType
<1>2. StoredUnix(p) \in SUBSET Moments /\ StoresNtfs(p) \in BOOLEAN
  BY <1>1 DEF StoredUnix, StoresNtfs, Moments
<1>3. opt.set \in [1..3 -> Nat]
  BY DEF OptionType
<1> DEFINE t == [i \in 1..3 |-> IF opt.set[i] # 0 THEN opt.set[i] ELSE p.times[i]]
<1>4. t \in [1..3 -> Nat]
  BY <1>1, <1>3
<1> DEFINE S == IF opt.tfm THEN {A, C}
                ELSE IF p.ntfs THEN {}
                ELSE IF StoresNtfs(p) THEN {A, C} \ p.unix
                ELSE {A} \ p.unix
<1>5. AdjustedTimes(p) \in {t, [i \in 1..3 |-> IF i \in S THEN t[M] ELSE t[i]]}
  BY DEF AdjustedTimes
<1> HIDE DEF t, S
<1>6. \A U : [i \in 1..3 |-> IF i \in U THEN t[M] ELSE t[i]] \in [1..3 -> Nat]
  BY <1>4 DEF M
<1> QED BY <1>2, <1>4, <1>5, <1>6

LEMMA UnixFieldTyped ==
  ASSUME NEW t \in [1..3 -> Nat], NEW S \in SUBSET Moments, NEW b \in BOOLEAN
  PROVE  /\ UnixField(t, S, b) \in [flags : SUBSET Moments, slots : Seq(Nat)]
         /\ UnixField(t, S, b).flags = S
         /\ Len(UnixField(t, S, b).slots) = IF b THEN Cardinality(S) ELSE 1
         /\ \A i \in 1..Len(UnixField(t, S, b).slots) :
              UnixField(t, S, b).slots[i] = IF i \in S THEN UnixOf(t[i]) ELSE NoEpoch
         /\ S # {} => UnixField(t, S, b) # NoUnix
<1> DEFINE n == IF b THEN Cardinality(S) ELSE 1
           q == [i \in 1..n |-> IF i \in S THEN UnixOf(t[i]) ELSE NoEpoch]
<1>1. n \in 0..3
  BY CountOfTimes
<1>2. NoEpoch \in Nat
  BY LimitsAssumption
<1>3. \A i \in 1..3 : UnixOf(t[i]) \in Nat
  BY DosNat
<1> HIDE DEF n
<1>4. \A i \in 1..n : q[i] \in Nat
  BY <1>1, <1>2, <1>3
<1>5. q \in Seq(Nat) /\ Len(q) = n /\ \A i \in 1..n : q[i] = IF i \in S THEN UnixOf(t[i]) ELSE NoEpoch
  BY <1>1, <1>4
<1>6. UnixField(t, S, b) = [flags |-> S, slots |-> q]
  BY DEF UnixField, n
<1> HIDE DEF q
<1>7. S # {} => UnixField(t, S, b) # NoUnix
  BY <1>6 DEF NoUnix
<1> QED BY <1>5, <1>6, <1>7 DEF n

LEMMA ExtraLenNat ==
  ASSUME NEW x \in ExtraType
  PROVE  ExtraLen(x) \in Nat
<1>1. LengthOf(x.others) \in Nat
  BY LengthNat DEF ExtraType, IDs
<1>2. x.unix.slots \in Seq(Nat) /\ Len(x.unix.slots) \in Nat
  BY DEF ExtraType
<1>3. UnixLen(Len(x.unix.slots)) \in Nat
  BY <1>2 DEF UnixLen
<1> DEFINE a == IF x.ntfs = <<>> THEN 0 ELSE 4 + 32
           b == IF x.unix = NoUnix THEN 0 ELSE UnixLen(Len(x.unix.slots))
           c == IF x.owner THEN OwnerLen ELSE 0
           d == IF x.aes THEN AesLen ELSE 0
           e == IF x.strong THEN 4 + 8 ELSE 0
<1>4. a \in Nat /\ b \in Nat /\ c \in Nat /\ d \in Nat /\ e \in Nat
  BY <1>3 DEF OwnerLen, AesLen
<1>5. ExtraLen(x) = a + b + c + d + e + LengthOf(x.others)
  BY DEF ExtraLen
<1> HIDE DEF a, b, c, d, e
<1> QED BY <1>1, <1>4, <1>5

LEMMA KeptTyped ==
  ASSUME NEW x \in ExtraType
  PROVE  /\ KeptOthers(x) \in SUBSET IDs /\ KeptOthers(x) \subseteq x.others
         /\ LengthOf(KeptOthers(x)) \in Nat /\ LengthOf(x.others) \in Nat
         /\ LengthOf(KeptOthers(x)) <= LengthOf(x.others)
<1>1. x.others \in SUBSET IDs
  BY DEF ExtraType, IDs
<1>2. KeptOthers(x) \subseteq x.others
  BY DEF KeptOthers
<1> QED BY <1>1, <1>2, LengthNat, LengthMonotone

(* NewExtra, field by field.                                               *)
LEMMA NewExtraTyped ==
  ASSUME opt \in OptionType, NEW p \in PropsType, NEW x \in ExtraType,
         NEW h \in BOOLEAN, NEW a \in BOOLEAN, NEW b \in BOOLEAN
  PROVE  NewExtra(p, x, h, a, b) \in ExtraType
<1>1. AdjustedTimes(p) \in [1..3 -> Nat] /\ StoredUnix(p) \in SUBSET Moments
  BY StoredTyped
<1>2. UnixField(AdjustedTimes(p), StoredUnix(p), b) \in [flags : SUBSET Moments, slots : Seq(Nat)]
  <2> DEFINE f == UnixField(AdjustedTimes(p), StoredUnix(p), b)
  <2>1. f \in [flags : SUBSET Moments, slots : Seq(Nat)]
    <3> HIDE DEF f
    <3>1. \A t \in [1..3 -> Nat] : \A S \in SUBSET Moments :
            UnixField(t, S, b) \in [flags : SUBSET Moments, slots : Seq(Nat)]
      BY UnixFieldTyped
    <3> QED BY <1>1, <3>1 DEF f
  <2> QED BY <2>1
<1>3. NoUnix \in [flags : SUBSET Moments, slots : Seq(Nat)]
  <2>1. <<>> \in Seq(Nat)
    OBVIOUS
  <2> QED BY <2>1 DEF NoUnix
<1>4. KeptOthers(x) \in SUBSET IDs
  BY KeptTyped
<1> DEFINE n == IF StoresNtfs(p) /\ ~b THEN AdjustedTimes(p) ELSE <<>>
           u == IF StoredUnix(p) = {} THEN NoUnix
                ELSE UnixField(AdjustedTimes(p), StoredUnix(p), b)
           o == StoresOwner(h) \/ KeepsOwner(x)
<1>5. /\ n \in {<<>>} \cup [1..3 -> Nat] /\ u \in [flags : SUBSET Moments, slots : Seq(Nat)]
      /\ o \in BOOLEAN
  BY <1>1, <1>2, <1>3
<1>6. NewExtra(p, x, h, a, b) = [ntfs |-> n, unix |-> u, owner |-> o, aes |-> a, strong |-> FALSE,
                                 others |-> KeptOthers(x)]
  BY DEF NewExtra
<1> HIDE DEF n, u, o
<1> QED BY <1>4, <1>5, <1>6 DEF ExtraType, Moments, IDs

LEMMA OwnerOnce ==
  ASSUME opt \in OptionType, NEW x \in ExtraType, NEW h \in BOOLEAN
  PROVE  (IF StoresOwner(h) THEN OwnerLen ELSE 0) + (IF KeepsOwner(x) THEN OwnerLen ELSE 0) =
           IF StoresOwner(h) \/ KeepsOwner(x) THEN OwnerLen ELSE 0
BY DEF StoresOwner, KeepsOwner, OwnerLen

(* The space that is reserved before the data is what the fields take      *)
(* after it, and the central header has the 36 bytes of NTFS times more,   *)
(* at most.                                                                *)
LEMMA NewExtraLen ==
  ASSUME opt \in OptionType, NEW p \in PropsType, NEW x \in ExtraType,
         NEW h \in BOOLEAN, NEW a \in BOOLEAN
  PROVE  /\ ReservedExtra(p, x, h) \in Nat
         /\ ExtraLen(NewExtra(p, x, h, a, TRUE)) =
              ReservedExtra(p, x, h) + (IF a THEN AesLen ELSE 0)
         /\ ExtraLen(NewExtra(p, x, h, a, FALSE)) <= ExtraLen(NewExtra(p, x, h, a, TRUE)) + 36
         /\ ReservedExtra(p, x, h) <= UnixLen(3) + OwnerLen + LengthOf(x.others)
<1>1. AdjustedTimes(p) \in [1..3 -> Nat] /\ StoredUnix(p) \in SUBSET Moments
  BY StoredTyped
<1> DEFINE S == StoredUnix(p)
           k == LengthOf(KeptOthers(x))
           n == Cardinality(S)
           w == IF StoresOwner(h) \/ KeepsOwner(x) THEN OwnerLen ELSE 0
           v == IF a THEN AesLen ELSE 0
           y == IF S = {} THEN 0 ELSE UnixLen(n)
<1>2. /\ k \in Nat /\ LengthOf(x.others) \in Nat /\ k <= LengthOf(x.others)
      /\ n \in 0..3 /\ (S # {} => n >= 1)
      /\ w \in 0..OwnerLen /\ OwnerLen = 15 /\ v \in 0..11
      /\ y \in 0..UnixLen(3) /\ UnixLen(3) = 17 /\ (S # {} => y >= UnixLen(1)) /\ UnixLen(1) = 9
  <2>1. k \in Nat /\ LengthOf(x.others) \in Nat /\ k <= LengthOf(x.others)
    BY KeptTyped
  <2>2. n \in 0..3 /\ (S # {} => n >= 1)
    BY <1>1, CountOfTimes
  <2> HIDE DEF k, n, S
  <2> QED BY <2>1, <2>2 DEF OwnerLen, AesLen, UnixLen
<1>3. ReservedExtra(p, x, h) = y + w + k
  <2> DEFINE w1 == IF StoresOwner(h) THEN OwnerLen ELSE 0
             w2 == IF KeepsOwner(x) THEN OwnerLen ELSE 0
  <2>1. w1 + w2 = w /\ w1 \in Nat /\ w2 \in Nat
    BY OwnerOnce DEF OwnerLen
  <2>2. ReservedExtra(p, x, h) = y + w1 + w2 + k
    BY DEF ReservedExtra
  <2> HIDE DEF y, w, k, w1, w2
  <2> QED BY <1>2, <2>1, <2>2
<1>4. ASSUME NEW b \in BOOLEAN
      PROVE  ExtraLen(NewExtra(p, x, h, a, b)) =
               (IF StoresNtfs(p) /\ ~b THEN 36 ELSE 0)
               + (IF S = {} THEN 0 ELSE UnixLen(IF b THEN n ELSE 1)) + w + v + k
  <2> DEFINE z == NewExtra(p, x, h, a, b)
             u == UnixField(AdjustedTimes(p), S, b)
  <2>1. /\ z.ntfs = IF StoresNtfs(p) /\ ~b THEN AdjustedTimes(p) ELSE <<>>
        /\ z.unix = IF S = {} THEN NoUnix ELSE u
        /\ (z.owner <=> (StoresOwner(h) \/ KeepsOwner(x))) /\ (z.aes <=> a)
        /\ ~z.strong /\ z.others = KeptOthers(x)
    BY DEF NewExtra
  <2>2. (IF z.ntfs = <<>> THEN 0 ELSE 4 + 32) = IF StoresNtfs(p) /\ ~b THEN 36 ELSE 0
    BY <1>1, <2>1, NotEmpty
  <2>3. (IF z.unix = NoUnix THEN 0 ELSE UnixLen(Len(z.unix.slots))) =
          IF S = {} THEN 0 ELSE UnixLen(IF b THEN n ELSE 1)
    <3>1. S # {} => u # NoUnix /\ Len(u.slots) = IF b THEN n ELSE 1
      BY <1>1, UnixFieldTyped
    <3> HIDE DEF u, S, n, z
    <3> QED BY <2>1, <3>1
  <2>4. /\ (IF z.owner THEN OwnerLen ELSE 0) = w /\ (IF z.aes THEN AesLen ELSE 0) = v
        /\ (IF z.strong THEN 4 + 8 ELSE 0) = 0 /\ LengthOf(z.others) = k
    BY <2>1
  <2> DEFINE f1 == IF StoresNtfs(p) /\ ~b THEN 36 ELSE 0
             f2 == IF S = {} THEN 0 ELSE UnixLen(IF b THEN n ELSE 1)
  <2>5. f1 \in Nat /\ f2 \in Nat
    <3> HIDE DEF S, n
    <3> QED BY <1>2 DEF UnixLen
  <2>6. ExtraLen(z) = f1 + f2 + w + v + 0 + k
    <3> HIDE DEF f1, f2, w, v, k, z
    <3> QED BY <2>2, <2>3, <2>4 DEF ExtraLen, f1, f2
  <2> HIDE DEF f1, f2, w, v, k
  <2>7. ExtraLen(z) = f1 + f2 + w + v + k
    BY <1>2, <2>5, <2>6
  <2> QED BY <2>7 DEF f1, f2
<1>5. ExtraLen(NewExtra(p, x, h, a, TRUE)) = 0 + y + w + v + k
  BY <1>4
<1>6. \E f1 \in {0, 36} : \E f2 \in Nat :
        /\ ExtraLen(NewExtra(p, x, h, a, FALSE)) = f1 + f2 + w + v + k
        /\ f2 <= y
  <2> DEFINE f1 == IF StoresNtfs(p) THEN 36 ELSE 0
             f2 == IF S = {} THEN 0 ELSE UnixLen(1)
  <2>1. ExtraLen(NewExtra(p, x, h, a, FALSE)) = f1 + f2 + w + v + k
    BY <1>4
  <2>2. f1 \in {0, 36} /\ f2 \in Nat /\ f2 <= y
    BY <1>2
  <2> HIDE DEF f1, f2
  <2> QED BY <2>1, <2>2
<1>7. v = IF a THEN AesLen ELSE 0
  OBVIOUS
<1> HIDE DEF S, k, n, w, v, y
<1>8. PICK f1 \in {0, 36}, f2 \in Nat :
        /\ ExtraLen(NewExtra(p, x, h, a, FALSE)) = f1 + f2 + w + v + k
        /\ f2 <= y
  BY <1>6
<1> DEFINE long == ExtraLen(NewExtra(p, x, h, a, FALSE))
           short == ExtraLen(NewExtra(p, x, h, a, TRUE))
           room == ReservedExtra(p, x, h)
           most == UnixLen(3) + OwnerLen + LengthOf(x.others)
<1>9. long = f1 + f2 + w + v + k /\ short = 0 + y + w + v + k /\ room = y + w + k
      /\ most = 17 + 15 + LengthOf(x.others)
  BY <1>2, <1>3, <1>5, <1>8
<1> HIDE DEF long, short, room, most
<1>10. room \in Nat /\ short = room + v /\ long <= short + 36 /\ room <= most
  BY <1>2, <1>8, <1>9
<1> QED BY <1>7, <1>10 DEF long, short, room, most

-----------------------------------------------------------------------------
(* A header and its lengths.                                               *)

LEMMA EntryParts ==
  ASSUME NEW e \in EntryType
  PROVE  /\ e.name \in Nat /\ e.pos \in Nat /\ e.data \in Nat /\ e.size \in Nat
         /\ e.packSize \in Nat /\ e.descLen \in {0, 12, 16, 24} /\ e.dos \in Nat
         /\ e.dir \in BOOLEAN /\ e.unixHost \in BOOLEAN /\ e.zip64 \in BOOLEAN /\ e.desc \in BOOLEAN
         /\ e.enc \in {"none", "zip", "aes", "strong"}
         /\ e.check \in [by : {"crc", "time"}, byte : Nat]
         /\ e.local \in ExtraType /\ e.central \in ExtraType
BY DEF EntryType

LEMMA Lens ==
  ASSUME NEW e \in EntryType
  PROVE  /\ HeaderLen(e) \in Nat /\ RealSize(e) \in Nat
         /\ ExtraLen(e.central) \in Nat /\ ExtraLen(e.local) \in Nat
         /\ CentralExtraLen(e) \in Nat /\ CentralExtraLen(e) <= ExtraLen(e.central) + 28
<1>1. ExtraLen(e.central) \in Nat /\ ExtraLen(e.local) \in Nat
  BY EntryParts, ExtraLenNat
<1>2. HeaderLen(e) \in Nat
  <2>1. Zip64Len(e.zip64) \in Nat
    BY DEF Zip64Len
  <2> QED BY <1>1, <2>1, EntryParts DEF HeaderLen
<1>3. RealSize(e) \in Nat
  BY <1>2, EntryParts DEF RealSize
<1> DEFINE big == {f \in {"size", "packSize", "pos"} : e[f] >= Big32}
           fields == {"size", "packSize", "pos"}
<1>4. Cardinality(big) \in 0..3
  <2>1. Cardinality(fields) = 3
    BY ThreeElements
  <2>2. fields = {"size", "packSize"} \cup {"pos"} /\ IsFiniteSet({"size", "packSize"})
    BY TwoElements
  <2>3. IsFiniteSet(fields)
    BY <2>2, FS_AddElement
  <2>4. big \subseteq fields
    OBVIOUS
  <2> HIDE DEF big, fields
  <2>5. IsFiniteSet(big) /\ Cardinality(big) <= Cardinality(fields)
    BY <2>3, <2>4, FS_Subset
  <2>6. Cardinality(big) \in Nat
    BY <2>5, FS_CardinalityType
  <2> QED BY <2>1, <2>5, <2>6
<1>5. CentralExtraLen(e) = ExtraLen(e.central) + (IF big = {} THEN 0 ELSE 4 + 8 * Cardinality(big))
  BY DEF CentralExtraLen
<1> HIDE DEF big
<1>6. CentralExtraLen(e) \in Nat /\ CentralExtraLen(e) <= ExtraLen(e.central) + 28
  BY <1>1, <1>4, <1>5
<1> QED BY <1>1, <1>2, <1>3, <1>6

(* 16 bits.                                                                *)
LEMMA Divides ==
  ASSUME NEW a \in Int, NEW R \in Nat, R > 0
  PROVE  a % R \in 0..(R - 1) /\ \E k \in Int : a = R * k + (a % R)
<1>1. a = R * (a \div R) + (a % R) /\ (a \div R) \in Int /\ a % R \in 0..(R - 1)
  OBVIOUS
<1> QED BY <1>1

LEMMA Sixteen ==
  ASSUME NEW a \in Nat
  PROVE  /\ a < Big16 => a % Big16 = a
         /\ (a + 20) % Big16 # a
<1>1. Big16 \in Nat /\ Big16 > 63
  BY LimitsAssumption
<1>2. a < Big16 => a % Big16 = a
  BY <1>1
<1>3. ASSUME (a + 20) % Big16 = a PROVE FALSE
  <2> DEFINE b == a + 20
  <2>0. b \in Int /\ b % Big16 = a /\ b = a + 20
    BY <1>3
  <2> HIDE DEF b
  <2>1. PICK q \in Int : b = Big16 * q + (b % Big16)
    BY <1>1, <2>0, Divides
  <2>2. Big16 * q \in Int
    BY <1>1
  <2>3. Big16 * q = 20
    BY <2>0, <2>1, <2>2
  <2>4. CASE q <= 0
    <3>1. Big16 * q <= 0
      BY <1>1, <2>4
    <3> QED BY <2>3, <3>1
  <2>5. CASE q >= 1
    <3>1. Big16 * q >= Big16
      BY <1>1, <2>5
    <3> QED BY <1>1, <2>3, <3>1
  <2> QED BY <2>4, <2>5
<1> QED BY <1>2, <1>3

(* What WriteLocalHeader leaves as it is told.                             *)
SameFields(w, e) ==
  /\ w.name = e.name /\ w.dir = e.dir /\ w.unixHost = e.unixHost /\ w.size = e.size
  /\ w.packSize = e.packSize /\ w.desc = e.desc /\ w.enc = e.enc /\ w.check = e.check
  /\ w.dos = e.dos /\ w.local = e.local /\ w.central = e.central

(* The header either fills the space that was reserved for it, or it is    *)
(* too long for 16 bits, or the sizes turned out to need 64 bits.          *)
LEMMA HeaderWritten ==
  ASSUME NEW e \in EntryType, NEW r \in BOOLEAN, NEW n \in Nat, curPos \in Nat,
         ExtraLen(e.local) = n, WriteLocalHeader(e, r, n)
  PROVE  \/ /\ Return("E_FAIL", arc)
            /\ \/ ~r /\ (e.packSize >= Big32 \/ e.size >= Big32)
               \/ Zip64Len(r) + n >= Big16
         \/ \E w \in EntryType :
              /\ AddItem(w) /\ curPos' = curPos + RealSize(w)
              /\ w.pos = curPos /\ IsReadable(w) /\ SameFields(w, e)
<1> DEFINE z == r \/ e.packSize >= Big32 \/ e.size >= Big32
           room == Zip64Len(r) + n
           d == 30 + e.name + room
           k == IF e.desc THEN DescriptorLen(z) ELSE 0
           w == [e EXCEPT !.pos = curPos, !.zip64 = z, !.data = d, !.descLen = k]
<1>1. IF (Zip64Len(z) + ExtraLen(e.local)) % Big16 = room
      THEN AddItem(w) /\ curPos' = curPos + RealSize(w)
      ELSE Return("E_FAIL", arc)
  BY DEF WriteLocalHeader
<1>2. /\ z \in BOOLEAN /\ room \in Nat /\ e.name \in Nat /\ k \in {0, 16, 24}
      /\ Zip64Len(r) = (IF r THEN 20 ELSE 0) /\ Zip64Len(z) = IF z THEN 20 ELSE 0
  BY EntryParts DEF Zip64Len, DescriptorLen
<1>3. d \in Nat
  <2> HIDE DEF room
  <2> QED BY <1>2
<1>4. /\ w \in EntryType /\ SameFields(w, e) /\ w.pos = curPos /\ w.zip64 = z
      /\ w.data = d /\ w.descLen = k
  <2>1. PICK y \in BOOLEAN : y = z
    BY <1>2
  <2>2. w = [e EXCEPT !.pos = curPos, !.zip64 = y, !.data = d, !.descLen = k]
    BY <2>1
  <2> HIDE DEF z, d, k, w
  <2>3. /\ w \in EntryType /\ SameFields(w, e) /\ w.pos = curPos /\ w.zip64 = y
        /\ w.data = d /\ w.descLen = k
    <3>1. PICK p1 \in Nat, d1 \in Nat, k1 \in {0, 12, 16, 24} : p1 = curPos /\ d1 = d /\ k1 = k
      BY <1>2, <1>3
    <3>2. w = [e EXCEPT !.pos = p1, !.zip64 = y, !.data = d1, !.descLen = k1]
      BY <2>2, <3>1
    <3>3. /\ w \in EntryType /\ SameFields(w, e) /\ w.pos = p1 /\ w.zip64 = y
          /\ w.data = d1 /\ w.descLen = k1
      BY <3>1, <3>2 DEF EntryType, SameFields
    <3> QED BY <3>1, <3>3
  <2> QED BY <2>1, <2>3
<1>5. CASE (z <=> r) /\ room < Big16
  <2>1. Zip64Len(z) = Zip64Len(r)
    BY <1>2, <1>5
  <2>2. (Zip64Len(z) + ExtraLen(e.local)) % Big16 = room
    BY <1>2, <1>5, <2>1, Sixteen
  <2>3. HeaderLen(w) = d
    <3>1. HeaderLen(w) = 30 + w.name + Zip64Len(w.zip64) + ExtraLen(w.local)
      BY DEF HeaderLen
    <3>2. w.name = e.name /\ ExtraLen(w.local) = n /\ Zip64Len(w.zip64) = Zip64Len(r)
      <4> HIDE DEF w, z
      <4>1. w.name = e.name /\ w.local = e.local
        BY <1>4 DEF SameFields
      <4>2. Zip64Len(w.zip64) = Zip64Len(z)
        BY <1>4 DEF Zip64Len
      <4> QED BY <2>1, <4>1, <4>2
    <3> HIDE DEF w
    <3>3. Zip64Len(r) \in Nat
      BY <1>2
    <3> QED BY <1>2, <3>1, <3>2, <3>3
  <2>4. w.desc => w.descLen = DescriptorLen(w.zip64)
    <3> HIDE DEF w, z
    <3> QED BY <1>4 DEF SameFields, DescriptorLen
  <2>5. IsReadable(w)
    <3> HIDE DEF w
    <3> QED BY <1>4, <2>3, <2>4 DEF IsReadable
  <2>6. AddItem(w) /\ curPos' = curPos + RealSize(w)
    BY <1>1, <2>2
  <2> HIDE DEF w
  <2> QED BY <1>4, <2>5, <2>6
<1>6. CASE (z <=> r) /\ ~(room < Big16)
  <2>1. (Zip64Len(z) + ExtraLen(e.local)) % Big16 # room
    <3>1. Zip64Len(z) + ExtraLen(e.local) = room
      BY <1>2, <1>6
    <3>2. room % Big16 < Big16
      <4> HIDE DEF room
      <4> QED BY <1>2, LimitsAssumption
    <3> HIDE DEF room, z
    <3> QED BY <1>2, <1>6, <3>1, <3>2
  <2>2. room >= Big16
    <3> HIDE DEF room
    <3> QED BY <1>2, <1>6, LimitsAssumption
  <2> QED BY <1>1, <2>1, <2>2
<1>7. CASE ~(z <=> r)
  <2>1. z /\ ~r
    BY <1>7
  <2>2. Zip64Len(z) + ExtraLen(e.local) = room + 20
    <3> HIDE DEF z
    <3> QED BY <1>2, <2>1
  <2>3. (Zip64Len(z) + ExtraLen(e.local)) % Big16 # room
    <3> HIDE DEF z, room
    <3> QED BY <1>2, <2>2, Sixteen
  <2>4. e.packSize >= Big32 \/ e.size >= Big32
    BY <2>1
  <2> QED BY <1>1, <2>1, <2>3, <2>4
<1> QED BY <1>5, <1>6, <1>7

-----------------------------------------------------------------------------
(* The invariant.                                                          *)

(* What an update knows of an entry or a file.                             *)
ItemFits(u) ==
  /\ u.indexInArc \in 0..Len(arc) /\ u.name \in Nat
  /\ u.newData \in BOOLEAN /\ u.newProps \in BOOLEAN
  /\ u.newData => u.file \in FileType
  /\ ~u.newData => u.indexInArc # 0

CommandFits ==
  /\ result = "busy" => opt \in OptionType
  /\ result # "busy" => updateItems = <<>>
  /\ DOMAIN updateItems = 1..Len(updateItems) /\ Len(updateItems) \in Nat
  /\ \A i \in DOMAIN updateItems : ItemFits(updateItems[i])

(* A central header is that of another program, or not much longer than    *)
(* the local one; both say if the data are encrypted with AES.             *)
Traced(e) == /\ e.enc = "aes" => e.local.aes
             /\ ExtraLen(e.central) <= ExtraLen(e.local) + 36 \/ e.central \in Foreign
AllTraced == /\ \A i \in DOMAIN arc : Traced(arc[i])
             /\ \A i \in DOMAIN items : Traced(items[i])

(* Entries that are found again, in their places, before position end.     *)
Found(s, end) ==
  \A i \in DOMAIN s :
    /\ IsReadable(s[i]) \/ IsCut(s[i])
    /\ s[i].pos + RealSize(s[i]) <= IF i < Len(s) THEN s[i + 1].pos ELSE end

AllFound == /\ Found(items, curPos)
            /\ result = "S_OK" => \E end \in Nat : Found(arc, end)

IInv == TypeOK /\ CommandFits /\ AllTraced /\ AllFound


LEMMA IndexInArc ==
  ASSUME TypeOK, NEW i \in 1..Len(arc)
  PROVE  arc[i] \in EntryType /\ i \in DOMAIN arc
BY DEF TypeOK

LEMMA UiFits ==
  ASSUME IInv, Busy
  PROVE  /\ ItemFits(ui) /\ result = "busy" /\ opt \in OptionType
         /\ itemIndex \in 1..Len(updateItems) /\ curPos \in Nat /\ items \in Seq(EntryType)
         /\ ui.indexInArc # 0 =>
              /\ ui.indexInArc \in 1..Len(arc) /\ Source \in EntryType /\ Traced(Source)
<1>1. /\ result = "busy" /\ opt \in OptionType /\ curPos \in Nat /\ items \in Seq(EntryType)
      /\ itemIndex \in 1..Len(updateItems)
  BY DEF IInv, TypeOK, CommandFits, Busy
<1>2. ItemFits(ui)
  BY <1>1 DEF IInv, CommandFits, ui
<1>3. arc \in Seq(EntryType) /\ Len(arc) \in Nat
  BY DEF IInv, TypeOK
<1>4. ASSUME ui.indexInArc # 0
      PROVE  ui.indexInArc \in 1..Len(arc) /\ Source \in EntryType /\ Traced(Source)
  <2>1. ui.indexInArc \in 1..Len(arc)
    BY <1>2, <1>3, <1>4 DEF ItemFits
  <2> QED BY <1>3, <2>1 DEF IInv, AllTraced, Source
<1> QED BY <1>1, <1>2, <1>4

(* An update that is over.                                                 *)
LEMMA ReturnFits ==
  ASSUME IInv, NEW r \in {"E_FAIL", "E_NOTIMPL"}, Return(r, arc)
  PROVE  IInv'
<1>1. /\ result' = r /\ arc' = arc /\ updateItems' = <<>> /\ itemIndex' = 1 /\ curPos' = 0
      /\ items' = <<>> /\ updates' = updates
  BY DEF Return
<1>2. TypeOK'
  BY <1>1 DEF IInv, TypeOK
<1>3. CommandFits'
  BY <1>1 DEF CommandFits
<1>4. AllTraced'
  BY <1>1 DEF IInv, AllTraced, Traced
<1>5. AllFound'
  BY <1>1 DEF AllFound, Found
<1> QED BY <1>2, <1>3, <1>4, <1>5 DEF IInv

LEMMA LastFits ==
  ASSUME IInv, WriteCentralDir
  PROVE  IInv'
<1>1. /\ result' = "S_OK" /\ arc' = items /\ updateItems' = <<>> /\ itemIndex' = 1 /\ curPos' = 0
      /\ items' = <<>> /\ updates' = updates
  BY DEF WriteCentralDir, Return
<1>2. TypeOK'
  BY <1>1 DEF IInv, TypeOK
<1>3. CommandFits'
  BY <1>1 DEF CommandFits
<1>4. AllTraced'
  BY <1>1 DEF IInv, AllTraced, Traced
<1>5. AllFound'
  <2>1. Found(items, curPos) /\ curPos \in Nat
    BY DEF IInv, AllFound, TypeOK
  <2>2. \E end \in Nat : Found(items, end)
    BY <2>1
  <2>3. Found(items, curPos)' /\ Found(<<>>, 0)
    BY <1>1 DEF Found
  <2>4. (\E end \in Nat : Found(arc, end))'
    BY <1>1, <2>2 DEF Found, IsReadable, IsCut, RealSize, HeaderLen, DescriptorLen
  <2> QED BY <2>3, <2>4 DEF AllFound
<1> QED BY <1>2, <1>3, <1>4, <1>5 DEF IInv

(* One more entry.                                                         *)
LEMMA AddedFits ==
  ASSUME IInv, Busy, NEW w \in EntryType, AddItem(w), curPos' = curPos + RealSize(w),
         w.pos = curPos, IsReadable(w) \/ IsCut(w), Traced(w)
  PROVE  IInv'
<1>1. /\ result' = "busy" /\ arc' = arc /\ updateItems' = updateItems /\ opt' = opt
      /\ itemIndex' = itemIndex + 1 /\ items' = Append(items, w) /\ updates' = updates
  BY DEF AddItem, Busy
<1>2. RealSize(w) \in Nat
  BY Lens
<1>3. /\ items \in Seq(EntryType) /\ Len(items) \in Nat /\ curPos \in Nat
      /\ itemIndex \in 1..Len(updateItems)
  BY UiFits DEF IInv, TypeOK
<1>4. /\ items' \in Seq(EntryType) /\ Len(items') = Len(items) + 1
      /\ \A i \in DOMAIN items' : IF i = Len(items) + 1 THEN items'[i] = w
                                  ELSE i \in DOMAIN items /\ items'[i] = items[i]
      /\ DOMAIN items' = 1..Len(items')
  BY <1>1, <1>3
<1>5. TypeOK'
  BY <1>1, <1>2, <1>3, <1>4 DEF IInv, TypeOK
<1>6. CommandFits'
  BY <1>1 DEF IInv, CommandFits, ItemFits, Busy
<1>7. AllTraced'
  <2>1. (\A i \in DOMAIN arc : Traced(arc[i]))'
    BY <1>1 DEF IInv, AllTraced, Traced
  <2>2. ASSUME NEW i \in DOMAIN items' PROVE Traced(items'[i])
    BY <1>4, <2>2 DEF IInv, AllTraced
  <2> QED BY <2>1, <2>2 DEF AllTraced, Traced
<1>8. Found(items', curPos')
  <2> SUFFICES ASSUME NEW i \in DOMAIN items'
               PROVE  /\ IsReadable(items'[i]) \/ IsCut(items'[i])
                      /\ items'[i].pos + RealSize(items'[i]) <=
                           IF i < Len(items') THEN items'[i + 1].pos ELSE curPos'
    BY DEF Found
  <2>1. CASE i = Len(items) + 1
    <3>1. items'[i] = w /\ ~(i < Len(items'))
      BY <1>3, <1>4, <2>1
    <3>2. w.pos + RealSize(w) <= curPos'
      BY <1>2, <1>3
    <3> QED BY <3>1, <3>2
  <2>2. CASE i # Len(items) + 1
    <3>1. i \in DOMAIN items /\ items'[i] = items[i] /\ DOMAIN items = 1..Len(items)
      BY <1>3, <1>4, <2>2
    <3>2. /\ IsReadable(items[i]) \/ IsCut(items[i])
          /\ items[i].pos + RealSize(items[i]) <=
               IF i < Len(items) THEN items[i + 1].pos ELSE curPos
      BY <3>1 DEF IInv, AllFound, Found
    <3>3. i < Len(items') /\ i + 1 \in DOMAIN items'
      BY <1>3, <1>4, <3>1
    <3>4. items'[i + 1].pos = IF i < Len(items) THEN items[i + 1].pos ELSE curPos
      BY <1>3, <1>4, <3>1, <3>3
    <3> QED BY <3>1, <3>2, <3>3, <3>4
  <2> QED BY <2>1, <2>2
<1>9. AllFound'
  BY <1>1, <1>8 DEF AllFound, Found, IsReadable, IsCut, RealSize, HeaderLen, DescriptorLen
<1> QED BY <1>5, <1>6, <1>7, <1>9 DEF IInv

-----------------------------------------------------------------------------
(* What the three ways to write an entry lead to.                          *)

(* A copy of an entry that was found is found, or cut.                     *)
LEMMA Copied ==
  ASSUME IInv, CopyEntry
  PROVE  /\ Busy /\ ~ui.newData /\ ~ui.newProps /\ ui.indexInArc # 0 /\ Source \in EntryType
         /\ Traced(Source)
         /\ \E w \in EntryType :
              /\ AddItem(w) /\ curPos' = curPos + RealSize(w)
              /\ w.pos = curPos /\ (IsReadable(w) \/ IsCut(w))
              /\ SameFields(w, Source)
<1>1. Busy /\ SourceFound /\ ~ui.newData /\ ~ui.newProps
  BY DEF CopyEntry
<1>2. /\ ui.indexInArc # 0 /\ Source \in EntryType /\ Traced(Source) /\ curPos \in Nat
      /\ IsReadable(Source)
  BY <1>1, UiFits DEF ItemFits, SourceFound
<1> DEFINE n == IF Source.desc THEN 16 ELSE 0
           w == [Source EXCEPT !.pos = curPos, !.descLen = n]
<1>3. AddItem(w) /\ curPos' = curPos + LocalFullSize(Source)
  BY DEF CopyEntry
<1>4. n \in {0, 12, 16, 24}
  OBVIOUS
<1>5. /\ w \in EntryType /\ SameFields(w, Source)
      /\ w.pos = curPos /\ w.zip64 = Source.zip64 /\ w.data = Source.data /\ w.descLen = n
  <2>1. PICK o \in EntryType, q \in Nat, m \in {0, 12, 16, 24} : o = Source /\ q = curPos /\ m = n
    BY <1>2, <1>4
  <2>2. w = [o EXCEPT !.pos = q, !.descLen = m]
    BY <2>1
  <2> HIDE DEF n, w
  <2>3. /\ w \in EntryType /\ SameFields(w, o)
        /\ w.pos = q /\ w.zip64 = o.zip64 /\ w.data = o.data /\ w.descLen = m
    BY <2>2 DEF EntryType, SameFields
  <2> QED BY <2>1, <2>3
<1> HIDE DEF w
<1>6. HeaderLen(w) = HeaderLen(Source)
  BY <1>5 DEF HeaderLen, SameFields
<1>7. RealSize(w) = LocalFullSize(Source)
  BY <1>5, <1>6 DEF RealSize, LocalFullSize, SameFields
<1>8. IsReadable(w) \/ IsCut(w)
  <2>1. w.data = HeaderLen(w) /\ (w.desc => w.descLen = 16) /\ w.desc = Source.desc
    BY <1>2, <1>5, <1>6 DEF IsReadable, SameFields
  <2>2. w.zip64 \in BOOLEAN
    BY <1>5, EntryParts
  <2> QED BY <2>1, <2>2 DEF IsReadable, IsCut, DescriptorLen
<1> QED BY <1>1, <1>2, <1>3, <1>5, <1>7, <1>8

(* The header RewriteHeader makes of the one of the source.                *)
FromSource(e) ==
  LET p == PropsOfEntry(Source)
      Extra(b) == NewExtra(p, Source.local, Source.unixHost, Source.local.aes, b)
  IN /\ e.size = Source.size /\ e.packSize = Source.packSize /\ e.enc = Source.enc
     /\ e.check = Source.check /\ (e.desc <=> opt.dd /\ ~Source.dir)
     /\ e.dos = IF opt.time = "zero" THEN 0 ELSE DosOf(AdjustedTimes(p)[M])
     /\ e.local = Extra(TRUE) /\ e.central = Extra(FALSE)

MostExtra(x) == LengthOf(x.others) + UnixLen(3) + OwnerLen + AesLen

(* The fields of a new header, as FromSource and FromFile make them.       *)
LEMMA ExtraFits ==
  ASSUME opt \in OptionType, NEW p \in PropsType, NEW x \in ExtraType,
         NEW h \in BOOLEAN, NEW a \in BOOLEAN
  PROVE  \E n \in Nat :
           /\ n = ReservedExtra(p, x, h) + (IF a THEN AesLen ELSE 0)
           /\ ExtraLen(NewExtra(p, x, h, a, TRUE)) = n
           /\ ExtraLen(NewExtra(p, x, h, a, FALSE)) <= n + 36
           /\ n <= MostExtra(x)
<1> DEFINE r == ReservedExtra(p, x, h)
           v == IF a THEN AesLen ELSE 0
           l == LengthOf(x.others)
           long == ExtraLen(NewExtra(p, x, h, a, FALSE))
           short == ExtraLen(NewExtra(p, x, h, a, TRUE))
<1>1. r \in Nat /\ short = r + v /\ long <= short + 36 /\ r <= UnixLen(3) + OwnerLen + l
  BY NewExtraLen
<1>2. v \in 0..11 /\ AesLen = 11 /\ UnixLen(3) = 17 /\ OwnerLen = 15
  BY DEF AesLen, UnixLen, OwnerLen
<1>3. l \in Nat
  BY LengthNat DEF ExtraType, IDs
<1>4. MostExtra(x) = l + UnixLen(3) + OwnerLen + AesLen
  BY DEF MostExtra
<1> HIDE DEF r, v, l, long, short
<1>5. r + v \in Nat /\ short = r + v /\ long <= r + v + 36 /\ r + v <= MostExtra(x)
  BY <1>1, <1>2, <1>3, <1>4
<1> QED BY <1>5 DEF r, v, long, short

LEMMA Rewritten ==
  ASSUME IInv, RewriteHeader
  PROVE  /\ Busy /\ SourceFound /\ ~ui.newData /\ ui.newProps
         /\ ui.indexInArc # 0 /\ Source \in EntryType /\ Traced(Source) /\ opt \in OptionType
         /\ \/ Return("E_FAIL", arc) /\ 20 + MostExtra(Source.local) >= Big16
            \/ \E w \in EntryType :
                 /\ AddItem(w) /\ curPos' = curPos + RealSize(w)
                 /\ w.pos = curPos /\ IsReadable(w) /\ FromSource(w)
<1>1. Busy /\ SourceFound /\ ~ui.newData /\ ui.newProps
  BY DEF RewriteHeader
<1>2. /\ ui.indexInArc # 0 /\ Source \in EntryType /\ Traced(Source) /\ curPos \in Nat
      /\ opt \in OptionType /\ ui.name \in Nat
  BY <1>1, UiFits DEF ItemFits
<1> DEFINE p == PropsOfEntry(Source)
           s == Source
           x == NewExtra(p, s.local, s.unixHost, s.local.aes, TRUE)
           y == NewExtra(p, s.local, s.unixHost, s.local.aes, FALSE)
           dos == IF opt.time = "zero" THEN 0 ELSE DosOf(AdjustedTimes(p)[M])
           b == opt.dd /\ ~s.dir
           e == [s EXCEPT !.name = ui.name, !.desc = b, !.dos = dos, !.local = x, !.central = y]
           r == s.size >= Big32 \/ s.packSize >= Big32
           n == ReservedExtra(p, s.local, s.unixHost) + (IF s.local.aes THEN AesLen ELSE 0)
<1>3. WriteLocalHeader(e, r, n)
  BY DEF RewriteHeader
<1>4. /\ p \in PropsType /\ s.local \in ExtraType /\ s.unixHost \in BOOLEAN
      /\ s.local.aes \in BOOLEAN /\ s.size \in Nat /\ s.packSize \in Nat
  <2>1. p \in PropsType
    BY <1>2, PropsTyped
  <2>2. s.local \in ExtraType /\ s.unixHost \in BOOLEAN /\ s.size \in Nat /\ s.packSize \in Nat
    BY <1>2, EntryParts
  <2>3. s.local.aes \in BOOLEAN
    BY <2>2 DEF ExtraType
  <2> QED BY <2>1, <2>2, <2>3
<1>5. x \in ExtraType /\ y \in ExtraType
  <2> HIDE DEF p, s
  <2> QED BY <1>2, <1>4, NewExtraTyped
<1>6. n \in Nat /\ ExtraLen(x) = n /\ n <= MostExtra(s.local)
  <2> HIDE DEF p, s
  <2> QED BY <1>2, <1>4, ExtraFits, SMTT(30), ZenonT(30)
<1>7. dos \in Nat
  <2>1. AdjustedTimes(p) \in [1..3 -> Nat]
    <3> HIDE DEF p
    <3> QED BY <1>2, <1>4, StoredTyped
  <2>2. DosOf(AdjustedTimes(p)[M]) \in Nat
    BY <2>1, DosNat DEF M
  <2> QED BY <2>2
<1> HIDE DEF x, y, dos, s, p, n
<1>8. /\ e \in EntryType /\ e.size = s.size /\ e.packSize = s.packSize /\ e.enc = s.enc
      /\ e.check = s.check /\ (e.desc <=> b) /\ e.dos = dos /\ e.local = x /\ e.central = y
  <2>1. PICK c \in BOOLEAN : c = b
    OBVIOUS
  <2>2. e = [s EXCEPT !.name = ui.name, !.desc = c, !.dos = dos, !.local = x, !.central = y]
    BY <2>1
  <2>3. s \in EntryType
    BY <1>2 DEF s
  <2> HIDE DEF e, b
  <2>4. /\ e \in EntryType /\ e.size = s.size /\ e.packSize = s.packSize /\ e.enc = s.enc
        /\ e.check = s.check /\ (e.desc <=> c) /\ e.dos = dos /\ e.local = x /\ e.central = y
    BY <1>2, <1>5, <1>7, <2>2, <2>3 DEF EntryType
  <2> QED BY <2>1, <2>4
<1> HIDE DEF e
<1>9. PICK q \in BOOLEAN : q = r
  OBVIOUS
<1>10. WriteLocalHeader(e, q, n) /\ (~q => ~(s.size >= Big32) /\ ~(s.packSize >= Big32))
  BY <1>3, <1>9
<1>11. \/ /\ Return("E_FAIL", arc)
          /\ \/ ~q /\ (e.packSize >= Big32 \/ e.size >= Big32)
             \/ Zip64Len(q) + n >= Big16
       \/ \E w \in EntryType :
            /\ AddItem(w) /\ curPos' = curPos + RealSize(w)
            /\ w.pos = curPos /\ IsReadable(w) /\ SameFields(w, e)
  BY <1>2, <1>6, <1>8, <1>10, HeaderWritten
<1>12. ASSUME ~q /\ (e.packSize >= Big32 \/ e.size >= Big32) PROVE FALSE
  BY <1>4, <1>8, <1>10, <1>12, LimitsAssumption
<1>13. ASSUME Zip64Len(q) + n >= Big16 PROVE 20 + MostExtra(Source.local) >= Big16
  <2>1. Zip64Len(q) \in 0..20
    BY DEF Zip64Len
  <2>2. MostExtra(s.local) \in Nat
    <3>1. LengthOf(s.local.others) \in Nat
      BY <1>4, LengthNat DEF ExtraType, IDs
    <3> QED BY <3>1 DEF MostExtra, UnixLen, OwnerLen, AesLen
  <2>3. 20 + MostExtra(s.local) >= Big16
    BY <1>6, <1>13, <2>1, <2>2, LimitsAssumption
  <2> QED BY <2>3 DEF s
<1>14. ASSUME NEW w \in EntryType, SameFields(w, e) PROVE FromSource(w)
  <2>1. /\ w.size = s.size /\ w.packSize = s.packSize /\ w.enc = s.enc
        /\ w.check = s.check /\ (w.desc <=> b) /\ w.dos = dos /\ w.local = x /\ w.central = y
    BY <1>8, <1>14 DEF SameFields
  <2> QED BY <2>1 DEF FromSource, x, y, s, p, dos
<1> QED BY <1>1, <1>2, <1>11, <1>12, <1>13, <1>14

(* The header AddFile makes for a file.                                    *)
OldFields == IF ui.indexInArc = 0 THEN NoExtra ELSE Source.local
FromFile(e) ==
  LET enc == Encryption(ui.file)
      Extra(b) == NewExtra(PropsOfFile(ui.file), OldFields, TRUE, enc = "aes", b)
  IN /\ e.size = ui.file.readSize /\ e.enc = enc /\ e.check = ByCrc
     /\ (e.desc <=> opt.dd /\ ~ui.file.dir)
     /\ e.local = Extra(TRUE) /\ e.central = Extra(FALSE)

LEMMA OldFieldsTyped ==
  ASSUME ui.indexInArc # 0 => Source \in EntryType
  PROVE  /\ OldFields \in ExtraType
         /\ ui.indexInArc = 0 => MostExtra(OldFields) = 43
         /\ ui.indexInArc # 0 => OldFields = Source.local
<1>1. NoExtra \in ExtraType /\ NoExtra.others = {}
  <2>1. <<>> \in Seq(Nat)
    OBVIOUS
  <2> QED BY <2>1 DEF NoExtra, NoUnix, ExtraType
<1>2. MostExtra(NoExtra) = 43
  BY <1>1, LengthEmpty DEF MostExtra, UnixLen, OwnerLen, AesLen
<1> QED BY <1>1, <1>2, EntryParts DEF OldFields

LEMMA Half == \A n \in Nat : n \div 2 \in Nat /\ n \div 2 <= n
OBVIOUS

LEMMA FileAdded ==
  ASSUME IInv, AddFile
  PROVE  /\ Busy /\ ui.newData /\ ui.file \in FileType /\ opt \in OptionType
         /\ \/ /\ Return("E_FAIL", arc)
               /\ \/ /\ ui.file.size < Soon32
                     /\ ui.file.readSize + AddedByCrypto("aes") >= Big32
                  \/ ui.indexInArc # 0 /\ 20 + MostExtra(Source.local) >= Big16
            \/ \E w \in EntryType :
                 /\ AddItem(w) /\ curPos' = curPos + RealSize(w)
                 /\ w.pos = curPos /\ IsReadable(w) /\ FromFile(w)
<1>1. Busy /\ SourceFound /\ ui.newData
  BY DEF AddFile
<1>2. /\ ui.file \in FileType /\ curPos \in Nat /\ opt \in OptionType /\ ui.name \in Nat
      /\ ui.indexInArc # 0 => Source \in EntryType
  BY <1>1, UiFits DEF ItemFits
<1> DEFINE f == ui.file
           p == PropsOfFile(f)
           enc == Encryption(f)
           aes == enc = "aes"
           x == NewExtra(p, OldFields, TRUE, aes, TRUE)
           y == NewExtra(p, OldFields, TRUE, aes, FALSE)
           dos == IF opt.time = "zero" THEN 0 ELSE DosOf(AdjustedTimes(p)[M])
           b == opt.dd /\ ~f.dir
           n == ReservedExtra(p, OldFields, TRUE) + (IF aes THEN AesLen ELSE 0)
           r == f.size >= Soon32
<1>3. PICK coded \in {f.readSize, f.readSize \div 2} :
        WriteLocalHeader(
          [name |-> ui.name, dir |-> f.dir, unixHost |-> TRUE, pos |-> 0, data |-> 0,
           zip64 |-> FALSE, size |-> f.readSize, packSize |-> coded + AddedByCrypto(enc),
           desc |-> b, descLen |-> 0, enc |-> enc, check |-> ByCrc,
           dos |-> dos, local |-> x, central |-> y], r, n)
  BY DEF AddFile, OldFields
<1>4. /\ f.dir \in BOOLEAN /\ f.size \in Nat /\ f.readSize \in Nat /\ p \in PropsType
      /\ OldFields \in ExtraType /\ aes \in BOOLEAN
  <2>1. p \in PropsType
    BY <1>2, PropsTyped
  <2>2. f.dir \in BOOLEAN /\ f.size \in Nat /\ f.readSize \in Nat
    BY <1>2 DEF FileType
  <2>3. OldFields \in ExtraType
    BY <1>2, OldFieldsTyped
  <2> QED BY <2>1, <2>2, <2>3
<1>5. enc \in {"none", "zip", "aes", "strong"} /\ AddedByCrypto(enc) \in 0..28
  BY DEF Encryption, AddedByCrypto
<1>6. coded \in Nat /\ coded <= f.readSize
  <2> HIDE DEF f
  <2> QED BY <1>3, <1>4, Half
<1>7. x \in ExtraType /\ y \in ExtraType
  <2> HIDE DEF p, aes
  <2> QED BY <1>2, <1>4, NewExtraTyped
<1>8. n \in Nat /\ ExtraLen(x) = n /\ n <= MostExtra(OldFields)
  <2> HIDE DEF p, aes
  <2> QED BY <1>2, <1>4, ExtraFits
<1>9. dos \in Nat
  <2>1. AdjustedTimes(p) \in [1..3 -> Nat]
    <3> HIDE DEF p
    <3> QED BY <1>2, <1>4, StoredTyped
  <2>2. DosOf(AdjustedTimes(p)[M]) \in Nat
    BY <2>1, DosNat DEF M
  <2> QED BY <2>2
<1>10. PICK k \in Nat : k = coded + AddedByCrypto(enc) /\ k <= f.readSize + 28
  <2> HIDE DEF f, enc
  <2> QED BY <1>4, <1>5, <1>6
<1>11. PICK c \in BOOLEAN : c = b
  OBVIOUS
<1>12. PICK q \in BOOLEAN : q = r
  <2>1. r \in BOOLEAN
    OBVIOUS
  <2> HIDE DEF r
  <2> QED BY <2>1
<1> DEFINE e == [name |-> ui.name, dir |-> f.dir, unixHost |-> TRUE, pos |-> 0, data |-> 0,
                 zip64 |-> FALSE, size |-> f.readSize, packSize |-> k,
                 desc |-> c, descLen |-> 0, enc |-> enc, check |-> ByCrc,
                 dos |-> dos, local |-> x, central |-> y]
<1>13. WriteLocalHeader(e, q, n)
  <2> HIDE DEF f, enc, dos, x, y, n, b, r
  <2> QED BY <1>3, <1>10, <1>11, <1>12
<1>14. /\ e \in EntryType /\ e.size = f.readSize /\ e.packSize = k /\ (e.desc <=> c)
       /\ e.enc = enc /\ e.check = ByCrc /\ e.local = x /\ e.central = y
  <2>1. PICK z : z = e
    OBVIOUS
  <2>2. z = [name |-> ui.name, dir |-> f.dir, unixHost |-> TRUE, pos |-> 0, data |-> 0,
             zip64 |-> FALSE, size |-> f.readSize, packSize |-> k,
             desc |-> c, descLen |-> 0, enc |-> enc, check |-> ByCrc,
             dos |-> dos, local |-> x, central |-> y]
    BY <2>1
  <2> HIDE DEF e, f, enc, dos, x, y
  <2>3. /\ z \in EntryType /\ z.size = f.readSize /\ z.packSize = k /\ (z.desc <=> c)
        /\ z.enc = enc /\ z.check = ByCrc /\ z.local = x /\ z.central = y
    <3>1. PICK g \in BOOLEAN, l \in Nat, m \in Nat : g = f.dir /\ l = f.readSize /\ m = ui.name
      BY <1>2, <1>4
    <3>2. PICK v \in [by : {"crc", "time"}, byte : Nat] : v = ByCrc
      BY DEF ByCrc
    <3>3. z = [name |-> m, dir |-> g, unixHost |-> TRUE, pos |-> 0, data |-> 0,
               zip64 |-> FALSE, size |-> l, packSize |-> k,
               desc |-> c, descLen |-> 0, enc |-> enc, check |-> v,
               dos |-> dos, local |-> x, central |-> y]
      BY <2>2, <3>1, <3>2
    <3>4. /\ z \in EntryType /\ z.size = l /\ z.packSize = k /\ (z.desc <=> c)
          /\ z.enc = enc /\ z.check = v /\ z.local = x /\ z.central = y
      BY <1>5, <1>7, <1>9, <3>3 DEF EntryType
    <3> QED BY <3>1, <3>2, <3>4
  <2> QED BY <2>1, <2>3
<1> HIDE DEF e, x, y, n, dos
<1>15. \/ /\ Return("E_FAIL", arc)
          /\ \/ ~q /\ (e.packSize >= Big32 \/ e.size >= Big32)
             \/ Zip64Len(q) + n >= Big16
       \/ \E w \in EntryType :
            /\ AddItem(w) /\ curPos' = curPos + RealSize(w)
            /\ w.pos = curPos /\ IsReadable(w) /\ SameFields(w, e)
  BY <1>2, <1>8, <1>13, <1>14, HeaderWritten
<1>16. ASSUME ~q /\ (e.packSize >= Big32 \/ e.size >= Big32)
       PROVE  f.size < Soon32 /\ f.readSize + AddedByCrypto("aes") >= Big32
  <2>1. AddedByCrypto("aes") = 28 /\ Soon32 \in Nat /\ Big32 \in Nat
    BY LimitsAssumption DEF AddedByCrypto
  <2>2. ~(f.size >= Soon32)
    BY <1>12, <1>16
  <2> HIDE DEF f
  <2>3. f.size < Soon32
    BY <1>4, <2>1, <2>2
  <2>4. f.readSize + 28 >= Big32
    BY <1>4, <1>10, <1>14, <1>16, <2>1
  <2> QED BY <2>1, <2>3, <2>4
<1>17. ASSUME Zip64Len(q) + n >= Big16
       PROVE  ui.indexInArc # 0 /\ 20 + MostExtra(Source.local) >= Big16
  <2>1. Zip64Len(q) \in 0..20
    BY DEF Zip64Len
  <2>2. MostExtra(OldFields) \in Nat
    <3>1. LengthOf(OldFields.others) \in Nat
      BY <1>4, LengthNat DEF ExtraType, IDs
    <3> QED BY <3>1 DEF MostExtra, UnixLen, OwnerLen, AesLen
  <2>3. 20 + MostExtra(OldFields) >= Big16
    BY <1>8, <1>17, <2>1, <2>2, LimitsAssumption
  <2>4. ui.indexInArc # 0
    BY <1>2, <2>3, OldFieldsTyped, LimitsAssumption
  <2> QED BY <1>2, <2>3, <2>4, OldFieldsTyped
<1>18. ASSUME NEW w \in EntryType, SameFields(w, e) PROVE FromFile(w)
  <2>1. /\ w.size = f.readSize /\ w.enc = enc /\ w.check = ByCrc /\ (w.desc <=> b)
        /\ w.local = x /\ w.central = y
    BY <1>11, <1>14, <1>18 DEF SameFields
  <2> QED BY <2>1 DEF FromFile, x, y
<1> QED BY <1>1, <1>2, <1>15, <1>16, <1>17, <1>18

-----------------------------------------------------------------------------
(* A command.                                                              *)

AllFit(s) == /\ DOMAIN s = 1..Len(s) /\ Len(s) \in Nat
             /\ \A i \in DOMAIN s : ItemFits(s[i])

LEMMA ItemsFit ==
  ASSUME TypeOK
  PROVE  /\ \A i \in 1..Len(arc), n \in Nat : \A T : ItemFits(Item(i, n, FALSE, i \in T, NoFile))
         /\ \A i \in 0..Len(arc), f \in Files : ItemFits(Item(i, f.name, TRUE, TRUE, f))
<1>0. Len(arc) \in Nat
  BY DEF TypeOK
<1>1. ASSUME NEW i \in 1..Len(arc), NEW n \in Nat, NEW T
      PROVE  ItemFits(Item(i, n, FALSE, i \in T, NoFile))
  BY <1>0 DEF ItemFits, Item
<1>2. ASSUME NEW i \in 0..Len(arc), NEW f \in Files
      PROVE  ItemFits(Item(i, f.name, TRUE, TRUE, f))
  <2>1. f \in FileType /\ f.name \in Nat
    BY InputsAssumption DEF FileType
  <2> QED BY <1>0, <2>1 DEF ItemFits, Item
<1> QED BY <1>1, <1>2

LEMMA HeadersFit ==
  ASSUME TypeOK, NEW o, ChangeHeaders(o)
  PROVE  AllFit(updateItems')
<1>1. arc \in Seq(EntryType) /\ Len(arc) \in Nat
  BY DEF TypeOK
<1>2. PICK chosen \in SUBSET (1..Len(arc)) :
        \E agreed \in SUBSET {i \in chosen : arc[i].enc # "none"} :
          LET changed == IF o.cmd = "rn" THEN chosen
                         ELSE agreed \cup {i \in chosen : arc[i].enc = "none"}
          IN updateItems' = [i \in 1..Len(arc) |->
               Item(i, IF o.cmd = "rn" /\ i \in changed THEN NewName ELSE arc[i].name,
                    FALSE, i \in changed, NoFile)]
  BY DEF ChangeHeaders
<1>3. PICK changed :
        updateItems' = [i \in 1..Len(arc) |->
          Item(i, IF o.cmd = "rn" /\ i \in changed THEN NewName ELSE arc[i].name,
               FALSE, i \in changed, NoFile)]
  BY <1>2
<1>4. DOMAIN updateItems' = 1..Len(arc) /\ Len(updateItems') = Len(arc)
  BY <1>1, <1>3
<1>5. ASSUME NEW i \in 1..Len(arc) PROVE ItemFits(updateItems'[i])
  <2> DEFINE n == IF o.cmd = "rn" /\ i \in changed THEN NewName ELSE arc[i].name
  <2>1. n \in Nat
    BY <1>1, InputsAssumption, EntryParts
  <2>2. updateItems'[i] = Item(i, n, FALSE, i \in changed, NoFile)
    BY <1>3
  <2> HIDE DEF n
  <2> QED BY <2>1, <2>2, ItemsFit
<1> QED BY <1>1, <1>4, <1>5 DEF AllFit

LEMMA FilesFit ==
  ASSUME TypeOK, UpdateFiles
  PROVE  AllFit(updateItems')
<1> DEFINE Kept(i) == Item(i, arc[i].name, FALSE, FALSE, NoFile)
           Others(i) == [j \in 1..(Len(arc) - 1) |-> Kept(IF j < i THEN j ELSE j + 1)]
           all == [i \in 1..Len(arc) |-> Kept(i)]
<1>1. arc \in Seq(EntryType) /\ Len(arc) \in Nat
  BY DEF TypeOK
<1>2. \A i \in 1..Len(arc) : ItemFits(Kept(i))
  <2> SUFFICES ASSUME NEW i \in 1..Len(arc) PROVE ItemFits(Item(i, arc[i].name, FALSE, FALSE, NoFile))
    OBVIOUS
  <2>1. arc[i].name \in Nat
    BY <1>1, EntryParts
  <2> QED BY <1>1, <2>1 DEF ItemFits, Item
<1>3. PICK f \in Files :
        \/ updateItems' = Append(all, Item(0, f.name, TRUE, TRUE, f))
        \/ \E i \in 1..Len(arc) :
             updateItems' \in {[all EXCEPT ![i] = Item(i, f.name, TRUE, TRUE, f)], Others(i)}
  BY DEF UpdateFiles
<1> DEFINE new(i) == Item(i, f.name, TRUE, TRUE, f)
<1>4. \A i \in 0..Len(arc) : ItemFits(new(i))
  BY ItemsFit
<1>5. AllFit(all)
  <2> HIDE DEF Kept
  <2> QED BY <1>1, <1>2 DEF AllFit
<1>6. CASE updateItems' = Append(all, new(0))
  <2>0. 0 \in 0..Len(arc)
    BY <1>1
  <2>1. ItemFits(new(0))
    <3> HIDE DEF new
    <3> QED BY <1>4, <2>0
  <2> DEFINE T == {Kept(i) : i \in 1..Len(arc)}
  <2>3. all \in Seq(T)
    <3> HIDE DEF Kept
    <3>1. all \in [1..Len(arc) -> T]
      OBVIOUS
    <3> QED BY <1>1, <3>1
  <2> HIDE DEF all, new, T
  <2>2. /\ Len(Append(all, new(0))) = Len(all) + 1
        /\ DOMAIN Append(all, new(0)) = 1..(Len(all) + 1)
        /\ \A i \in 1..(Len(all) + 1) :
             Append(all, new(0))[i] = IF i = Len(all) + 1 THEN new(0) ELSE all[i]
    BY <1>5, <2>3 DEF AllFit
  <2> QED BY <1>5, <1>6, <2>1, <2>2 DEF AllFit
<1>7. ASSUME NEW i \in 1..Len(arc), updateItems' = [all EXCEPT ![i] = new(i)]
      PROVE  AllFit(updateItems')
  <2>1. ItemFits(new(i)) /\ DOMAIN all = 1..Len(arc)
    <3> HIDE DEF Kept, new
    <3> QED BY <1>1, <1>4
  <2> HIDE DEF all, new
  <2>2. /\ DOMAIN updateItems' = 1..Len(arc) /\ Len(updateItems') = Len(arc)
        /\ \A j \in 1..Len(arc) : updateItems'[j] = IF j = i THEN new(i) ELSE all[j]
    BY <1>1, <1>7, <2>1
  <2> QED BY <1>1, <1>5, <2>1, <2>2 DEF AllFit
<1>8. ASSUME NEW i \in 1..Len(arc), updateItems' = Others(i)
      PROVE  AllFit(updateItems')
  <2>1. ASSUME NEW j \in 1..(Len(arc) - 1) PROVE ItemFits(Kept(IF j < i THEN j ELSE j + 1))
    <3>1. (IF j < i THEN j ELSE j + 1) \in 1..Len(arc)
      BY <1>1
    <3> HIDE DEF Kept
    <3> QED BY <1>2, <3>1
  <2>2. /\ DOMAIN updateItems' = 1..(Len(arc) - 1) /\ Len(updateItems') = Len(arc) - 1
        /\ Len(arc) - 1 \in Nat
    <3> HIDE DEF Kept
    <3> QED BY <1>1, <1>8
  <2>3. \A j \in 1..(Len(arc) - 1) : updateItems'[j] = Kept(IF j < i THEN j ELSE j + 1)
    <3> HIDE DEF Kept
    <3> QED BY <1>8
  <2> HIDE DEF Kept
  <2> QED BY <2>1, <2>2, <2>3 DEF AllFit
<1> QED BY <1>3, <1>6, <1>7, <1>8

LEMMA BeginFits ==
  ASSUME IInv, Begin
  PROVE  IInv'
<1>1. /\ result # "busy" /\ result' = "busy" /\ updates' = updates + 1 /\ updates < MaxUpdates
      /\ arc' = arc /\ itemIndex' = itemIndex /\ curPos' = curPos /\ items' = items
  BY DEF Begin
<1>2. TypeOK /\ updateItems = <<>> /\ itemIndex = 1
  BY <1>1 DEF IInv, CommandFits, TypeOK
<1>3. opt' \in Options /\ AllFit(updateItems')
  BY <1>2, HeadersFit, FilesFit DEF Begin
<1>4. TypeOK'
  <2>1. Len(updateItems') \in Nat
    BY <1>3 DEF AllFit
  <2>2. itemIndex' \in 1..(Len(updateItems') + 1)
    BY <1>1, <1>2, <2>1
  <2>3. updates' \in 0..MaxUpdates
    BY <1>1, <1>2, InputsAssumption DEF TypeOK
  <2> QED BY <1>1, <1>2, <2>2, <2>3 DEF TypeOK
<1>5. CommandFits'
  BY <1>1, <1>3, InputsAssumption DEF CommandFits, AllFit, ItemFits
<1>6. AllTraced'
  BY <1>1 DEF IInv, AllTraced, Traced
<1>7. AllFound'
  <2>1. Found(items, curPos)
    BY DEF IInv, AllFound
  <2> QED BY <1>1, <2>1 DEF AllFound
<1> QED BY <1>4, <1>5, <1>6, <1>7 DEF IInv

-----------------------------------------------------------------------------
(* The invariant holds.                                                    *)

(* A header RewriteHeader or AddFile writes: both places have the field    *)
(* of AES, and the central one is at most 36 bytes longer.                 *)
LEMMA NewIsTraced ==
  ASSUME opt \in OptionType, NEW p \in PropsType, NEW x \in ExtraType, NEW h \in BOOLEAN,
         NEW a \in BOOLEAN, NEW w \in EntryType, w.enc = "aes" => a,
         w.local = NewExtra(p, x, h, a, TRUE), w.central = NewExtra(p, x, h, a, FALSE)
  PROVE  Traced(w) /\ (w.enc = "aes" => w.central.aes)
<1>1. ExtraLen(w.central) <= ExtraLen(w.local) + 36
  BY NewExtraLen
<1>2. (w.local.aes <=> a) /\ (w.central.aes <=> a)
  BY DEF NewExtra
<1> QED BY <1>1, <1>2 DEF Traced

LEMMA SourceIsTraced ==
  ASSUME opt \in OptionType, Source \in EntryType, Traced(Source),
         NEW w \in EntryType, FromSource(w)
  PROVE  Traced(w) /\ (w.enc = "aes" => w.central.aes)
<1> DEFINE p == PropsOfEntry(Source)
           s == Source
<1>1. /\ p \in PropsType /\ s.local \in ExtraType /\ s.unixHost \in BOOLEAN
  BY PropsTyped, EntryParts
<1>2. s.local.aes \in BOOLEAN
  BY <1>1 DEF ExtraType
<1>3. /\ w.local = NewExtra(p, s.local, s.unixHost, s.local.aes, TRUE)
      /\ w.central = NewExtra(p, s.local, s.unixHost, s.local.aes, FALSE)
      /\ w.enc = "aes" => s.local.aes
  BY DEF FromSource, Traced
<1> HIDE DEF p, s
<1> QED BY <1>1, <1>2, <1>3, NewIsTraced

LEMMA FileIsTraced ==
  ASSUME opt \in OptionType, ui.file \in FileType, OldFields \in ExtraType,
         NEW w \in EntryType, FromFile(w)
  PROVE  Traced(w) /\ (w.enc = "aes" => w.central.aes)
<1> DEFINE p == PropsOfFile(ui.file)
           a == Encryption(ui.file) = "aes"
<1>1. p \in PropsType /\ a \in BOOLEAN
  BY PropsTyped
<1>2. /\ w.local = NewExtra(p, OldFields, TRUE, a, TRUE)
      /\ w.central = NewExtra(p, OldFields, TRUE, a, FALSE)
      /\ w.enc = "aes" => a
  BY DEF FromFile
<1> HIDE DEF p, a
<1> QED BY <1>1, <1>2, NewIsTraced

LEMMA InitFits == Init => IInv
<1> SUFFICES ASSUME Init PROVE IInv
  OBVIOUS
<1>1. /\ arc \in Archives /\ updateItems = <<>> /\ itemIndex = 1 /\ curPos = 0
      /\ items = <<>> /\ result = "none" /\ updates = 0
  BY DEF Init
<1>2. /\ arc \in Seq(EntryType) /\ \A i \in DOMAIN arc : arc[i].enc = "aes" => arc[i].local.aes
  BY <1>1, InputsAssumption
<1>3. TypeOK
  BY <1>1, <1>2, InputsAssumption DEF TypeOK
<1>4. CommandFits
  BY <1>1 DEF CommandFits
<1>5. AllTraced
  <2>1. \A i \in DOMAIN arc : arc[i].central \in Foreign
    BY <1>1 DEF Foreign
  <2> QED BY <1>1, <1>2, <2>1 DEF AllTraced, Traced
<1>6. AllFound
  BY <1>1 DEF AllFound, Found
<1> QED BY <1>3, <1>4, <1>5, <1>6 DEF IInv

LEMMA StepFits == IInv /\ [Next]_vars => IInv'
<1> SUFFICES ASSUME IInv, [Next]_vars PROVE IInv'
  OBVIOUS
<1>1. CASE Begin
  BY <1>1, BeginFits
<1>2. CASE Refuse
  BY <1>2, ReturnFits DEF Refuse
<1>3. CASE CopyEntry
  <2>1. PICK w \in EntryType :
          /\ AddItem(w) /\ curPos' = curPos + RealSize(w)
          /\ w.pos = curPos /\ (IsReadable(w) \/ IsCut(w)) /\ SameFields(w, Source)
    BY <1>3, Copied
  <2>2. Busy /\ Traced(Source)
    BY <1>3, Copied
  <2>3. Traced(w)
    BY <2>1, <2>2 DEF Traced, SameFields
  <2> QED BY <2>1, <2>2, <2>3, AddedFits
<1>4. CASE RewriteHeader
  <2>1. CASE Return("E_FAIL", arc)
    BY <2>1, ReturnFits
  <2>2. ASSUME NEW w \in EntryType, AddItem(w), curPos' = curPos + RealSize(w),
               w.pos = curPos, IsReadable(w), FromSource(w)
        PROVE  IInv'
    <3>1. Busy /\ Source \in EntryType /\ Traced(Source) /\ opt \in OptionType
      BY <1>4, Rewritten
    <3> QED BY <2>2, <3>1, SourceIsTraced, AddedFits
  <2> QED BY <1>4, <2>1, <2>2, Rewritten
<1>5. CASE AddFile
  <2>1. CASE Return("E_FAIL", arc)
    BY <2>1, ReturnFits
  <2>2. ASSUME NEW w \in EntryType, AddItem(w), curPos' = curPos + RealSize(w),
               w.pos = curPos, IsReadable(w), FromFile(w)
        PROVE  IInv'
    <3>1. Busy /\ ui.file \in FileType /\ opt \in OptionType
      BY <1>5, FileAdded
    <3>2. OldFields \in ExtraType
      BY <3>1, UiFits, OldFieldsTyped
    <3> QED BY <2>2, <3>1, <3>2, FileIsTraced, AddedFits
  <2> QED BY <1>5, <2>1, <2>2, FileAdded
<1>6. CASE SkipFile
  <2>1. /\ itemIndex' = itemIndex + 1 /\ arc' = arc /\ opt' = opt /\ updateItems' = updateItems
        /\ curPos' = curPos /\ items' = items /\ result' = result /\ updates' = updates
        /\ itemIndex \in 1..Len(updateItems) /\ result = "busy"
    BY <1>6, UiFits DEF SkipFile
  <2>2. TypeOK'
    BY <2>1 DEF IInv, TypeOK
  <2>3. CommandFits' /\ AllTraced'
    BY <2>1 DEF IInv, CommandFits, ItemFits, AllTraced, Traced
  <2>4. AllFound'
    <3>1. Found(items, curPos)
      BY DEF IInv, AllFound
    <3> QED BY <2>1, <3>1 DEF AllFound
  <2> QED BY <2>2, <2>3, <2>4 DEF IInv
<1>7. CASE WriteCentralDir
  BY <1>7, LastFits
<1>8. CASE UNCHANGED vars
  BY <1>8 DEF vars, IInv, TypeOK, CommandFits, ItemFits, AllTraced, Traced, AllFound, Found,
              IsReadable, IsCut, RealSize, HeaderLen, DescriptorLen
<1> QED BY <1>1, <1>2, <1>3, <1>4, <1>5, <1>6, <1>7, <1>8 DEF Next, Done

LEMMA Invariant == Spec => []IInv
BY InitFits, StepFits, PTL DEF Spec

(* ReadsBack: whatever commands were given, an archive that was written    *)
(* has its entries where the central directory says, in their order and    *)
(* without overlap, with headers and descriptors that lead to the data,    *)
(* and a central extra field that fits 16 bits if the local one left room  *)
(* for times and 64-bit sizes.                                             *)
THEOREM EntriesReadBack == Spec => []ReadsBack
<1>1. IInv => ReadsBack
  <2> SUFFICES ASSUME IInv, result = "S_OK", NEW i \in 1..Len(arc)
               PROVE  LET e == arc[i] IN
                      /\ IsReadable(e) \/ IsCut(e)
                      /\ i < Len(arc) => e.pos + RealSize(e) <= arc[i + 1].pos
                      /\ \/ CentralExtraLen(e) < Big16 \/ ExtraLen(e.local) + 64 >= Big16
                         \/ e.central \in Foreign
    BY DEF IInv, ReadsBack
  <2>1. i \in DOMAIN arc /\ arc[i] \in EntryType
    BY DEF IInv, TypeOK
  <2>2. PICK end \in Nat : Found(arc, end)
    BY DEF IInv, AllFound
  <2>3. Traced(arc[i])
    BY <2>1 DEF IInv, AllTraced
  <2>4. \/ CentralExtraLen(arc[i]) < Big16 \/ ExtraLen(arc[i].local) + 64 >= Big16
        \/ arc[i].central \in Foreign
    <3> DEFINE c == CentralExtraLen(arc[i])
               x == ExtraLen(arc[i].central)
               y == ExtraLen(arc[i].local)
    <3>1. c \in Nat /\ x \in Nat /\ y \in Nat /\ c <= x + 28 /\ Big16 \in Nat
      BY <2>1, Lens, LimitsAssumption
    <3>2. x <= y + 36 \/ arc[i].central \in Foreign
      BY <2>3 DEF Traced
    <3> HIDE DEF c, x, y
    <3>3. c < Big16 \/ y + 64 >= Big16 \/ arc[i].central \in Foreign
      BY <3>1, <3>2
    <3> QED BY <3>3 DEF c, y
  <2> QED BY <2>1, <2>2, <2>4 DEF Found
<1> QED BY <1>1, Invariant, PTL

(* FailsOnlyIfTooLarge: the space WriteLocalHeader finds before the data   *)
(* is that of the header it writes there, so an update fails only if a     *)
(* file outgrew 32 bits while it was read, or if no header could hold the  *)
(* fields of the old one.                                                  *)
THEOREM FailsIfTooLarge == Spec => FailsOnlyIfTooLarge
<1> DEFINE Excused ==
      \/ /\ ui.newData /\ ui.file.size < Soon32
         /\ ui.file.readSize + AddedByCrypto("aes") >= Big32
      \/ ui.indexInArc # 0
         /\ LengthOf(Source.local.others) + 20 + UnixLen(3) + OwnerLen + AesLen >= Big16
<1>1. ASSUME IInv, [Next]_vars, result # "E_FAIL", result' = "E_FAIL" PROVE Excused
  <2>1. CASE RewriteHeader \/ AddFile
    <3>1. \A w : ~AddItem(w)
      BY <1>1 DEF AddItem
    <3>2. /\ RewriteHeader => ui.indexInArc # 0 /\ Source \in EntryType
          /\ AddFile => (ui.indexInArc # 0 => Source \in EntryType)
      BY <1>1, Rewritten, FileAdded, UiFits
    <3>3. ASSUME ui.indexInArc # 0, Source \in EntryType, 20 + MostExtra(Source.local) >= Big16
          PROVE  Excused
      <4>1. Source.local \in ExtraType
        BY <3>3, EntryParts
      <4>2. LengthOf(Source.local.others) \in Nat
        BY <4>1, LengthNat DEF ExtraType, IDs
      <4> QED BY <3>3, <4>2, LimitsAssumption DEF MostExtra, UnixLen, OwnerLen, AesLen
    <3>4. CASE RewriteHeader
      BY <1>1, <3>1, <3>2, <3>3, <3>4, Rewritten
    <3>5. CASE AddFile
      <4>1. \/ /\ ui.newData /\ ui.file.size < Soon32
               /\ ui.file.readSize + AddedByCrypto("aes") >= Big32
            \/ ui.indexInArc # 0 /\ 20 + MostExtra(Source.local) >= Big16
        BY <1>1, <3>1, <3>5, FileAdded
      <4> QED BY <3>2, <3>3, <3>5, <4>1
    <3> QED BY <2>1, <3>4, <3>5
  <2>2. CASE Begin \/ Refuse \/ CopyEntry \/ SkipFile \/ WriteCentralDir \/ Done \/ UNCHANGED vars
    BY <1>1, <2>2 DEF Begin, Refuse, Return, CopyEntry, AddItem, SkipFile, WriteCentralDir,
                      Done, vars
  <2> QED BY <1>1, <2>1, <2>2 DEF Next
<1>2. IInv /\ [Next]_vars => [result # "E_FAIL" /\ result' = "E_FAIL" => Excused]_vars
  BY <1>1
<1> QED BY <1>2, Invariant, PTL DEF Spec, FailsOnlyIfTooLarge

-----------------------------------------------------------------------------
(* The entries an update writes.                                           *)

LEMMA WritesOne ==
  ASSUME IInv, NEW w \in EntryType, AddItem(w)
  PROVE  Writes /\ Written = w
<1>1. items \in Seq(EntryType) /\ Len(items) \in Nat /\ items' = Append(items, w)
  BY DEF IInv, TypeOK, AddItem
<1> QED BY <1>1 DEF Writes, Written

LEMMA WritesHow ==
  ASSUME IInv, [Next]_vars, Writes
  PROVE  \/ CopyEntry
         \/ RewriteHeader /\ FromSource(Written) /\ Written \in EntryType
         \/ AddFile /\ FromFile(Written) /\ Written \in EntryType
<1>1. Len(items) \in Nat /\ Len(<<>>) = 0
  BY DEF IInv, TypeOK
<1>2. ASSUME NEW r, NEW a, Return(r, a) PROVE FALSE
  BY <1>1, <1>2 DEF Return, Writes
<1>3. CASE RewriteHeader
  <2>1. PICK w \in EntryType : AddItem(w) /\ FromSource(w)
    BY <1>2, <1>3, Rewritten
  <2>2. Written = w
    BY <2>1, WritesOne
  <2> QED BY <1>3, <2>1, <2>2
<1>4. CASE AddFile
  <2>1. PICK w \in EntryType : AddItem(w) /\ FromFile(w)
    BY <1>2, <1>4, FileAdded
  <2>2. Written = w
    BY <2>1, WritesOne
  <2> QED BY <1>4, <2>1, <2>2
<1>5. CASE Refuse \/ WriteCentralDir
  BY <1>2, <1>5 DEF Refuse, WriteCentralDir
<1>6. CASE Begin \/ SkipFile \/ Done \/ UNCHANGED vars
  <2>1. items' = items
    BY <1>6 DEF Begin, SkipFile, Done, vars
  <2> QED BY <1>1, <2>1 DEF Writes
<1> QED BY <1>3, <1>4, <1>5, <1>6 DEF Next

LEMMA EncryptionIs == Encryption(ui.file) \in {"none", "aes", "zip"}
BY DEF Encryption

(* StaysOpen: an entry that could be opened with its password is opened    *)
(* with it after it was copied or got a new header, and so is a file that  *)
(* was encrypted, but for the cases StaysOpen names, where the check byte  *)
(* or the field of the strong encryption no longer fits.                   *)
THEOREM OpensAgain == Spec => StaysOpen
<1> DEFINE Excused ==
      \/ Opens(Written)
      \/ ui.newData /\ Written.enc = "zip" /\ opt.dd
      \/ ~ui.newData /\ \/ ~Opens(Source)
                        \/ ui.newProps /\ Written.enc = "zip" /\ (Source.desc \/ opt.dd)
                        \/ ui.newProps /\ Written.enc = "strong"
<1>1. ASSUME IInv, [Next]_vars, Writes PROVE Excused
  <2>1. CASE CopyEntry
    <3>1. PICK w \in EntryType : AddItem(w) /\ SameFields(w, Source)
      BY <1>1, <2>1, Copied
    <3>2. Written = w /\ ~ui.newData
      BY <1>1, <2>1, <3>1, Copied, WritesOne
    <3>3. Opens(Source) => Opens(w)
      BY <3>1, EntryParts, Copied, <1>1, <2>1 DEF Opens, SameFields
    <3> QED BY <3>2, <3>3
  <2>2. CASE RewriteHeader /\ FromSource(Written) /\ Written \in EntryType
    <3>1. ~ui.newData /\ ui.newProps /\ Source \in EntryType /\ Traced(Source) /\ opt \in OptionType
      BY <1>1, <2>2, Rewritten
    <3>2. Written.enc = "aes" => Written.central.aes
      BY <2>2, <3>1, SourceIsTraced
    <3>3. Written.enc = "none" \/ Written.enc = "aes" => Opens(Written)
      BY <3>2 DEF Opens
    <3>4. ASSUME Written.enc = "zip", ~Source.desc, ~opt.dd, Opens(Source) PROVE Opens(Written)
      <4>1. Source.enc = "zip" /\ Written.check = Source.check /\ ~Written.desc
        BY <2>2, <3>4 DEF FromSource
      <4>2. Source.check = ByCrc
        BY <3>4, <4>1 DEF Opens
      <4> QED BY <3>4, <4>1, <4>2 DEF Opens
    <3>5. Written.enc \in {"none", "zip", "aes", "strong"}
      BY <2>2, EntryParts
    <3> QED BY <3>1, <3>3, <3>4, <3>5
  <2>3. CASE AddFile /\ FromFile(Written) /\ Written \in EntryType
    <3>1. /\ Busy /\ ui.newData /\ ui.file \in FileType /\ opt \in OptionType
      BY <1>1, <2>3, FileAdded
    <3>2. OldFields \in ExtraType
      BY <1>1, <3>1, UiFits, OldFieldsTyped
    <3>3. Written.enc = "aes" => Written.central.aes
      BY <2>3, <3>1, <3>2, FileIsTraced
    <3>4. Written.enc = "none" \/ Written.enc = "aes" => Opens(Written)
      BY <3>3 DEF Opens
    <3>5. Written.enc = "zip" /\ ~opt.dd => Opens(Written)
      BY <2>3 DEF Opens, FromFile
    <3>6. Written.enc \in {"none", "zip", "aes"}
      BY <2>3, EncryptionIs DEF FromFile
    <3> QED BY <3>1, <3>4, <3>5, <3>6
  <2> QED BY <1>1, <2>1, <2>2, <2>3, WritesHow
<1>2. IInv /\ [Next]_vars => [Writes => Excused]_vars
  BY <1>1
<1> QED BY <1>2, Invariant, PTL DEF Spec, StaysOpen

-----------------------------------------------------------------------------
(* The times of a header that is written anew.                             *)

Wanted(s, i) == IF opt.set[i] # 0 THEN opt.set[i] ELSE TimeOf(s, i)

LEMMA TimeTypes ==
  ASSUME NEW e
  PROVE  /\ TimeType(e) \in {"ntfs", "unix", "dos"}
         /\ TimeType(e) = "dos" => \A i \in {A, C} : TimeOf(e, i) = 0
BY DEF TimeType, TimeOf, M, A, C

(* The first times a field flags are the first it stores.                  *)
LEMMA Ranks ==
  ASSUME NEW S \in SUBSET Moments, M \in S
  PROVE  /\ Cardinality({j \in S : j <= M}) = 1 /\ Cardinality(S) >= 1
         /\ A \in S => Cardinality({j \in S : j <= A}) = 2 /\ Cardinality(S) >= 2
         /\ A \in S /\ C \in S => Cardinality({j \in S : j <= C}) = 3 /\ Cardinality(S) = 3
<1>1. {j \in S : j <= M} = {1}
  <2>1. \A j \in S : j <= M <=> j = 1
    BY DEF Moments, M, A, C
  <2>2. 1 \in S
    BY DEF M
  <2> QED BY <2>1, <2>2
<1>2. S = {1} \/ S = {1, 2} \/ S = {1, 3} \/ S = {1, 2, 3}
  BY DEF Moments, M, A, C
<1>3. A \in S => {j \in S : j <= A} = {1, 2} /\ S \in {{1, 2}, {1, 2, 3}}
  BY <1>2 DEF Moments, M, A, C
<1>4. A \in S /\ C \in S => {j \in S : j <= C} = {1, 2, 3} /\ S = {1, 2, 3}
  BY <1>2 DEF Moments, M, A, C
<1>5. Cardinality(S) \in {1, 2, 3}
  BY <1>2, SetsOfTimes
<1>6. Cardinality(S) >= 1
  BY <1>5
<1>7. ASSUME A \in S PROVE Cardinality({j \in S : j <= A}) = 2 /\ Cardinality(S) >= 2
  <2>1. Cardinality(S) \in {2, 3}
    BY <1>3, <1>7, SetsOfTimes
  <2>2. Cardinality(S) >= 2
    BY <2>1
  <2> QED BY <1>3, <1>7, <2>2, SetsOfTimes, Zenon
<1> QED BY <1>1, <1>4, <1>6, <1>7, SetsOfTimes, Zenon

LEMMA FieldTimes ==
  ASSUME NEW t \in [1..3 -> Nat], NEW S \in SUBSET Moments, M \in S
  PROVE  /\ UnixTime(UnixField(t, S, FALSE), M) = UnixOf(t[M])
         /\ A \in S => /\ UnixTime(UnixField(t, S, FALSE), A) = -1
                       /\ UnixTime(UnixField(t, S, TRUE), A) = UnixOf(t[A])
         /\ A \in S /\ C \in S => /\ UnixTime(UnixField(t, S, FALSE), C) = -1
                                  /\ UnixTime(UnixField(t, S, TRUE), C) = UnixOf(t[C])
<1>1. ASSUME NEW b \in BOOLEAN, NEW i \in S, NEW k \in Nat, k = Cardinality({j \in S : j <= i}),
             k = i
      PROVE  UnixTime(UnixField(t, S, b), i) =
               IF i <= (IF b THEN Cardinality(S) ELSE 1) THEN UnixOf(t[i]) ELSE -1
  <2> DEFINE u == UnixField(t, S, b)
  <2>1. /\ u.flags = S /\ Len(u.slots) = (IF b THEN Cardinality(S) ELSE 1)
        /\ \A j \in 1..Len(u.slots) :
             u.slots[j] = IF j \in S THEN UnixOf(t[j]) ELSE NoEpoch
    <3> DEFINE n == IF b THEN Cardinality(S) ELSE 1
    <3>1. n \in 0..3
      BY CountOfTimes
    <3>2. u = [flags |-> S, slots |-> [j \in 1..n |-> IF j \in S THEN UnixOf(t[j]) ELSE NoEpoch]]
      BY DEF UnixField
    <3> HIDE DEF n, u
    <3>3. /\ u.flags = S /\ Len(u.slots) = n
          /\ \A j \in 1..Len(u.slots) :
               u.slots[j] = IF j \in S THEN UnixOf(t[j]) ELSE NoEpoch
      BY <3>1, <3>2
    <3> QED BY <3>3 DEF n
  <2>2. Len(u.slots) \in Nat /\ i \in 1..3
    BY <2>1, CountOfTimes DEF Moments, M, A, C
  <2> HIDE DEF u
  <2>3. UnixTime(u, i) = IF i <= Len(u.slots) THEN u.slots[i] ELSE -1
    BY <1>1, <2>1 DEF UnixTime
  <2>4. i <= Len(u.slots) => u.slots[i] = UnixOf(t[i])
    BY <2>1, <2>2
  <2>5. UnixTime(u, i) = IF i <= (IF b THEN Cardinality(S) ELSE 1) THEN UnixOf(t[i]) ELSE -1
    BY <2>1, <2>3, <2>4
  <2> QED BY <2>5 DEF u
<1>2. Cardinality(S) \in 0..3
  BY CountOfTimes
<1>3. UnixTime(UnixField(t, S, FALSE), M) = UnixOf(t[M])
  <2>1. M = 1 /\ M \in Nat /\ M <= 1
    BY DEF M
  <2>2. Cardinality({j \in S : j <= M}) = M
    BY <2>1, Ranks
  <2> QED BY <1>1, <2>1, <2>2
<1>4. ASSUME A \in S
      PROVE  /\ UnixTime(UnixField(t, S, FALSE), A) = -1
             /\ UnixTime(UnixField(t, S, TRUE), A) = UnixOf(t[A])
  <2>1. A = 2 /\ A \in Nat /\ ~(A <= 1)
    BY DEF A
  <2>2. Cardinality({j \in S : j <= A}) = A
    BY <1>4, <2>1, Ranks
  <2>3. A <= Cardinality(S)
    BY <1>2, <1>4, <2>1, Ranks
  <2> QED BY <1>1, <1>4, <2>1, <2>2, <2>3
<1>5. ASSUME A \in S, C \in S
      PROVE  /\ UnixTime(UnixField(t, S, FALSE), C) = -1
             /\ UnixTime(UnixField(t, S, TRUE), C) = UnixOf(t[C])
  <2>1. C = 3 /\ C \in Nat /\ ~(C <= 1)
    BY DEF C
  <2>2. Cardinality({j \in S : j <= C}) = C
    BY <1>5, <2>1, Ranks
  <2>3. Cardinality(S) = C
    BY <1>5, <2>1, Ranks
  <2>4. C <= Cardinality(S)
    BY <2>1, <2>3
  <2> QED BY <1>1, <1>5, <2>1, <2>2, <2>4
<1> QED BY <1>3, <1>4, <1>5

(* Without -tfm only times that are not defined are filled in.             *)
LEMMA DefinedTimesStay ==
  ASSUME opt \in OptionType, ~opt.tfm, NEW s \in EntryType, NEW i \in 1..3,
         TimeOf(s, i) # 0
  PROVE  AdjustedTimes(PropsOfEntry(s))[i] = Wanted(s, i)
<1> DEFINE p == PropsOfEntry(s)
           t == [j \in 1..3 |-> IF opt.set[j] # 0 THEN opt.set[j] ELSE p.times[j]]
           F == IF p.ntfs THEN {} ELSE IF StoresNtfs(p) THEN {A, C} \ p.unix ELSE {A} \ p.unix
<1>1. /\ p.times[i] = TimeOf(s, i) /\ (p.ntfs <=> TimeType(s) = "ntfs")
      /\ p.unix = IF TimeType(s) = "unix" THEN {M} \cup {j \in {A, C} : TimeOf(s, j) # 0} ELSE {}
  BY DEF PropsOfEntry, TimesOf
<1>2. AdjustedTimes(p) = t \/ AdjustedTimes(p) = [j \in 1..3 |-> IF j \in F THEN t[M] ELSE t[j]]
  <2>1. AdjustedTimes(p) = IF StoresNtfs(p) \/ StoredUnix(p) # {}
                           THEN [j \in 1..3 |-> IF j \in F THEN t[M] ELSE t[j]] ELSE t
    BY DEF AdjustedTimes
  <2> QED BY <2>1
<1>3. i \notin F
  <2>1. ASSUME i \in {A, C}, ~p.ntfs PROVE i \in p.unix
    BY <1>1, <2>1, TimeTypes
  <2>2. i = 1 => i \notin {A, C}
    BY DEF A, C
  <2>3. i = 1 \/ i \in {A, C}
    BY DEF A, C
  <2> HIDE DEF p
  <2> QED BY <2>1, <2>2, <2>3
<1>4. t[i] = Wanted(s, i)
  BY <1>1 DEF Wanted
<1> HIDE DEF t, F
<1>5. AdjustedTimes(p)[i] = t[i]
  BY <1>2, <1>3
<1> QED BY <1>4, <1>5

(* FieldsStay, for the times of each of the three formats.                 *)
LEMMA NtfsStay ==
  ASSUME opt \in OptionType, ~opt.tfm, NEW s \in EntryType, NEW w \in EntryType,
         w.central.ntfs = AdjustedTimes(PropsOfEntry(s)),
         NEW i \in 1..3, TimeOf(s, i) # 0
  PROVE  TimeOf(w, i) = Wanted(s, i)
<1>1. AdjustedTimes(PropsOfEntry(s)) \in [1..3 -> Nat]
  BY PropsTyped, StoredTyped
<1>2. w.central.ntfs # <<>>
  BY <1>1, NotEmpty
<1>3. TimeType(w) = "ntfs" /\ TimeOf(w, i) = w.central.ntfs[i]
  BY <1>2 DEF TimeType, TimeOf
<1> QED BY <1>3, DefinedTimesStay

LEMMA UnixStay ==
  ASSUME opt \in OptionType, ~opt.tfm, NEW s \in EntryType, NEW w \in EntryType,
         NEW S \in SUBSET Moments, M \in S, IsReadable(w), w.central.ntfs = <<>>,
         w.local.unix = UnixField(AdjustedTimes(PropsOfEntry(s)), S, TRUE),
         w.central.unix = UnixField(AdjustedTimes(PropsOfEntry(s)), S, FALSE),
         NEW i \in S, TimeOf(s, i) # 0, i = C => A \in S
  PROVE  TimeOf(w, i) = OfUnix(UnixOf(Wanted(s, i)))
<1> DEFINE t == AdjustedTimes(PropsOfEntry(s))
<1>1. t \in [1..3 -> Nat]
  BY PropsTyped, StoredTyped
<1>2. i \in 1..3
  BY DEF Moments, M, A, C
<1>3. t[i] = Wanted(s, i)
  BY <1>2, DefinedTimesStay
<1> HIDE DEF t
<1>4. /\ UnixTime(w.central.unix, M) = UnixOf(t[M])
      /\ A \in S => /\ UnixTime(w.central.unix, A) = -1
                    /\ UnixTime(w.local.unix, A) = UnixOf(t[A])
      /\ A \in S /\ C \in S => /\ UnixTime(w.central.unix, C) = -1
                               /\ UnixTime(w.local.unix, C) = UnixOf(t[C])
  BY <1>1, FieldTimes DEF t
<1>5. \A j \in 1..3 : UnixOf(t[j]) \in Nat
  BY <1>1, DosNat
<1>6. TimeType(w) = "unix"
  <2>1. UnixOf(t[M]) \in Nat
    BY <1>5 DEF M
  <2> DEFINE n == UnixOf(t[M])
  <2>2. UnixTime(w.central.unix, M) = n
    BY <1>4
  <2> HIDE DEF n
  <2>3. n >= 0
    BY <2>1 DEF n
  <2> QED BY <2>2, <2>3 DEF TimeType, HasUnixTime
<1>7. TimeOf(w, i) = UnixTimeOf(w, i)
  BY <1>6 DEF TimeOf
<1>8. i \in w.central.unix.flags
  <2>1. w.central.unix = UnixField(t, S, FALSE)
    BY DEF t
  <2>2. UnixField(t, S, FALSE).flags = S
    BY <1>1, UnixFieldTyped
  <2> QED BY <2>1, <2>2
<1>9. /\ UnixTime(w.central.unix, i) \in {UnixOf(t[i]), -1}
      /\ UnixTime(w.central.unix, i) = -1 => UnixTime(w.local.unix, i) = UnixOf(t[i])
  <2>1. CASE i = M
    <3>1. UnixOf(t[i]) # -1
      BY <1>2, <1>5
    <3> QED BY <1>4, <2>1, <3>1
  <2>2. CASE i = A
    BY <1>4, <2>2
  <2>3. CASE i = C
    BY <1>4, <2>3
  <2> QED BY <2>1, <2>2, <2>3 DEF Moments
<1>10. UnixTimeOf(w, i) = OfUnix(UnixOf(t[i]))
  <2>1. UnixOf(t[i]) \in Nat
    BY <1>2, <1>5
  <2> DEFINE central == UnixTime(w.central.unix, i)
             local == IF IsReadable(w) THEN UnixTime(w.local.unix, i) ELSE -1
             found == IF central >= 0 THEN central ELSE local
  <2>2. central \in {UnixOf(t[i]), -1} /\ (central = -1 => local = UnixOf(t[i]))
    BY <1>9
  <2>3. UnixTimeOf(w, i) = IF i \in w.central.unix.flags /\ found >= 0 THEN OfUnix(found) ELSE 0
    BY DEF UnixTimeOf
  <2> HIDE DEF central, local
  <2>4. found = UnixOf(t[i])
    BY <2>1, <2>2
  <2> HIDE DEF found
  <2>5. found >= 0
    BY <2>1, <2>4
  <2> QED BY <1>8, <2>3, <2>4, <2>5
<1> QED BY <1>3, <1>7, <1>10

LEMMA DosStay ==
  ASSUME opt \in OptionType, ~opt.tfm, NEW s \in EntryType, NEW w \in EntryType,
         w.central.ntfs = <<>>, w.central.unix = NoUnix,
         w.dos = DosOf(AdjustedTimes(PropsOfEntry(s))[M]), TimeOf(s, M) # 0
  PROVE  TimeOf(w, M) = OfDos(DosOf(Wanted(s, M)))
<1>1. AdjustedTimes(PropsOfEntry(s)) \in [1..3 -> Nat] /\ M \in 1..3
  BY PropsTyped, StoredTyped DEF M
<1>2. AdjustedTimes(PropsOfEntry(s))[M] = Wanted(s, M)
  BY <1>1, DefinedTimesStay
<1>3. w.dos # 0
  BY <1>1, DosNat
<1>4. ~HasUnixTime(w.central.unix)
  BY DEF HasUnixTime, UnixTime, NoUnix
<1>5. TimeType(w) = "dos"
  BY <1>4 DEF TimeType
<1> QED BY <1>2, <1>3, <1>5 DEF TimeOf

(* The format of the times of a new header, and the times it has in it.    *)
NewType(s) == IF opt.time = "default" THEN TimeType(s) ELSE opt.time
KeptIn(s) == IF opt.time = "default" THEN {M, A, C} ELSE Stored(NewType(s))
AfterGap(s, i) ==
  TimeType(s) = "unix" /\ TimeOf(s, A) = 0 /\ i = C /\ NewType(s) = "unix"

(* Which fields a header gets, and for which times.                        *)
LEMMA FormatOf ==
  ASSUME opt \in OptionType, opt.time # "zero", NEW s \in EntryType, NEW type,
         type = (IF opt.time = "default" THEN TimeType(s) ELSE opt.time)
  PROVE  /\ type \in {"ntfs", "unix", "dos"}
         /\ StoresNtfs(PropsOfEntry(s)) <=> type = "ntfs"
         /\ StoredUnix(PropsOfEntry(s)) =
              IF type # "unix" THEN {}
              ELSE IF opt.time = "default" THEN {M} \cup {i \in {A, C} : TimeOf(s, i) # 0}
              ELSE {M, A}
<1>1. opt.time \in {"default", "ntfs", "unix", "dos"}
  BY DEF OptionType
<1>2. /\ PropsOfEntry(s).ntfs <=> TimeType(s) = "ntfs"
      /\ PropsOfEntry(s).unix =
           IF TimeType(s) = "unix" THEN {M} \cup {i \in {A, C} : TimeOf(s, i) # 0} ELSE {}
  BY DEF PropsOfEntry
<1>3. type \in {"ntfs", "unix", "dos"}
  BY <1>1, TimeTypes
<1>4. StoresNtfs(PropsOfEntry(s)) <=> type = "ntfs"
  BY <1>1, <1>2 DEF StoresNtfs
<1>5. StoredUnix(PropsOfEntry(s)) =
        IF type # "unix" THEN {}
        ELSE IF opt.time = "default" THEN {M} \cup {i \in {A, C} : TimeOf(s, i) # 0}
        ELSE {M, A}
  BY <1>1, <1>2 DEF StoredUnix
<1> QED BY <1>3, <1>4, <1>5

LEMMA TimesStay ==
  ASSUME opt \in OptionType, ~opt.tfm, opt.time # "zero", NEW s \in EntryType,
         NEW w \in EntryType, IsReadable(w), NEW x \in ExtraType, NEW h \in BOOLEAN,
         NEW a \in BOOLEAN,
         w.dos = DosOf(AdjustedTimes(PropsOfEntry(s))[M]),
         w.local = NewExtra(PropsOfEntry(s), x, h, a, TRUE),
         w.central = NewExtra(PropsOfEntry(s), x, h, a, FALSE),
         NEW i \in KeptIn(s), TimeOf(s, i) # 0, ~AfterGap(s, i)
  PROVE  TimeOf(w, i) = Rounded(NewType(s), Wanted(s, i))
<1> DEFINE p == PropsOfEntry(s)
           S == StoredUnix(p)
           t == AdjustedTimes(p)
           type == NewType(s)
<1>1. /\ type \in {"ntfs", "unix", "dos"} /\ (StoresNtfs(p) <=> type = "ntfs")
      /\ S = IF type # "unix" THEN {}
             ELSE IF opt.time = "default" THEN {M} \cup {j \in {A, C} : TimeOf(s, j) # 0}
             ELSE {M, A}
  BY FormatOf DEF NewType
<1>8. /\ i \in IF opt.time = "default" THEN {M, A, C} ELSE Stored(type)
      /\ ~(TimeType(s) = "unix" /\ TimeOf(s, A) = 0 /\ i = C /\ type = "unix")
  BY DEF KeptIn, AfterGap
<1> HIDE DEF type
<1>2. /\ w.central.ntfs = IF StoresNtfs(p) THEN t ELSE <<>>
      /\ w.central.unix = IF S = {} THEN NoUnix ELSE UnixField(t, S, FALSE)
      /\ w.local.unix = IF S = {} THEN NoUnix ELSE UnixField(t, S, TRUE)
  BY DEF NewExtra
<1>3. i \in {M, A, C}
  BY <1>1, <1>8 DEF Stored
<1>4. i \in 1..3
  BY <1>3 DEF M, A, C
<1> HIDE DEF S
<1>5. CASE type = "ntfs"
  <2>1. w.central.ntfs = t
    BY <1>1, <1>2, <1>5
  <2>2. TimeOf(w, i) = Wanted(s, i)
    BY <1>4, <2>1, NtfsStay
  <2> QED BY <1>5, <2>2 DEF Rounded, type
<1>6. CASE type = "unix"
  <2>1. S \in SUBSET Moments /\ M \in S /\ S # {}
    BY <1>1, <1>6 DEF Moments
  <2>2. i \in S
    BY <1>1, <1>8, <1>3, <1>6 DEF Stored, A, M, C
  <2>3. i = C => A \in S
    <3>1. opt.time = "default" => TimeType(s) = "unix"
      BY <1>6 DEF type, NewType
    <3>2. opt.time # "default" => A \in S
      BY <1>1, <1>6
    <3>3. opt.time = "default" /\ i = C => TimeOf(s, A) # 0
      BY <1>8, <1>6, <3>1
    <3> QED BY <1>1, <1>6, <3>2, <3>3
  <2>4. /\ w.central.ntfs = <<>> /\ w.local.unix = UnixField(t, S, TRUE)
        /\ w.central.unix = UnixField(t, S, FALSE)
    BY <1>1, <1>2, <1>6, <2>1
  <2>5. TimeOf(w, i) = OfUnix(UnixOf(Wanted(s, i)))
    BY <2>1, <2>2, <2>3, <2>4, UnixStay
  <2> QED BY <1>6, <2>5 DEF Rounded, type
<1>7. CASE type = "dos"
  <2>1. w.central.ntfs = <<>> /\ w.central.unix = NoUnix
    BY <1>1, <1>2, <1>7
  <2>2. i = M
    BY <1>8, <1>3, <1>7, TimeTypes DEF Stored, NewType, type
  <2>3. TimeOf(w, M) = OfDos(DosOf(Wanted(s, M)))
    BY <2>1, <2>2, DosStay
  <2> QED BY <1>7, <2>2, <2>3 DEF Rounded, type
<1> QED BY <1>1, <1>5, <1>6, <1>7 DEF type

(* FieldsStay: a header that is written anew reports the times of the old  *)
(* one, or those of the command line, as its format rounds them, however   *)
(* the flags and the stored times of Unix fields were ordered; and with    *)
(* -hex it has the other fields of the old local header in both places.    *)
THEOREM FieldsKept == Spec => FieldsStay
<1> DEFINE TimesAreKept ==
      ~opt.tfm /\ opt.time # "zero" =>
        LET type == IF opt.time = "default" THEN TimeType(Source) ELSE opt.time
            kept == IF opt.time = "default" THEN {M, A, C} ELSE Stored(type)
            Want(i) == IF opt.set[i] # 0 THEN opt.set[i] ELSE TimeOf(Source, i)
            gap == TimeType(Source) = "unix" /\ TimeOf(Source, A) = 0
        IN \A i \in kept : TimeOf(Source, i) # 0 /\ ~(gap /\ i = C /\ type = "unix") =>
             TimeOf(Written, i) = Rounded(type, Want(i))
           OthersAreKept ==
      opt.ex /\ opt.ids = {} =>
        Source.local.others = Written.local.others /\ Source.local.others = Written.central.others
<1>1. ASSUME IInv, [Next]_vars, Writes, ~ui.newData, ui.newProps
      PROVE  TimesAreKept /\ OthersAreKept
  <2>1. RewriteHeader
    BY <1>1, WritesHow, Copied, FileAdded
  <2>2. PICK w \in EntryType : AddItem(w) /\ IsReadable(w) /\ FromSource(w)
    <3>1. ~Return("E_FAIL", arc)
      <4>1. Len(items) \in Nat /\ Len(<<>>) = 0
        BY <1>1 DEF IInv, TypeOK
      <4> QED BY <1>1, <4>1 DEF Return, Writes
    <3> QED BY <1>1, <2>1, <3>1, Rewritten
  <2>3. Written = w
    BY <1>1, <2>2, WritesOne
  <2>4. Source \in EntryType /\ opt \in OptionType
    BY <1>1, <2>1, Rewritten
  <2> DEFINE s == Source
             p == PropsOfEntry(s)
  <2>5. s.local \in ExtraType /\ s.unixHost \in BOOLEAN /\ s.local.aes \in BOOLEAN
    <3>1. s.local \in ExtraType /\ s.unixHost \in BOOLEAN
      BY <2>4, EntryParts
    <3> QED BY <3>1 DEF ExtraType
  <2>6. /\ w.dos = (IF opt.time = "zero" THEN 0 ELSE DosOf(AdjustedTimes(p)[M]))
        /\ w.local = NewExtra(p, s.local, s.unixHost, s.local.aes, TRUE)
        /\ w.central = NewExtra(p, s.local, s.unixHost, s.local.aes, FALSE)
    BY <2>2 DEF FromSource
  <2>7. TimesAreKept
    <3> SUFFICES ASSUME ~opt.tfm, opt.time # "zero",
                        NEW i \in KeptIn(s), TimeOf(s, i) # 0, ~AfterGap(s, i)
                 PROVE  TimeOf(w, i) = Rounded(NewType(s), Wanted(s, i))
      BY <2>3 DEF Wanted, NewType, KeptIn, AfterGap
    <3>1. w.dos = DosOf(AdjustedTimes(p)[M])
      BY <2>6
    <3> HIDE DEF s
    <3>2. s \in EntryType
      BY <2>4 DEF s
    <3>3. PICK x \in ExtraType, h \in BOOLEAN, a \in BOOLEAN :
            x = s.local /\ h = s.unixHost /\ a = s.local.aes
      BY <2>5
    <3>4. /\ w.local = NewExtra(p, x, h, a, TRUE) /\ w.central = NewExtra(p, x, h, a, FALSE)
      BY <2>6, <3>3
    <3>5. IsReadable(w) /\ opt \in OptionType
      BY <2>2, <2>4
    <3> HIDE DEF p
    <3>6. p = PropsOfEntry(s)
      BY DEF p
    <3> QED BY <3>1, <3>2, <3>4, <3>5, <3>6, TimesStay
  <2>8. OthersAreKept
    <3> SUFFICES ASSUME opt.ex, opt.ids = {}
                 PROVE  s.local.others = w.local.others /\ s.local.others = w.central.others
      BY <2>3
    <3>1. opt.ex \in BOOLEAN
      BY <2>4 DEF OptionType
    <3>2. KeptOthers(s.local) = s.local.others
      BY <3>1 DEF KeptOthers, IsKept
    <3>3. w.local.others = KeptOthers(s.local) /\ w.central.others = KeptOthers(s.local)
      BY <2>6 DEF NewExtra
    <3> QED BY <3>2, <3>3
  <2> QED BY <2>7, <2>8
<1>2. IInv /\ [Next]_vars => [Writes /\ ~ui.newData /\ ui.newProps => TimesAreKept /\ OthersAreKept]_vars
  BY <1>1
<1> QED BY <1>2, Invariant, PTL DEF Spec, FieldsStay

-----------------------------------------------------------------------------
(* CacheOutStream, with its variables s and file called ring and stream.   *)
CONSTANTS BlockSize, NumBlocks, Bytes, MaxSize, MaxWrite, MaxShift, InitialSizes, FileFaults, CloseFaults

VARIABLES stream, filePos, cache, ring, pc, req, failed

Cache == INSTANCE CacheOutStream WITH file <- stream, s <- ring


(* Slots of the ring.                                                      *)
LEMMA SlotIs ==
  ASSUME NEW K \in Nat \ {0}, NEW a \in Nat
  PROVE  (a % K) \in 0..(K - 1) /\ \E q \in Nat : a = K * q + (a % K)
<1>1. a = K * (a \div K) + (a % K) /\ (a % K) \in 0..(K - 1) /\ a \div K \in Int
  OBVIOUS
<1>2. a \div K \in Nat
  BY <1>1
<1> QED BY <1>1, <1>2

LEMMA SlotIsUnique ==
  ASSUME NEW K \in Nat \ {0}, NEW a \in Nat, NEW q \in Nat, NEW r \in 0..(K - 1), a = K * q + r
  PROVE  (a % K) = r
<1>1. PICK p \in Nat : a = K * p + (a % K)
  BY SlotIs
<1>2. (a % K) \in 0..(K - 1)
  BY SlotIs
<1>3. p = q
  <2>1. CASE p > q
    <3>1. K * p >= K * (q + 1)
      BY <2>1
    <3>2. K * (q + 1) = K * q + K
      OBVIOUS
    <3> QED BY <1>1, <1>2, <3>1, <3>2
  <2>2. CASE q > p
    <3>1. K * q >= K * (p + 1)
      BY <2>2
    <3>2. K * (p + 1) = K * p + K
      OBVIOUS
    <3> QED BY <1>1, <1>2, <3>1, <3>2
  <2> QED BY <2>1, <2>2
<1> QED BY <1>1, <1>2, <1>3

(* The slot of a later position: one step around the ring at most. *)
LEMMA NextSlot ==
  ASSUME NEW K \in Nat \ {0}, NEW a \in Nat, NEW d \in 0..(K - 1)
  PROVE  (a + d) % K = IF (a % K) + d < K THEN (a % K) + d ELSE (a % K) + d - K
<1>1. PICK p \in Nat : a = K * p + (a % K)
  BY SlotIs
<1>2. (a % K) \in 0..(K - 1)
  BY SlotIs
<1>3. CASE (a % K) + d < K
  <2>1. a + d = K * p + ((a % K) + d)
    BY <1>1, <1>2
  <2> QED BY <2>1, <1>2, <1>3, SlotIsUnique
<1>4. CASE (a % K) + d >= K
  <2>1. K * (p + 1) = K * p + K
    OBVIOUS
  <2>2. a + d = K * (p + 1) + ((a % K) + d - K)
    BY <1>1, <1>2, <2>1
  <2>3. (a % K) + d - K \in 0..(K - 1) /\ p + 1 \in Nat /\ a + d \in Nat
    BY <1>2, <1>4
  <2>4. (a + d) % K = (a % K) + d - K
    BY <2>2, <2>3, SlotIsUnique
  <2> QED BY <2>4, <1>2, <1>4
<1> QED BY <1>2, <1>3, <1>4

LEMMA SizePositive ==
  ASSUME Cache!ConstantsAssumption
  PROVE  Cache!CacheSize \in Nat \ {0}
BY DEF Cache!CacheSize, Cache!ConstantsAssumption

(* What a reader sees at position p of the stream.                         *)
Seen(p) ==
  IF p \in (ring.cachedPos + 1)..Cache!CachedEnd THEN cache[(p - 1) % Cache!CacheSize]
  ELSE IF p <= Cache!Lesser(ring.phySize, Len(stream)) THEN stream[p] ELSE Cache!Zero

InWrite == pc \in {"flush", "zeros", "store"}

(* Where the stream will end once the request is served.                   *)
Reach == IF pc \in {"zeros", "store"} THEN Cache!Greater(ring.virtSize, ring.virtPos) ELSE ring.virtSize

-----------------------------------------------------------------------------
(* The inductive invariant: the request of a write is within bounds; until *)
(* a call fails the object knows the file, and nothing behind the end of   *)
(* the stream is seen; zeros are filled in without a hole; whatever failed *)
(* the file's position is not in front of _phyPos; and between its two     *)
(* accesses the destructor has cut nothing off.                            *)
RequestFits ==
  InWrite => /\ req.size > 0 /\ req.value \in Bytes
             /\ ring.virtPos + req.size <= MaxSize

NothingFailed ==
  pc \notin {"resize", "closed"} /\ failed = "no" =>
    /\ ring.phySize = Len(stream) /\ ring.phyPos = filePos
    /\ ring.phySize <= Reach /\ Cache!CachedEnd <= Reach
    /\ ring.cachedSize # 0 => ring.cachedPos <= ring.phySize
    /\ \A p \in Nat : p > ring.virtSize => Seen(p) = Cache!Zero

CacheReaches ==
  pc \in {"zeros", "store"} =>
    /\ ring.cachedPos <= ring.phySize /\ ring.cachedPos <= ring.virtPos
    /\ Cache!Gap > 0 => Cache!CachedEnd >= ring.phySize
    /\ pc = "store" => Cache!Gap <= 0

FailuresFit ==
  pc \notin {"resize", "closed"} =>
    /\ failed # "close" /\ filePos >= ring.phyPos
    /\ ring.cachedSize # 0 => ring.cachedPos <= ring.phySize

ClosingFits ==
  pc = "resize" /\ failed # "call" =>
    /\ failed = "no" => ring.cachedSize = 0
    /\ ring.cachedSize = 0 => ring.phySize = Len(stream)
    /\ ring.phySize <= Len(stream) /\ Len(stream) <= Cache!Greater(ring.phySize, Cache!CachedEnd)
    /\ ring.phySize <= ring.virtSize /\ Cache!CachedEnd <= ring.virtSize
    /\ ring.cachedSize # 0 => ring.cachedPos <= ring.phySize

CacheIInv ==
  /\ Cache!TypeOK /\ Cache!CachedEnd <= MaxSize
  /\ RequestFits /\ NothingFailed /\ CacheReaches /\ FailuresFit /\ ClosingFits

-----------------------------------------------------------------------------
LEMMA FieldsAre ==
  ASSUME Cache!ConstantsAssumption, Cache!TypeOK
  PROVE  /\ ring.virtPos \in 0..MaxSize /\ ring.virtSize \in 0..MaxSize /\ ring.phyPos \in 0..MaxSize
         /\ ring.phySize \in 0..MaxSize /\ ring.cachedPos \in 0..MaxSize /\ ring.cachedSize \in 0..Cache!CacheSize
         /\ Len(stream) \in Nat /\ filePos \in Nat /\ MaxSize \in Nat /\ Cache!CacheSize \in Nat
         /\ ring = [virtPos |-> ring.virtPos, virtSize |-> ring.virtSize, phyPos |-> ring.phyPos,
                 phySize |-> ring.phySize, cachedPos |-> ring.cachedPos, cachedSize |-> ring.cachedSize]
BY SizePositive DEF Cache!TypeOK, Cache!ConstantsAssumption

LEMMA NumbersAre ==
  ASSUME Cache!ConstantsAssumption, Cache!TypeOK
  PROVE  /\ ring.virtPos \in Nat /\ ring.virtSize \in Nat /\ ring.phyPos \in Nat /\ ring.phySize \in Nat
         /\ ring.cachedPos \in Nat /\ ring.cachedSize \in Nat /\ Len(stream) \in Nat /\ filePos \in Nat
         /\ MaxSize \in Nat /\ Cache!CacheSize \in Nat /\ Cache!Start \in Nat /\ Cache!CachedEnd \in Nat
         /\ ring.virtPos <= MaxSize /\ ring.virtSize <= MaxSize /\ ring.phyPos <= MaxSize
         /\ ring.phySize <= MaxSize /\ ring.cachedPos <= MaxSize /\ ring.cachedSize <= Cache!CacheSize
         /\ Cache!CachedEnd = ring.cachedPos + ring.cachedSize
BY FieldsAre DEF Cache!Start, Cache!CachedEnd

LEMMA SlotIsCached ==
  ASSUME Cache!ConstantsAssumption, Cache!TypeOK, NEW a \in Nat
  PROVE  cache[a % Cache!CacheSize] \in Bytes \cup {Cache!Zero}
<1>1. (a % Cache!CacheSize) \in 0..(Cache!CacheSize - 1)
  BY SizePositive, SlotIs
<1> QED BY <1>1 DEF Cache!TypeOK

LEMMA CountedFields ==
  ASSUME Cache!ConstantsAssumption, Cache!TypeOK, Cache!CachedEnd <= MaxSize,
         NEW n \in 0..ring.cachedSize
  PROVE  /\ Cache!Counted(n) = [virtPos |-> ring.virtPos, virtSize |-> ring.virtSize, phyPos |-> ring.cachedPos + n,
                          phySize |-> Cache!Greater(ring.phySize, ring.cachedPos + n),
                          cachedPos |-> ring.cachedPos + n, cachedSize |-> ring.cachedSize - n]
         /\ Cache!Counted(n) \in [virtPos : 0..MaxSize, virtSize : 0..MaxSize, phyPos : 0..MaxSize,
            phySize : 0..MaxSize, cachedPos : 0..MaxSize, cachedSize : 0..Cache!CacheSize]
<1>1. Cache!Counted(n) = [virtPos |-> ring.virtPos, virtSize |-> ring.virtSize, phyPos |-> ring.cachedPos + n,
                          phySize |-> Cache!Greater(ring.phySize, ring.cachedPos + n),
                          cachedPos |-> ring.cachedPos + n, cachedSize |-> ring.cachedSize - n]
  <2> DEFINE a == Cache!Greater(ring.phySize, ring.cachedPos + n)
  <2>1. PICK b : b = a
    OBVIOUS
  <2>2. PICK c : c = ring.cachedPos + n
    OBVIOUS
  <2>3. PICK d : d = ring.cachedSize - n
    OBVIOUS
  <2>4. Cache!Counted(n) = [ring EXCEPT !.phyPos = c, !.phySize = b, !.cachedPos = c, !.cachedSize = d]
    BY <2>1, <2>2, <2>3 DEF Cache!Counted
  <2> HIDE DEF a
  <2>5. Cache!Counted(n) = [virtPos |-> ring.virtPos, virtSize |-> ring.virtSize, phyPos |-> c,
                      phySize |-> b, cachedPos |-> c, cachedSize |-> d]
    BY <2>4 DEF Cache!TypeOK
  <2> QED BY <2>5, <2>1, <2>2, <2>3 DEF a
<1>2. /\ ring.cachedPos + n \in 0..MaxSize /\ ring.cachedSize - n \in 0..Cache!CacheSize
      /\ Cache!Greater(ring.phySize, ring.cachedPos + n) \in 0..MaxSize
  BY FieldsAre, SMTT(30) DEF Cache!Greater, Cache!CachedEnd
<1> QED BY <1>1, <1>2, FieldsAre

LEMMA FileAfterPut ==
  ASSUME Cache!ConstantsAssumption, Cache!TypeOK, NEW n \in 0..ring.cachedSize,
         Cache!PutCached(n), Cache!Start >= ring.cachedPos, Cache!Start \in Nat
  PROVE  /\ stream' \in Seq(Bytes \cup {Cache!Zero}) /\ Len(stream') = Cache!Greater(Len(stream), Cache!Start + n)
         /\ \A p \in 1..Len(stream') :
              stream'[p] = IF p \in (Cache!Start + 1)..(Cache!Start + n)
                         THEN cache[(ring.cachedPos + p - 1 - Cache!Start) % Cache!CacheSize]
                         ELSE IF p <= Len(stream) THEN stream[p] ELSE Cache!Zero
<1> DEFINE m == Cache!Greater(Len(stream), Cache!Start + n)
           v(p) == IF p \in (Cache!Start + 1)..(Cache!Start + n)
                         THEN cache[(ring.cachedPos + p - 1 - Cache!Start) % Cache!CacheSize]
                         ELSE IF p <= Len(stream) THEN stream[p] ELSE Cache!Zero
<1>1. stream' = [p \in 1..m |-> v(p)]
  BY DEF Cache!PutCached
<1>2. m \in Nat
  BY NumbersAre DEF Cache!Greater
<1>3. \A p \in 1..m : v(p) \in Bytes \cup {Cache!Zero}
  <2> TAKE p \in 1..m
  <2>1. CASE p \in (Cache!Start + 1)..(Cache!Start + n)
    <3>1. ring.cachedPos + p - 1 - Cache!Start \in Nat
      BY <2>1, NumbersAre, SMTT(30)
    <3> QED BY <3>1, <2>1, SlotIsCached
  <2>2. CASE p \notin (Cache!Start + 1)..(Cache!Start + n) /\ p <= Len(stream)
    <3>1. stream[p] \in Bytes \cup {Cache!Zero}
      BY <1>2, <2>2, NumbersAre DEF Cache!TypeOK
    <3> QED BY <3>1, <2>2
  <2>3. CASE p \notin (Cache!Start + 1)..(Cache!Start + n) /\ ~(p <= Len(stream))
    BY <2>3
  <2> QED BY <2>1, <2>2, <2>3
<1> HIDE DEF m, v
<1>4. stream' \in Seq(Bytes \cup {Cache!Zero}) /\ Len(stream') = m /\ \A p \in 1..m : stream'[p] = v(p)
  BY <1>1, <1>2, <1>3
<1> QED BY <1>4 DEF m, v

(* A part of the cached bytes is written, and a part of these is counted. *)
LEMMA PartWritten ==
  ASSUME Cache!ConstantsAssumption, CacheIInv, failed = "no", pc \notin {"resize", "closed"},
         ring.cachedSize # 0,
         NEW k \in 0..ring.cachedSize, NEW m \in 0..k, Cache!PutCached(k), ring' = Cache!Counted(m)
  PROVE  /\ Cache!Start = ring.cachedPos
         /\ stream' \in Seq(Bytes \cup {Cache!Zero}) /\ Len(stream') = Cache!Greater(ring.phySize, ring.cachedPos + k)
         /\ \A p \in 1..Len(stream') :
              stream'[p] = IF p \in (ring.cachedPos + 1)..(ring.cachedPos + k) THEN cache[(p - 1) % Cache!CacheSize]
                         ELSE IF p <= ring.phySize THEN stream[p] ELSE Cache!Zero
         /\ ring'.virtPos = ring.virtPos /\ ring'.virtSize = ring.virtSize /\ ring'.phyPos = ring.cachedPos + m
         /\ ring'.phySize = Cache!Greater(ring.phySize, ring.cachedPos + m)
         /\ ring'.cachedPos = ring.cachedPos + m /\ ring'.cachedSize = ring.cachedSize - m
         /\ Cache!CachedEnd' = Cache!CachedEnd
<1>1. /\ Cache!Start = ring.cachedPos /\ Cache!Start \in Nat /\ ring.phySize = Len(stream)
  BY NumbersAre DEF CacheIInv, NothingFailed, Cache!Start
<1>2. /\ stream' \in Seq(Bytes \cup {Cache!Zero}) /\ Len(stream') = Cache!Greater(ring.phySize, ring.cachedPos + k)
      /\ \A p \in 1..Len(stream') :
           stream'[p] = IF p \in (ring.cachedPos + 1)..(ring.cachedPos + k)
                      THEN cache[(ring.cachedPos + p - 1 - ring.cachedPos) % Cache!CacheSize]
                      ELSE IF p <= ring.phySize THEN stream[p] ELSE Cache!Zero
  <2>1. Cache!TypeOK /\ Cache!Start >= ring.cachedPos
    BY <1>1, NumbersAre DEF CacheIInv
  <2>2. /\ stream' \in Seq(Bytes \cup {Cache!Zero})
        /\ Len(stream') = Cache!Greater(Len(stream), Cache!Start + k)
        /\ \A p \in 1..Len(stream') :
             stream'[p] = IF p \in (Cache!Start + 1)..(Cache!Start + k)
                          THEN cache[(ring.cachedPos + p - 1 - Cache!Start) % Cache!CacheSize]
                          ELSE IF p <= Len(stream) THEN stream[p] ELSE Cache!Zero
    BY <1>1, <2>1, FileAfterPut
  <2> QED BY <1>1, <2>2
<1>3. \A p \in Int : ring.cachedPos + p - 1 - ring.cachedPos = p - 1
  BY NumbersAre DEF CacheIInv
<1>4. m \in 0..ring.cachedSize
  BY NumbersAre DEF CacheIInv
<1>5. ring' = [virtPos |-> ring.virtPos, virtSize |-> ring.virtSize, phyPos |-> ring.cachedPos + m,
                          phySize |-> Cache!Greater(ring.phySize, ring.cachedPos + m),
                          cachedPos |-> ring.cachedPos + m, cachedSize |-> ring.cachedSize - m]
  BY <1>4, CountedFields DEF CacheIInv
<1>6. /\ ring'.virtPos = ring.virtPos /\ ring'.virtSize = ring.virtSize /\ ring'.phyPos = ring.cachedPos + m
      /\ ring'.phySize = Cache!Greater(ring.phySize, ring.cachedPos + m)
      /\ ring'.cachedPos = ring.cachedPos + m /\ ring'.cachedSize = ring.cachedSize - m
  BY <1>5
<1>7. Cache!CachedEnd' = Cache!CachedEnd
  BY <1>4, <1>6, NumbersAre, SMTT(30) DEF Cache!CachedEnd, CacheIInv
<1>8. \A p \in 1..Len(stream') :
        stream'[p] = IF p \in (ring.cachedPos + 1)..(ring.cachedPos + k) THEN cache[(p - 1) % Cache!CacheSize]
                   ELSE IF p <= ring.phySize THEN stream[p] ELSE Cache!Zero
  <2> TAKE p \in 1..Len(stream')
  <2>1. p \in Int
    BY <1>2
  <2> QED BY <2>1, <1>2, <1>3
<1> QED BY <1>1, <1>2, <1>6, <1>7, <1>8

LEMMA PartWrittenIsSeen ==
  ASSUME Cache!ConstantsAssumption, CacheIInv, failed = "no", pc \notin {"resize", "closed"},
         ring.cachedSize # 0,
         NEW k \in 0..ring.cachedSize, NEW m \in 0..k, Cache!PutCached(k), ring' = Cache!Counted(m),
         UNCHANGED cache, NEW p \in Nat \ {0}
  PROVE  Seen(p)' = Seen(p)
<1> DEFINE K == Cache!CacheSize
<1>1. /\ Len(stream') = Cache!Greater(ring.phySize, ring.cachedPos + k)
      /\ \A q \in 1..Len(stream') :
           stream'[q] = IF q \in (ring.cachedPos + 1)..(ring.cachedPos + k) THEN cache[(q - 1) % K]
                      ELSE IF q <= ring.phySize THEN stream[q] ELSE Cache!Zero
      /\ ring'.phySize = Cache!Greater(ring.phySize, ring.cachedPos + m)
      /\ ring'.cachedPos = ring.cachedPos + m /\ Cache!CachedEnd' = Cache!CachedEnd
  BY PartWritten
<1>2. ring.phySize = Len(stream) /\ ring.cachedPos <= ring.phySize /\ Cache!TypeOK
  BY DEF CacheIInv, NothingFailed
<1>3. ring.phySize \in Nat /\ ring.cachedPos \in Nat /\ ring.cachedSize \in Nat
  BY <1>2, NumbersAre
<1>4. Seen(p)' = IF p \in (ring.cachedPos + m + 1)..Cache!CachedEnd THEN cache[(p - 1) % K]
                 ELSE IF p <= Cache!Lesser(ring'.phySize, Len(stream')) THEN stream'[p] ELSE Cache!Zero
  BY <1>1 DEF Seen
<1>5. Seen(p) = IF p \in (ring.cachedPos + 1)..Cache!CachedEnd THEN cache[(p - 1) % K]
                ELSE IF p <= ring.phySize THEN stream[p] ELSE Cache!Zero
  BY <1>2, <1>3 DEF Seen, Cache!Lesser
<1>6. Cache!Lesser(ring'.phySize, Len(stream')) = Cache!Greater(ring.phySize, ring.cachedPos + m)
  BY <1>1, <1>3 DEF Cache!Greater, Cache!Lesser
<1>7. CASE p \in (ring.cachedPos + m + 1)..Cache!CachedEnd
  <2>1. p \in (ring.cachedPos + 1)..Cache!CachedEnd
    BY <1>3, <1>7 DEF Cache!CachedEnd
  <2> QED BY <2>1, <1>4, <1>5, <1>7
<1>8. CASE p \in (ring.cachedPos + 1)..(ring.cachedPos + m)
  <2>1. /\ p \in (ring.cachedPos + 1)..Cache!CachedEnd /\ p \notin (ring.cachedPos + m + 1)..Cache!CachedEnd
        /\ p <= Cache!Greater(ring.phySize, ring.cachedPos + m) /\ p \in 1..Len(stream')
        /\ p \in (ring.cachedPos + 1)..(ring.cachedPos + k)
    BY <1>1, <1>3, <1>8 DEF Cache!CachedEnd, Cache!Greater
  <2>2. stream'[p] = cache[(p - 1) % K]
    BY <2>1, <1>1
  <2> QED BY <2>1, <2>2, <1>4, <1>5, <1>6
<1>9. CASE p \notin (ring.cachedPos + 1)..Cache!CachedEnd
  <2>1. p \notin (ring.cachedPos + m + 1)..Cache!CachedEnd /\ p \notin (ring.cachedPos + 1)..(ring.cachedPos + k)
    BY <1>3, <1>9 DEF Cache!CachedEnd
  <2>2. CASE p <= ring.phySize
    <3>1. p \in 1..Len(stream') /\ p <= Cache!Greater(ring.phySize, ring.cachedPos + m)
      BY <2>2, <1>1, <1>3 DEF Cache!Greater
    <3>2. stream'[p] = stream[p]
      BY <3>1, <2>1, <2>2, <1>1
    <3> QED BY <3>1, <3>2, <2>1, <2>2, <1>4, <1>5, <1>6, <1>9
  <2>3. CASE p > ring.phySize
    <3>1. ~(p <= Cache!Greater(ring.phySize, ring.cachedPos + m))
      BY <2>1, <2>3, <1>2, <1>3 DEF Cache!Greater
    <3> QED BY <3>1, <2>1, <2>3, <1>3, <1>4, <1>5, <1>6, <1>9
  <2> QED BY <2>2, <2>3, <1>3
<1>10. p \in (ring.cachedPos + m + 1)..Cache!CachedEnd \/ p \in (ring.cachedPos + 1)..(ring.cachedPos + m)
       \/ p \notin (ring.cachedPos + 1)..Cache!CachedEnd
  BY <1>3 DEF Cache!CachedEnd
<1> QED BY <1>7, <1>8, <1>9, <1>10

-----------------------------------------------------------------------------
LEMMA FillSlots ==
  ASSUME Cache!ConstantsAssumption, Cache!TypeOK, NEW a \in Nat, NEW n \in Nat,
         n <= Cache!CacheSize - (a % Cache!CacheSize), NEW v,
         cache' = [k \in DOMAIN cache |->
                     IF k \in (a % Cache!CacheSize)..((a % Cache!CacheSize) + n - 1) THEN v ELSE cache[k]],
         NEW lo \in Nat, lo <= a, a + n <= lo + Cache!CacheSize, NEW p \in lo..(lo + Cache!CacheSize - 1)
  PROVE  cache'[p % Cache!CacheSize] = IF p \in a..(a + n - 1) THEN v ELSE cache[p % Cache!CacheSize]
<1> DEFINE K == Cache!CacheSize
<1>0. K \in Nat \ {0}
  BY SizePositive
<1>1. (p % K) \in 0..(K - 1) /\ (a % K) \in 0..(K - 1)
  BY <1>0, SlotIs
<1>2. cache'[p % K] = IF (p % K) \in (a % K)..((a % K) + n - 1) THEN v ELSE cache[p % K]
  BY <1>1 DEF Cache!TypeOK
<1>3. CASE p >= a /\ p - a < K
  <2>1. p - a \in 0..(K - 1) /\ p = a + (p - a)
    BY <1>0, <1>3
  <2>2. (p % K) = IF (a % K) + (p - a) < K THEN (a % K) + (p - a) ELSE (a % K) + (p - a) - K
    BY <1>0, <2>1, NextSlot
  <2>3. (p % K) \in (a % K)..((a % K) + n - 1) <=> p \in a..(a + n - 1)
    BY <1>0, <1>1, <1>3, <2>2
  <2> QED BY <1>2, <2>3
<1>4. CASE p < a /\ n > 0
  <2>1. PICK d \in 1..(K - 1) : a = p + d
    <3>1. a - p \in 1..(K - 1) /\ a = p + (a - p)
      BY <1>0, <1>4
    <3> QED BY <3>1
  <2>2. (a % K) = IF (p % K) + d < K THEN (p % K) + d ELSE (p % K) + d - K
    <3>1. p \in Nat /\ d \in 0..(K - 1)
      BY <1>0
    <3>2. ((p + d) % K) = IF (p % K) + d < K THEN (p % K) + d ELSE (p % K) + d - K
      BY <1>0, <3>1, NextSlot
    <3> QED BY <2>1, <3>2
  <2>3. (p % K) \notin (a % K)..((a % K) + n - 1) /\ p \notin a..(a + n - 1)
    <3>1. d + n <= K
      BY <1>0, <2>1
    <3> QED BY <1>0, <1>1, <1>4, <2>1, <2>2, <3>1
  <2> QED BY <1>2, <2>3
<1>5. CASE n = 0
  <2>1. (p % K) \notin (a % K)..((a % K) + n - 1) /\ p \notin a..(a + n - 1)
    BY <1>5, <1>1
  <2> QED BY <1>2, <2>1
<1> QED BY <1>0, <1>3, <1>4, <1>5

(* The zeros fill a gap where there was nothing to be seen. *)
LEMMA ZerosDo ==
  ASSUME Cache!ConstantsAssumption, CacheIInv, pc = "zeros", ~(Cache!Gap <= 0),
         Cache!ZerosNow <= Cache!CacheSize - ring.cachedSize,
         cache' = [k \in DOMAIN cache |->
               IF k \in (Cache!CachedEnd % Cache!CacheSize)..((Cache!CachedEnd % Cache!CacheSize) + Cache!ZerosNow - 1)
               THEN Cache!Zero ELSE cache[k]],
         ring' = [ring EXCEPT !.cachedSize = @ + Cache!ZerosNow], UNCHANGED stream
  PROVE  /\ Cache!ZerosNow \in Nat \ {0} /\ Cache!CachedEnd' = Cache!CachedEnd + Cache!ZerosNow /\ Cache!CachedEnd' <= ring.virtPos
         /\ ring' = [virtPos |-> ring.virtPos, virtSize |-> ring.virtSize, phyPos |-> ring.phyPos,
                  phySize |-> ring.phySize, cachedPos |-> ring.cachedPos,
                  cachedSize |-> ring.cachedSize + Cache!ZerosNow]
         /\ ring.cachedSize + Cache!ZerosNow \in 0..Cache!CacheSize
         /\ failed = "no" => \A p \in Nat \ {0} : Seen(p)' = Seen(p)
<1> DEFINE K == Cache!CacheSize
           z == Cache!ZerosNow
<1>0. K \in Nat \ {0} /\ Cache!TypeOK
  BY SizePositive DEF CacheIInv
<1>1. Cache!CachedEnd \in Nat
  BY <1>0, NumbersAre DEF Cache!CachedEnd
<1>2. (Cache!CachedEnd % K) \in 0..(K - 1)
  BY <1>0, <1>1, SlotIs
<1>3. Cache!Gap \in Nat \ {0}
  BY <1>0, <1>1, NumbersAre, SMTT(30) DEF Cache!Gap
<1>4. z \in Nat \ {0} /\ z <= K - (Cache!CachedEnd % K) /\ z <= Cache!Gap
  BY <1>0, <1>2, <1>3 DEF Cache!ZerosNow, Cache!Lesser
<1>5. ring.cachedSize + z \in 0..K
  BY <1>0, <1>4, NumbersAre, SMTT(30)
<1>6. ring' = [virtPos |-> ring.virtPos, virtSize |-> ring.virtSize, phyPos |-> ring.phyPos,
            phySize |-> ring.phySize, cachedPos |-> ring.cachedPos, cachedSize |-> ring.cachedSize + z]
  <2>1. PICK c : c = ring.cachedSize + z
    OBVIOUS
  <2>2. ring' = [ring EXCEPT !.cachedSize = c]
    BY <2>1
  <2>3. ring' = [virtPos |-> ring.virtPos, virtSize |-> ring.virtSize, phyPos |-> ring.phyPos,
              phySize |-> ring.phySize, cachedPos |-> ring.cachedPos, cachedSize |-> c]
    BY <1>0, <2>2 DEF Cache!TypeOK
  <2> QED BY <2>1, <2>3
<1>7. /\ ring'.cachedPos = ring.cachedPos /\ ring'.cachedSize = ring.cachedSize + z
      /\ ring'.phySize = ring.phySize
  BY <1>6
<1>8. Cache!CachedEnd' = Cache!CachedEnd + z
  BY <1>0, <1>4, <1>7, NumbersAre, SMTT(30) DEF Cache!CachedEnd
<1>9. Cache!CachedEnd' <= ring.virtPos
  BY <1>0, <1>1, <1>4, <1>8, NumbersAre, SMTT(30) DEF Cache!Gap
<1>10. ASSUME failed = "no", NEW p \in Nat \ {0}
       PROVE  Seen(p)' = Seen(p)
  <2>1. Seen(p)' = IF p \in (ring.cachedPos + 1)..(Cache!CachedEnd + z) THEN cache'[(p - 1) % K]
                   ELSE IF p <= Cache!Lesser(ring.phySize, Len(stream)) THEN stream[p] ELSE Cache!Zero
    BY <1>7, <1>8 DEF Seen
  <2>2. CASE p \in (ring.cachedPos + 1)..(Cache!CachedEnd + z)
    <3>0. ring.cachedPos \in Nat /\ ring.cachedSize \in Nat /\ Cache!CachedEnd = ring.cachedPos + ring.cachedSize
      BY <1>0, NumbersAre
    <3>1. /\ ring.cachedPos \in Nat /\ ring.cachedPos <= Cache!CachedEnd /\ Cache!CachedEnd + z <= ring.cachedPos + K
      BY <1>0, <1>4, <1>5, <3>0
    <3>2. p - 1 \in ring.cachedPos..(ring.cachedPos + K - 1)
      BY <1>1, <1>4, <2>2, <3>1, <1>0
    <3>3. cache'[(p - 1) % K] = IF p - 1 \in Cache!CachedEnd..(Cache!CachedEnd + z - 1) THEN Cache!Zero
                                ELSE cache[(p - 1) % K]
      BY <1>0, <1>1, <1>4, <3>1, <3>2, FillSlots
    <3>4. CASE p - 1 \in Cache!CachedEnd..(Cache!CachedEnd + z - 1)
      <4>1. p \notin (ring.cachedPos + 1)..Cache!CachedEnd
        BY <1>1, <3>1, <3>4
      <4>2. Cache!CachedEnd >= ring.phySize /\ ring.phySize = Len(stream)
        BY <1>3, <1>10 DEF CacheIInv, CacheReaches, NothingFailed
      <4>3. ~(p <= Cache!Lesser(ring.phySize, Len(stream)))
        BY <1>0, <1>1, <3>4, <4>2, NumbersAre DEF Cache!Lesser
      <4> QED BY <2>1, <2>2, <3>3, <3>4, <4>1, <4>3 DEF Seen
    <3>5. CASE p - 1 \notin Cache!CachedEnd..(Cache!CachedEnd + z - 1)
      <4>1. p \in (ring.cachedPos + 1)..Cache!CachedEnd
        BY <1>1, <1>4, <2>2, <3>1, <3>5
      <4> QED BY <2>1, <2>2, <3>3, <3>5, <4>1 DEF Seen
    <3> QED BY <3>4, <3>5
  <2>3. CASE p \notin (ring.cachedPos + 1)..(Cache!CachedEnd + z)
    <3>1. p \notin (ring.cachedPos + 1)..Cache!CachedEnd
      BY <1>0, <1>1, <1>4, <2>3, NumbersAre
    <3> QED BY <2>1, <2>3, <3>1 DEF Seen
  <2> QED BY <2>2, <2>3
<1> QED BY <1>4, <1>5, <1>6, <1>8, <1>9, <1>10

(* What Store writes is seen in its place, and nothing else changes. *)
StoredNow == Cache!Lesser(req.size, Cache!Room)

LEMMA StoreDoes ==
  ASSUME Cache!ConstantsAssumption, CacheIInv, Cache!Store
  PROVE  /\ StoredNow \in 1..req.size
         /\ ring' = [virtPos |-> ring.virtPos + StoredNow,
                  virtSize |-> Cache!Greater(ring.virtSize, ring.virtPos + StoredNow),
                  phyPos |-> ring.phyPos, phySize |-> ring.phySize, cachedPos |-> ring.cachedPos,
                  cachedSize |-> Cache!Greater(ring.cachedSize, ring.virtPos + StoredNow - ring.cachedPos)]
         /\ Cache!Greater(ring.cachedSize, ring.virtPos + StoredNow - ring.cachedPos) \in 1..Cache!CacheSize
         /\ Cache!CachedEnd' = Cache!Greater(Cache!CachedEnd, ring.virtPos + StoredNow)
         /\ \A p \in Nat \ {0} :
              Seen(p)' = IF p \in (ring.virtPos + 1)..(ring.virtPos + StoredNow) THEN req.value ELSE Seen(p)
<1> DEFINE K == Cache!CacheSize
           n == StoredNow
           c == Cache!Greater(ring.cachedSize, ring.virtPos + n - ring.cachedPos)
<1>0. K \in Nat \ {0} /\ Cache!TypeOK
  BY SizePositive DEF CacheIInv
<1>1. /\ Cache!CachedEnd \in Nat /\ ring.virtPos \in Nat /\ ring.cachedPos \in Nat /\ ring.cachedSize \in 0..K
      /\ ring.cachedPos <= Cache!CachedEnd /\ Cache!CachedEnd = ring.cachedPos + ring.cachedSize
      /\ Cache!Gap = ring.virtPos - Cache!CachedEnd
  BY <1>0, NumbersAre DEF Cache!CachedEnd, Cache!Gap
<1>2. /\ pc = "store" /\ ring.cachedPos <= ring.virtPos /\ Cache!Gap <= 0 /\ ~(Cache!Gap = 0 /\ ring.cachedSize = K)
      /\ req.size \in Nat \ {0}
  BY DEF CacheIInv, CacheReaches, RequestFits, InWrite, Cache!Store, Cache!TypeOK
<1>3. (ring.virtPos % K) \in 0..(K - 1) /\ (ring.cachedPos % K) \in 0..(K - 1)
  BY <1>0, <1>1, SlotIs
<1>4. Cache!Room \in Nat \ {0} /\ Cache!Room <= K - (ring.virtPos % K) /\ ring.virtPos + Cache!Room <= ring.cachedPos + K
  <2>1. CASE Cache!Gap < 0
    <3>1. Cache!Room = Cache!Lesser(K - (ring.virtPos % K), Cache!CachedEnd - ring.virtPos)
      BY <2>1 DEF Cache!Room
    <3> QED BY <2>1, <3>1, <1>1, <1>2, <1>3, <1>0 DEF Cache!Lesser
  <2>2. CASE Cache!Gap = 0
    <3>1. ring.cachedSize \in 0..(K - 1) /\ ring.virtPos = ring.cachedPos + ring.cachedSize
      BY <2>2, <1>0, <1>1, <1>2
    <3>2. (ring.virtPos % K) = IF (ring.cachedPos % K) + ring.cachedSize < K
                            THEN (ring.cachedPos % K) + ring.cachedSize
                            ELSE (ring.cachedPos % K) + ring.cachedSize - K
      BY <3>1, <1>0, <1>1, NextSlot
    <3>3. Cache!Room = IF (ring.cachedPos % K) > (ring.virtPos % K) THEN (ring.cachedPos % K) - (ring.virtPos % K)
                 ELSE K - (ring.virtPos % K)
      BY <2>2 DEF Cache!Room
    <3> QED BY <3>1, <3>2, <3>3, <1>0, <1>1, <1>3
  <2> QED BY <2>1, <2>2, <1>1, <1>2
<1>5. n \in 1..req.size /\ n <= Cache!Room
  BY <1>2, <1>4 DEF StoredNow, Cache!Lesser
<1>6. /\ n \in Nat /\ n <= K - (ring.virtPos % K) /\ ring.virtPos + n <= ring.cachedPos + K
  BY <1>0, <1>1, <1>2, <1>3, <1>4, <1>5
<1>7. c \in 1..K
  BY <1>0, <1>1, <1>2, <1>5, <1>6 DEF Cache!Greater
<1>8. ring' = [virtPos |-> ring.virtPos + n, virtSize |-> Cache!Greater(ring.virtSize, ring.virtPos + n),
            phyPos |-> ring.phyPos, phySize |-> ring.phySize, cachedPos |-> ring.cachedPos,
            cachedSize |-> c]
  <2>1. PICK x : x = ring.virtPos + n
    OBVIOUS
  <2>2. PICK y : y = Cache!Greater(ring.virtSize, ring.virtPos + n)
    OBVIOUS
  <2>3. PICK w : w = c
    OBVIOUS
  <2>4. ring' = [ring EXCEPT !.virtPos = x, !.virtSize = y, !.cachedSize = w]
    <3>1. ring' = [ring EXCEPT !.virtPos = ring.virtPos + Cache!Lesser(req.size, Cache!Room),
                         !.virtSize = Cache!Greater(ring.virtSize, ring.virtPos + Cache!Lesser(req.size, Cache!Room)),
                         !.cachedSize = Cache!Greater(ring.cachedSize,
                                                (ring.virtPos + Cache!Lesser(req.size, Cache!Room)) - ring.cachedPos)]
      BY DEF Cache!Store
    <3>2. Cache!Lesser(req.size, Cache!Room) = n
      BY DEF StoredNow
    <3>3. x = ring.virtPos + Cache!Lesser(req.size, Cache!Room)
      BY <3>2, <2>1
    <3>4. y = Cache!Greater(ring.virtSize, ring.virtPos + Cache!Lesser(req.size, Cache!Room))
      BY <3>2, <2>2
    <3>5. w = Cache!Greater(ring.cachedSize, (ring.virtPos + Cache!Lesser(req.size, Cache!Room)) - ring.cachedPos)
      BY <3>2, <2>3, <1>1, <1>6
    <3> HIDE DEF n, c
    <3> QED BY <3>1, <3>3, <3>4, <3>5
  <2>5. ring' = [virtPos |-> x, virtSize |-> y, phyPos |-> ring.phyPos, phySize |-> ring.phySize,
              cachedPos |-> ring.cachedPos, cachedSize |-> w]
    BY <1>0, <2>4 DEF Cache!TypeOK
  <2> QED BY <2>1, <2>2, <2>3, <2>5
<1>9. ring'.cachedPos = ring.cachedPos /\ ring'.cachedSize = c /\ ring'.phySize = ring.phySize
  BY <1>8
<1>10. Cache!CachedEnd' = Cache!Greater(Cache!CachedEnd, ring.virtPos + n)
  BY <1>1, <1>6, <1>9 DEF Cache!CachedEnd, Cache!Greater
<1>11. ASSUME NEW p \in Nat \ {0}
       PROVE  Seen(p)' = IF p \in (ring.virtPos + 1)..(ring.virtPos + n) THEN req.value ELSE Seen(p)
  <2>1. UNCHANGED stream
    BY DEF Cache!Store
  <2>2. Seen(p)' = IF p \in (ring.cachedPos + 1)..Cache!Greater(Cache!CachedEnd, ring.virtPos + n)
                   THEN cache'[(p - 1) % K]
                   ELSE IF p <= Cache!Lesser(ring.phySize, Len(stream)) THEN stream[p] ELSE Cache!Zero
    BY <1>9, <1>10, <2>1 DEF Seen
  <2>3. cache' = [k \in DOMAIN cache |->
                     IF k \in (ring.virtPos % K)..((ring.virtPos % K) + n - 1) THEN req.value ELSE cache[k]]
    BY DEF Cache!Store, StoredNow
  <2>4. CASE p \in (ring.cachedPos + 1)..Cache!Greater(Cache!CachedEnd, ring.virtPos + n)
    <3>1. p - 1 \in ring.cachedPos..(ring.cachedPos + K - 1)
      BY <1>0, <1>1, <1>6, <2>4 DEF Cache!Greater
    <3>2. cache'[(p - 1) % K] = IF p - 1 \in ring.virtPos..(ring.virtPos + n - 1) THEN req.value
                                ELSE cache[(p - 1) % K]
      BY <1>0, <1>1, <1>2, <1>6, <2>3, <3>1, FillSlots
    <3>3. CASE p \in (ring.virtPos + 1)..(ring.virtPos + n)
      <4>1. p - 1 \in ring.virtPos..(ring.virtPos + n - 1)
        BY <1>1, <1>6, <3>3
      <4> QED BY <2>2, <2>4, <3>2, <3>3, <4>1
    <3>4. CASE p \notin (ring.virtPos + 1)..(ring.virtPos + n)
      <4>1. p - 1 \notin ring.virtPos..(ring.virtPos + n - 1)
        BY <1>1, <1>6, <3>4
      <4>2. p \in (ring.cachedPos + 1)..Cache!CachedEnd
        BY <1>1, <1>2, <1>6, <2>4, <3>4 DEF Cache!Greater
      <4> QED BY <2>2, <2>4, <3>2, <3>4, <4>1, <4>2 DEF Seen
    <3> QED BY <3>3, <3>4
  <2>5. CASE p \notin (ring.cachedPos + 1)..Cache!Greater(Cache!CachedEnd, ring.virtPos + n)
    <3>1. p \notin (ring.cachedPos + 1)..Cache!CachedEnd /\ p \notin (ring.virtPos + 1)..(ring.virtPos + n)
      BY <1>1, <1>2, <1>6, <2>5 DEF Cache!Greater
    <3> QED BY <2>2, <2>5, <3>1 DEF Seen
  <2> QED BY <2>4, <2>5
<1> QED BY <1>5, <1>7, <1>8, <1>10, <1>11

-----------------------------------------------------------------------------
LEMMA StartIs ==
  ASSUME Cache!ConstantsAssumption, CacheIInv, pc \notin {"resize", "closed"}
  PROVE  Cache!Start >= ring.cachedPos /\ Cache!Start \in Nat
<1>1. filePos >= ring.phyPos /\ Cache!TypeOK
  BY DEF CacheIInv, FailuresFit
<1> QED BY <1>1, NumbersAre DEF Cache!Start

(* Bytes that are written, wherever the file stands, with and without a    *)
(* failure before.                                                         *)
LEMMA WrittenDoes ==
  ASSUME Cache!ConstantsAssumption, Cache!TypeOK, Cache!CachedEnd <= MaxSize,
         NEW n \in 0..ring.cachedSize, Cache!Written(n),
         Cache!Start >= ring.cachedPos, Cache!Start \in Nat
  PROVE  /\ stream' \in Seq(Bytes \cup {Cache!Zero}) /\ filePos' \in Nat
         /\ ring' \in [virtPos : 0..MaxSize, virtSize : 0..MaxSize, phyPos : 0..MaxSize,
                    phySize : 0..MaxSize, cachedPos : 0..MaxSize, cachedSize : 0..Cache!CacheSize]
         /\ ring'.virtPos = ring.virtPos /\ ring'.virtSize = ring.virtSize
         /\ ring'.phyPos = ring.cachedPos + n /\ ring'.phySize = Cache!Greater(ring.phySize, ring.cachedPos + n)
         /\ ring'.cachedPos = ring.cachedPos + n /\ ring'.cachedSize = ring.cachedSize - n
         /\ Cache!CachedEnd' = Cache!CachedEnd /\ filePos' >= ring'.phyPos
         /\ \A p \in 1..Cache!Lesser(ring.cachedPos, Len(stream)) : stream'[p] = stream[p]
<1>1. Cache!PutCached(n) /\ ring' = Cache!Counted(n) /\ filePos' = Cache!Start + n
  BY DEF Cache!Written
<1>2. /\ stream' \in Seq(Bytes \cup {Cache!Zero}) /\ Len(stream') = Cache!Greater(Len(stream), Cache!Start + n)
      /\ \A p \in 1..Len(stream') :
            stream'[p] = IF p \in (Cache!Start + 1)..(Cache!Start + n)
                       THEN cache[(ring.cachedPos + p - 1 - Cache!Start) % Cache!CacheSize]
                       ELSE IF p <= Len(stream) THEN stream[p] ELSE Cache!Zero
  BY <1>1, FileAfterPut
<1>3. /\ ring' = [virtPos |-> ring.virtPos, virtSize |-> ring.virtSize, phyPos |-> ring.cachedPos + n,
               phySize |-> Cache!Greater(ring.phySize, ring.cachedPos + n),
               cachedPos |-> ring.cachedPos + n, cachedSize |-> ring.cachedSize - n]
      /\ ring' \in [virtPos : 0..MaxSize, virtSize : 0..MaxSize, phyPos : 0..MaxSize,
            phySize : 0..MaxSize, cachedPos : 0..MaxSize, cachedSize : 0..Cache!CacheSize]
  BY <1>1, CountedFields
<1>4. /\ ring'.virtPos = ring.virtPos /\ ring'.virtSize = ring.virtSize
      /\ ring'.phyPos = ring.cachedPos + n /\ ring'.phySize = Cache!Greater(ring.phySize, ring.cachedPos + n)
      /\ ring'.cachedPos = ring.cachedPos + n /\ ring'.cachedSize = ring.cachedSize - n
  BY <1>3
<1>5. Cache!CachedEnd' = Cache!CachedEnd /\ filePos' >= ring'.phyPos /\ filePos' \in Nat
  <2>1. ring.cachedPos \in Nat /\ ring.cachedSize \in Nat /\ n \in Nat
    BY NumbersAre
  <2> QED BY <1>1, <1>4, <2>1 DEF Cache!CachedEnd
<1>6. \A p \in 1..Cache!Lesser(ring.cachedPos, Len(stream)) : stream'[p] = stream[p]
  <2> TAKE p \in 1..Cache!Lesser(ring.cachedPos, Len(stream))
  <2>1. p \in 1..Len(stream') /\ p \notin (Cache!Start + 1)..(Cache!Start + n) /\ p <= Len(stream)
    BY <1>2, NumbersAre, SMTT(30) DEF Cache!Greater, Cache!Lesser
  <2> QED BY <1>2, <2>1
<1> QED BY <1>2, <1>3, <1>4, <1>5, <1>6

LEMMA CachedWritten ==
  ASSUME Cache!ConstantsAssumption, CacheIInv, InWrite, ring.cachedSize # 0,
         NEW n \in 0..ring.cachedSize, Cache!Written(n),
         UNCHANGED <<cache, pc, req, failed>>, pc \in {"zeros", "store"} => Cache!Gap >= 0
  PROVE  CacheIInv'
<1>0. Cache!TypeOK /\ pc \notin {"resize", "closed"} /\ Cache!CachedEnd <= MaxSize
  BY DEF CacheIInv, InWrite
<1>1. Cache!PutCached(n) /\ ring' = Cache!Counted(n) /\ filePos' = Cache!Start + n
  BY DEF Cache!Written
<1>2. /\ stream' \in Seq(Bytes \cup {Cache!Zero}) /\ filePos' \in Nat
      /\ ring'.virtPos = ring.virtPos /\ ring'.virtSize = ring.virtSize /\ ring'.phyPos = ring.cachedPos + n
      /\ ring'.phySize = Cache!Greater(ring.phySize, ring.cachedPos + n)
      /\ ring'.cachedPos = ring.cachedPos + n /\ ring'.cachedSize = ring.cachedSize - n
      /\ Cache!CachedEnd' = Cache!CachedEnd /\ filePos' >= ring'.phyPos
      /\ ring' \in [virtPos : 0..MaxSize, virtSize : 0..MaxSize, phyPos : 0..MaxSize,
              phySize : 0..MaxSize, cachedPos : 0..MaxSize, cachedSize : 0..Cache!CacheSize]
  BY <1>0, StartIs, WrittenDoes
<1>5. Cache!TypeOK'
  BY <1>0, <1>2 DEF Cache!TypeOK
<1>6. Cache!CachedEnd' <= MaxSize
  BY <1>0, <1>2
<1>7. RequestFits'
  BY <1>0, <1>2 DEF CacheIInv, RequestFits, InWrite
<1>8. ASSUME failed = "no" PROVE NothingFailed'
  <2>0. /\ Cache!Start = ring.cachedPos /\ Len(stream') = Cache!Greater(ring.phySize, ring.cachedPos + n)
        /\ \A p \in Nat \ {0} : Seen(p)' = Seen(p)
    <3>1. n \in 0..n
      OBVIOUS
    <3> QED BY <3>1, <1>0, <1>1, <1>8, PartWritten, PartWrittenIsSeen
  <2>1. /\ ring.phySize <= Reach /\ Cache!CachedEnd <= Reach
        /\ \A p \in Nat : p > ring.virtSize => Seen(p) = Cache!Zero
    BY <1>0, <1>8 DEF CacheIInv, NothingFailed
  <2>2. Reach' = Reach
    BY <1>2 DEF Reach, Cache!Greater
  <2>3. Reach \in Nat
    BY <1>0, NumbersAre DEF Reach, Cache!Greater
  <2>4. ring.cachedPos + n <= Cache!CachedEnd
    BY <1>0, NumbersAre DEF Cache!CachedEnd
  <2>5. ring'.phySize <= Reach' /\ Cache!CachedEnd' <= Reach'
    BY <1>0, <1>2, <2>1, <2>2, <2>4, NumbersAre, <2>3 DEF Cache!CachedEnd, Cache!Greater
  <2>6. ring'.phySize = Len(stream') /\ ring'.phyPos = filePos' /\ ring'.cachedPos <= ring'.phySize
    BY <1>0, <1>1, <1>2, <2>0, NumbersAre DEF Cache!Greater
  <2>7. \A p \in Nat : p > ring'.virtSize => Seen(p)' = Cache!Zero
    <3> SUFFICES ASSUME NEW p \in Nat, p > ring'.virtSize PROVE Seen(p)' = Cache!Zero
      OBVIOUS
    <3>1. p \in Nat \ {0} /\ p > ring.virtSize
      BY <1>0, <1>2, NumbersAre
    <3> QED BY <3>1, <2>0, <2>1
  <2> QED BY <2>5, <2>6, <2>7 DEF NothingFailed
<1>9. CacheReaches'
  <2> SUFFICES ASSUME pc \in {"zeros", "store"} PROVE CacheReaches'
    BY DEF CacheReaches
  <2>1. Cache!Gap' = Cache!Gap
    BY <1>2 DEF Cache!Gap
  <2>2. Cache!Gap >= 0 /\ (Cache!Gap > 0 => Cache!CachedEnd >= ring.phySize) /\ (pc = "store" => Cache!Gap <= 0)
    BY DEF CacheIInv, CacheReaches
  <2>3. ring.cachedPos + n <= Cache!CachedEnd /\ Cache!CachedEnd <= ring.virtPos
    BY <1>0, <2>2, NumbersAre, SMTT(30) DEF Cache!CachedEnd, Cache!Gap
  <2>4. ring'.cachedPos <= ring'.phySize /\ ring'.cachedPos <= ring'.virtPos
    BY <1>0, <1>2, <2>3, NumbersAre, SMTT(30) DEF Cache!Greater, Cache!CachedEnd
  <2>5. Cache!Gap' > 0 => Cache!CachedEnd' >= ring'.phySize
    BY <1>2, <2>1, <2>2, <2>3 DEF Cache!Greater
  <2> QED BY <2>1, <2>2, <2>4, <2>5 DEF CacheReaches
<1>10. FailuresFit' /\ ClosingFits'
  <2>1. ring'.cachedPos <= ring'.phySize
    BY <1>0, <1>2, NumbersAre DEF Cache!Greater
  <2> QED BY <1>0, <1>2, <2>1 DEF CacheIInv, FailuresFit, ClosingFits
<1>11. failed # "no" => NothingFailed'
  BY DEF NothingFailed
<1> QED BY <1>5, <1>6, <1>7, <1>8, <1>9, <1>10, <1>11 DEF CacheIInv

(* The pieces that may be counted when a write fails. *)
LEMMA FailedPieces ==
  ASSUME Cache!ConstantsAssumption, CacheIInv, NEW n \in 0..ring.cachedSize, Cache!WriteFails(n)
  PROVE  \E k \in 0..n, m \in 0..n :
           /\ m <= k /\ m \in Nat /\ Cache!PutCached(k) /\ filePos' = Cache!Start + k
           /\ ring' = Cache!Counted(m) \/ (m = 0 /\ ring' = [ring EXCEPT !.phyPos = ring.cachedPos])
<1> DEFINE piece == Cache!CacheSize - (ring.cachedPos % Cache!CacheSize)
<1>1. PICK k \in 0..(n - 1) :
        /\ Cache!PutCached(k) /\ filePos' = Cache!Start + k
        /\ ring' = IF k >= piece THEN Cache!Counted(piece) ELSE [ring EXCEPT !.phyPos = ring.cachedPos]
  BY DEF Cache!WriteFails
<1>2. piece \in Nat
  <2>1. ring.cachedPos \in Nat
    BY NumbersAre DEF CacheIInv
  <2>2. Cache!CacheSize \in Nat \ {0}
    BY SizePositive
  <2>3. (ring.cachedPos % Cache!CacheSize) \in 0..(Cache!CacheSize - 1)
    BY <2>1, <2>2, SlotIs
  <2> QED BY <2>2, <2>3
<1>3. n \in Nat
  BY NumbersAre DEF CacheIInv
<1>4. CASE k >= piece
  <2>1. piece \in 0..n /\ piece <= k /\ k \in 0..n
    BY <1>2, <1>3, <1>4
  <2> QED BY <1>1, <1>2, <1>4, <2>1
<1>5. CASE ~(k >= piece)
  <2>1. k \in 0..n /\ 0 \in 0..n /\ 0 <= k
    BY <1>3
  <2> QED BY <1>1, <1>5, <2>1
<1> QED BY <1>4, <1>5

LEMMA WriteFailed ==
  ASSUME Cache!ConstantsAssumption, CacheIInv, pc # "closed", failed # "close",
         NEW n \in 0..ring.cachedSize, Cache!WriteFails(n), UNCHANGED cache,
         Cache!Start >= ring.cachedPos, Cache!Start \in Nat
  PROVE  /\ stream' \in Seq(Bytes \cup {Cache!Zero}) /\ filePos' \in Nat
         /\ ring' \in [virtPos : 0..MaxSize, virtSize : 0..MaxSize, phyPos : 0..MaxSize,
                    phySize : 0..MaxSize, cachedPos : 0..MaxSize, cachedSize : 0..Cache!CacheSize]
         /\ Cache!CachedEnd' = Cache!CachedEnd /\ ring'.virtPos = ring.virtPos
         /\ filePos' >= ring'.phyPos
         /\ ring.cachedPos <= ring.phySize => ring'.cachedPos <= ring'.phySize
         /\ \A p \in 1..Cache!Lesser(ring.cachedPos, Len(stream)) : p <= Len(stream') /\ stream'[p] = stream[p]
<1>0. Cache!TypeOK /\ Cache!CachedEnd <= MaxSize /\ n \in Nat
  <2>1. Cache!TypeOK /\ Cache!CachedEnd <= MaxSize
    BY DEF CacheIInv
  <2> QED BY <2>1, NumbersAre
<1>1. PICK k \in 0..n, m \in 0..n :
        /\ m <= k /\ m \in Nat /\ Cache!PutCached(k) /\ filePos' = Cache!Start + k
        /\ ring' = Cache!Counted(m) \/ (m = 0 /\ ring' = [ring EXCEPT !.phyPos = ring.cachedPos])
  BY FailedPieces
<1>2. k \in 0..ring.cachedSize /\ m \in 0..ring.cachedSize
  BY <1>0, NumbersAre
<1>3. /\ stream' \in Seq(Bytes \cup {Cache!Zero}) /\ Len(stream') = Cache!Greater(Len(stream), Cache!Start + k)
      /\ \A p \in 1..Len(stream') :
           stream'[p] = IF p \in (Cache!Start + 1)..(Cache!Start + k)
                      THEN cache[(ring.cachedPos + p - 1 - Cache!Start) % Cache!CacheSize]
                      ELSE IF p <= Len(stream) THEN stream[p] ELSE Cache!Zero
  BY <1>0, <1>1, <1>2, FileAfterPut
<1>4. \A p \in 1..Cache!Lesser(ring.cachedPos, Len(stream)) : p <= Len(stream') /\ stream'[p] = stream[p]
  <2> TAKE p \in 1..Cache!Lesser(ring.cachedPos, Len(stream))
  <2>1. p \in 1..Len(stream') /\ p \notin (Cache!Start + 1)..(Cache!Start + k) /\ p <= Len(stream)
    <3>1. Len(stream) \in Nat /\ ring.cachedPos \in Nat /\ k \in Nat
      BY <1>0, NumbersAre
    <3>2. Len(stream') = Cache!Greater(Len(stream), Cache!Start + k)
      BY <1>3
    <3>3. p \in Nat \ {0} /\ p <= ring.cachedPos /\ p <= Len(stream)
      BY <3>1 DEF Cache!Lesser
    <3>4. p <= Len(stream') /\ Len(stream') \in Nat
      BY <3>1, <3>2, <3>3 DEF Cache!Greater
    <3> QED BY <3>1, <3>3, <3>4
  <2> QED BY <1>3, <2>1
<1>5. CASE ring' = Cache!Counted(m)
  <2>1. /\ Cache!Counted(m) = [virtPos |-> ring.virtPos, virtSize |-> ring.virtSize, phyPos |-> ring.cachedPos + m,
                         phySize |-> Cache!Greater(ring.phySize, ring.cachedPos + m),
                         cachedPos |-> ring.cachedPos + m, cachedSize |-> ring.cachedSize - m]
        /\ Cache!Counted(m) \in [virtPos : 0..MaxSize, virtSize : 0..MaxSize, phyPos : 0..MaxSize,
              phySize : 0..MaxSize, cachedPos : 0..MaxSize, cachedSize : 0..Cache!CacheSize]
    BY <1>0, <1>2, CountedFields
  <2>2. /\ ring'.virtPos = ring.virtPos /\ ring'.phyPos = ring.cachedPos + m
        /\ ring'.cachedPos = ring.cachedPos + m /\ ring'.cachedSize = ring.cachedSize - m
        /\ ring'.phySize = Cache!Greater(ring.phySize, ring.cachedPos + m)
    BY <2>1, <1>5
  <2>3. /\ Cache!CachedEnd' = Cache!CachedEnd /\ filePos' >= ring'.phyPos /\ filePos' \in Nat
        /\ ring'.cachedPos <= ring'.phySize
    <3>1. /\ ring.cachedPos \in Nat /\ ring.cachedSize \in Nat /\ k \in Nat /\ m \in Nat /\ m <= k
          /\ filePos' = Cache!Start + k /\ ring.phySize \in Nat
      BY <1>0, <1>1, NumbersAre
    <3> QED BY <2>2, <3>1 DEF Cache!CachedEnd, Cache!Greater
  <2> QED BY <1>3, <1>4, <1>5, <2>1, <2>2, <2>3
<1>6. CASE ring' = [ring EXCEPT !.phyPos = ring.cachedPos]
  <2>1. PICK c \in 0..MaxSize : c = ring.cachedPos
    BY <1>0, NumbersAre
  <2>2. ring' = [ring EXCEPT !.phyPos = c]
    BY <1>6, <2>1
  <2>3. /\ ring' \in [virtPos : 0..MaxSize, virtSize : 0..MaxSize, phyPos : 0..MaxSize,
              phySize : 0..MaxSize, cachedPos : 0..MaxSize, cachedSize : 0..Cache!CacheSize]
        /\ ring'.virtPos = ring.virtPos /\ ring'.phyPos = c
        /\ ring'.cachedPos = ring.cachedPos /\ ring'.cachedSize = ring.cachedSize
        /\ ring'.phySize = ring.phySize
    BY <2>2, <1>0 DEF Cache!TypeOK
  <2>4. Cache!CachedEnd' = Cache!CachedEnd /\ filePos' >= ring'.phyPos /\ filePos' \in Nat
    <3>1. ring.cachedPos \in Nat /\ ring.cachedSize \in Nat /\ k \in Nat /\ filePos' = Cache!Start + k
      BY <1>0, <1>1, NumbersAre
    <3> QED BY <2>1, <2>3, <3>1 DEF Cache!CachedEnd
  <2> QED BY <1>3, <1>4, <2>1, <2>3, <2>4
<1> QED BY <1>1, <1>5, <1>6

LEMMA WriteFailedKeeps ==
  ASSUME Cache!ConstantsAssumption, CacheIInv, InWrite, NEW n \in 0..ring.cachedSize,
         Cache!WriteFails(n), UNCHANGED cache,
         pc' = "idle", failed' = "call", req' = Cache!NoRequest
  PROVE  CacheIInv'
<1>0. /\ Cache!TypeOK /\ failed # "close" /\ pc \notin {"resize", "closed"} /\ Cache!CachedEnd <= MaxSize
      /\ ring.cachedSize # 0 => ring.cachedPos <= ring.phySize
  BY DEF CacheIInv, FailuresFit, InWrite
<1>1. Cache!Start >= ring.cachedPos /\ Cache!Start \in Nat /\ ring.cachedPos <= ring.phySize
  <2>1. ring.cachedSize # 0
    BY <1>0, NumbersAre DEF Cache!WriteFails
  <2> QED BY <1>0, <2>1, StartIs
<1>2. /\ stream' \in Seq(Bytes \cup {Cache!Zero}) /\ filePos' \in Nat
      /\ ring' \in [virtPos : 0..MaxSize, virtSize : 0..MaxSize, phyPos : 0..MaxSize,
                 phySize : 0..MaxSize, cachedPos : 0..MaxSize, cachedSize : 0..Cache!CacheSize]
      /\ Cache!CachedEnd' = Cache!CachedEnd /\ filePos' >= ring'.phyPos
      /\ ring'.cachedPos <= ring'.phySize
  BY <1>0, <1>1, WriteFailed
<1>3. req' \in [size : 0..MaxWrite, value : Bytes \cup {Cache!Zero}]
  BY DEF Cache!NoRequest, Cache!ConstantsAssumption
<1>4. Cache!TypeOK'
  BY <1>0, <1>2, <1>3 DEF Cache!TypeOK
<1> QED BY <1>0, <1>2, <1>4 DEF CacheIInv, RequestFits, InWrite, NothingFailed, CacheReaches,
   FailuresFit, ClosingFits

LEMMA MyWriteKeeps ==
  ASSUME Cache!ConstantsAssumption, CacheIInv, InWrite, ring.cachedSize # 0,
         NEW n \in 0..ring.cachedSize, Cache!MyWrite(n),
         pc \in {"zeros", "store"} => Cache!Gap >= 0
  PROVE  CacheIInv'
BY CachedWritten, WriteFailedKeeps DEF Cache!MyWrite

LEMMA FlushCacheKeeps ==
  ASSUME Cache!ConstantsAssumption, CacheIInv, Cache!FlushCache
  PROVE  CacheIInv'
<1>1. /\ InWrite /\ ring.cachedSize # 0 /\ ring.cachedSize \in 0..ring.cachedSize /\ Cache!MyWrite(ring.cachedSize)
      /\ pc = "flush"
  BY NumbersAre DEF CacheIInv, Cache!FlushCache, Cache!NotContiguous, InWrite
<1> QED BY <1>1, MyWriteKeeps

LEMMA EvictPiece ==
  ASSUME Cache!ConstantsAssumption, CacheIInv, Cache!Evict
  PROVE  /\ InWrite /\ ring.cachedSize # 0 /\ Cache!ToBlockEnd(ring.cachedSize) \in 0..ring.cachedSize
         /\ Cache!Gap >= 0 /\ Cache!MyWrite(Cache!ToBlockEnd(ring.cachedSize))
<1>0. Cache!TypeOK /\ Cache!CacheSize \in Nat \ {0} /\ ring.cachedSize \in Nat /\ ring.cachedPos \in Nat
  BY NumbersAre, SizePositive DEF CacheIInv
<1>1. (ring.cachedPos % BlockSize) \in 0..(BlockSize - 1)
  BY <1>0, SlotIs DEF Cache!ConstantsAssumption
<1>2. Cache!ToBlockEnd(ring.cachedSize) \in 0..ring.cachedSize
  BY <1>0, <1>1 DEF Cache!ToBlockEnd, Cache!Lesser, Cache!ConstantsAssumption
<1>3. ring.cachedSize # 0 /\ Cache!Gap >= 0
  <2>1. CASE pc = "store" /\ Cache!Gap = 0 /\ ring.cachedSize = Cache!CacheSize
    BY <2>1, <1>0
  <2>2. CASE pc = "zeros" /\ Cache!Gap > 0 /\ Cache!ZerosNow > Cache!CacheSize - ring.cachedSize
    <3>1. (Cache!CachedEnd % Cache!CacheSize) \in 0..(Cache!CacheSize - 1) /\ Cache!Gap \in Int
      <4>1. Cache!CachedEnd \in Nat /\ ring.virtPos \in Nat
        BY <1>0, NumbersAre
      <4>2. (Cache!CachedEnd % Cache!CacheSize) \in 0..(Cache!CacheSize - 1)
        BY <1>0, <4>1, SlotIs
      <4> QED BY <4>1, <4>2 DEF Cache!Gap
    <3>2. Cache!ZerosNow <= Cache!CacheSize
      BY <3>1, <1>0 DEF Cache!ZerosNow, Cache!Lesser
    <3>3. Cache!ZerosNow \in Int
      BY <3>1, <1>0 DEF Cache!ZerosNow, Cache!Lesser
    <3> QED BY <2>2, <3>1, <3>2, <3>3, <1>0
  <2> QED BY <2>1, <2>2 DEF Cache!Evict
<1> QED BY <1>2, <1>3 DEF Cache!Evict, InWrite

LEMMA EvictKeeps ==
  ASSUME Cache!ConstantsAssumption, CacheIInv, Cache!Evict
  PROVE  CacheIInv'
BY EvictPiece, MyWriteKeeps

LEMMA WriteCallKeeps ==
  ASSUME Cache!ConstantsAssumption, CacheIInv, NEW size \in 1..MaxWrite, NEW value \in Bytes,
         Cache!WriteCall(size, value)
  PROVE  CacheIInv'
<1>1. pc = "idle" /\ ring.virtPos + size <= MaxSize
  BY DEF Cache!WriteCall
<1>2. /\ req' = [size |-> size, value |-> value] /\ pc' = "flush"
      /\ UNCHANGED <<stream, filePos, cache, ring, failed>>
  BY DEF Cache!WriteCall
<1>3. size \in 0..MaxWrite /\ size > 0
  BY DEF Cache!ConstantsAssumption
<1>4. Cache!TypeOK'
  BY <1>2, <1>3 DEF CacheIInv, Cache!TypeOK
<1>5. Cache!CachedEnd' = Cache!CachedEnd /\ Reach' = Reach /\ \A p \in Nat : Seen(p)' = Seen(p)
  BY <1>1, <1>2 DEF Cache!CachedEnd, Reach, Seen
<1>6. NothingFailed'
  BY <1>1, <1>2, <1>5 DEF CacheIInv, NothingFailed
<1>7. RequestFits'
  <2>1. req'.size = size /\ req'.value = value
    BY <1>2
  <2> QED BY <1>1, <1>2, <1>3, <2>1 DEF RequestFits
<1> QED BY <1>1, <1>2, <1>4, <1>5, <1>6, <1>7 DEF CacheIInv, CacheReaches, FailuresFit, ClosingFits

LEMMA ContiguousDoes ==
  ASSUME Cache!ConstantsAssumption, CacheIInv, Cache!Contiguous
  PROVE  /\ pc = "flush" /\ Cache!CachedEnd' <= MaxSize
         /\ ring'.virtPos = ring.virtPos /\ ring'.virtSize = ring.virtSize /\ ring'.phyPos = ring.phyPos
         /\ ring'.phySize = ring.phySize /\ ring'.cachedSize = ring.cachedSize
         /\ ring'.cachedPos = IF ring.cachedSize # 0 THEN ring.cachedPos ELSE Cache!Lesser(ring.phySize, ring.virtPos)
         /\ ring' \in [virtPos : 0..MaxSize, virtSize : 0..MaxSize, phyPos : 0..MaxSize,
                    phySize : 0..MaxSize, cachedPos : 0..MaxSize, cachedSize : 0..Cache!CacheSize]
         /\ \A p \in Nat \ {0} : Seen(p)' = Seen(p)
<1>0. pc = "flush" /\ UNCHANGED <<stream, filePos, cache, req, failed>> /\ Cache!TypeOK
      /\ Cache!CachedEnd <= MaxSize
  BY DEF CacheIInv, Cache!Contiguous
<1>1. CASE ring.cachedSize # 0
  <2>1. ring' = ring
    BY <1>1 DEF Cache!Contiguous
  <2> QED BY <1>0, <1>1, <2>1 DEF Cache!CachedEnd, Seen, Cache!TypeOK
<1>2. CASE ring.cachedSize = 0
  <2>1. PICK c \in 0..MaxSize : c = Cache!Lesser(ring.phySize, ring.virtPos)
    BY <1>0, NumbersAre DEF Cache!Lesser
  <2>2. ring' = [ring EXCEPT !.cachedPos = c]
    BY <1>2, <2>1 DEF Cache!Contiguous
  <2>3. /\ ring'.virtPos = ring.virtPos /\ ring'.virtSize = ring.virtSize /\ ring'.phyPos = ring.phyPos
        /\ ring'.phySize = ring.phySize /\ ring'.cachedSize = ring.cachedSize /\ ring'.cachedPos = c
        /\ ring' \in [virtPos : 0..MaxSize, virtSize : 0..MaxSize, phyPos : 0..MaxSize,
                   phySize : 0..MaxSize, cachedPos : 0..MaxSize, cachedSize : 0..Cache!CacheSize]
    BY <1>0, <2>2 DEF Cache!TypeOK
  <2>4. Cache!CachedEnd = ring.cachedPos /\ Cache!CachedEnd' = c
    BY <1>0, <1>2, <2>3, NumbersAre DEF Cache!CachedEnd
  <2>5. \A p \in Nat \ {0} : p \notin (ring.cachedPos + 1)..Cache!CachedEnd /\ p \notin (c + 1)..Cache!CachedEnd'
    BY <1>0, <2>4, NumbersAre
  <2>6. \A p \in Nat \ {0} : Seen(p)' = Seen(p)
    BY <1>0, <2>3, <2>5 DEF Seen
  <2> QED BY <1>0, <1>2, <2>1, <2>3, <2>4, <2>6
<1> QED BY <1>1, <1>2

LEMMA ContiguousKeeps ==
  ASSUME Cache!ConstantsAssumption, CacheIInv, Cache!Contiguous
  PROVE  CacheIInv'
<1>0. /\ pc = "flush" /\ pc' = "zeros"
      /\ UNCHANGED <<stream, filePos, cache, req, failed>> /\ Cache!TypeOK
  BY ContiguousDoes DEF CacheIInv, Cache!Contiguous
<1>1. Cache!TypeOK'
  BY <1>0, ContiguousDoes DEF Cache!TypeOK
<1>2. RequestFits' /\ FailuresFit' /\ ClosingFits'
  BY <1>0, ContiguousDoes DEF CacheIInv, RequestFits, InWrite, FailuresFit, ClosingFits
<1>3. ring.cachedSize # 0 => ring.cachedPos <= ring.phySize
  BY <1>0 DEF CacheIInv, FailuresFit
<1>4. ASSUME failed = "no" PROVE NothingFailed'
  <2>0. /\ ring.phySize = Len(stream) /\ ring.phyPos = filePos
        /\ ring.phySize <= ring.virtSize /\ Cache!CachedEnd <= ring.virtSize
        /\ \A p \in Nat : p > ring.virtSize => Seen(p) = Cache!Zero
    BY <1>0, <1>4 DEF CacheIInv, NothingFailed, Reach
  <2>1. Reach' = Cache!Greater(ring.virtSize, ring.virtPos) /\ ring.virtSize <= Reach' /\ Reach' \in Nat
    BY <1>0, ContiguousDoes, NumbersAre DEF Reach, Cache!Greater
  <2>2. Cache!CachedEnd' <= Reach'
    BY <1>0, <1>3, <2>0, <2>1, ContiguousDoes, NumbersAre, SMTT(30) DEF Cache!CachedEnd, Cache!Lesser, Cache!Greater
  <2>3. \A p \in Nat : p > ring'.virtSize => Seen(p)' = Cache!Zero
    <3> SUFFICES ASSUME NEW p \in Nat, p > ring'.virtSize PROVE Seen(p)' = Cache!Zero
      OBVIOUS
    <3>1. p \in Nat \ {0} /\ p > ring.virtSize
      BY <1>0, ContiguousDoes, NumbersAre
    <3> QED BY <3>1, <2>0, ContiguousDoes
  <2>4. ring'.cachedSize # 0 => ring'.cachedPos <= ring'.phySize
    BY <1>0, <1>3, <2>1, ContiguousDoes, NumbersAre
  <2>5. ring'.phySize <= Reach'
    BY <1>0, <2>0, <2>1, ContiguousDoes, NumbersAre
  <2> QED BY <1>0, <2>0, <2>2, <2>3, <2>4, <2>5, ContiguousDoes DEF NothingFailed
<1>5. CacheReaches'
  <2>1. ~Cache!NotContiguous
    BY DEF Cache!Contiguous
  <2>2. ring'.cachedPos <= ring'.phySize /\ ring'.cachedPos <= ring'.virtPos
    <3>1. CASE ring.cachedSize # 0
      BY <1>0, <1>3, <2>1, <3>1, ContiguousDoes, NumbersAre DEF Cache!NotContiguous
    <3>2. CASE ring.cachedSize = 0
      BY <1>0, <3>2, ContiguousDoes, NumbersAre DEF Cache!Lesser
    <3> QED BY <3>1, <3>2
  <2>3. Cache!Gap' > 0 => Cache!CachedEnd' >= ring'.phySize
    <3>1. CASE ring.cachedSize # 0
      BY <1>0, <1>3, <2>1, <3>1, ContiguousDoes, NumbersAre DEF Cache!NotContiguous, Cache!Gap,
         Cache!CachedEnd
    <3>2. CASE ring.cachedSize = 0
      BY <1>0, <3>2, ContiguousDoes, NumbersAre DEF Cache!Lesser, Cache!Gap, Cache!CachedEnd
    <3> QED BY <3>1, <3>2
  <2> QED BY <1>0, <2>2, <2>3 DEF CacheReaches
<1>6. failed # "no" => NothingFailed'
  BY <1>0 DEF NothingFailed
<1> QED BY <1>1, <1>2, <1>4, <1>5, <1>6, ContiguousDoes DEF CacheIInv

LEMMA WriteZerosKeeps ==
  ASSUME Cache!ConstantsAssumption, CacheIInv, Cache!WriteZeros
  PROVE  CacheIInv'
<1>0. /\ pc = "zeros" /\ UNCHANGED <<stream, filePos, req, failed>>
      /\ Cache!TypeOK /\ Cache!CachedEnd <= MaxSize
  BY DEF CacheIInv, Cache!WriteZeros
<1>1. CASE Cache!Gap <= 0
  <2>1. pc' = "store" /\ UNCHANGED <<cache, ring>>
    BY <1>1 DEF Cache!WriteZeros
  <2>2. Cache!TypeOK'
    BY <1>0, <2>1 DEF Cache!TypeOK
  <2>3. Reach' = Reach /\ Cache!CachedEnd' = Cache!CachedEnd /\ Cache!Gap' = Cache!Gap /\ \A p \in Nat : Seen(p)' = Seen(p)
    BY <1>0, <2>1 DEF Reach, Cache!CachedEnd, Cache!Gap, Seen
  <2>4. NothingFailed'
    BY <1>0, <2>1, <2>3 DEF CacheIInv, NothingFailed
  <2>5. CacheReaches'
    BY <1>0, <1>1, <2>1, <2>3 DEF CacheIInv, CacheReaches
  <2> QED BY <1>0, <2>1, <2>2, <2>3, <2>4, <2>5 DEF CacheIInv, RequestFits, InWrite,
     FailuresFit, ClosingFits
<1>2. CASE ~(Cache!Gap <= 0)
  <2>1. /\ Cache!ZerosNow <= Cache!CacheSize - ring.cachedSize /\ pc' = pc
        /\ cache' = [k \in DOMAIN cache |->
               IF k \in (Cache!CachedEnd % Cache!CacheSize)..((Cache!CachedEnd % Cache!CacheSize) + Cache!ZerosNow - 1)
               THEN Cache!Zero ELSE cache[k]]
        /\ ring' = [ring EXCEPT !.cachedSize = @ + Cache!ZerosNow]
    BY <1>2 DEF Cache!WriteZeros
  <2>2. /\ Cache!ZerosNow \in Nat \ {0} /\ Cache!CachedEnd' = Cache!CachedEnd + Cache!ZerosNow /\ Cache!CachedEnd' <= ring.virtPos
        /\ ring' = [virtPos |-> ring.virtPos, virtSize |-> ring.virtSize, phyPos |-> ring.phyPos,
                 phySize |-> ring.phySize, cachedPos |-> ring.cachedPos,
                 cachedSize |-> ring.cachedSize + Cache!ZerosNow]
        /\ ring.cachedSize + Cache!ZerosNow \in 0..Cache!CacheSize
        /\ failed = "no" => \A p \in Nat \ {0} : Seen(p)' = Seen(p)
    BY <1>0, <1>2, <2>1, ZerosDo
  <2>3. /\ ring'.virtPos = ring.virtPos /\ ring'.virtSize = ring.virtSize /\ ring'.phyPos = ring.phyPos
        /\ ring'.phySize = ring.phySize /\ ring'.cachedPos = ring.cachedPos
        /\ ring'.cachedSize = ring.cachedSize + Cache!ZerosNow
    BY <2>2
  <2>4. Cache!TypeOK'
    <3>1. cache' \in [0..(Cache!CacheSize - 1) -> Bytes \cup {Cache!Zero}]
      BY <1>0, <2>1 DEF Cache!TypeOK
    <3>2. ring' \in [virtPos : 0..MaxSize, virtSize : 0..MaxSize, phyPos : 0..MaxSize,
                  phySize : 0..MaxSize, cachedPos : 0..MaxSize, cachedSize : 0..Cache!CacheSize]
      BY <1>0, <2>2, NumbersAre, SMTT(30)
    <3> QED BY <1>0, <2>1, <3>1, <3>2 DEF Cache!TypeOK
  <2>5. ASSUME failed = "no" PROVE NothingFailed'
    <3>1. Reach' = Reach /\ Reach = Cache!Greater(ring.virtSize, ring.virtPos) /\ Cache!CachedEnd' <= Reach'
      BY <1>0, <2>1, <2>2, <2>3, NumbersAre, SMTT(30) DEF Reach, Cache!Greater, Cache!CachedEnd
    <3>2. \A p \in Nat : p > ring'.virtSize => Seen(p)' = Cache!Zero
      <4> SUFFICES ASSUME NEW p \in Nat, p > ring'.virtSize PROVE Seen(p)' = Cache!Zero
        OBVIOUS
      <4>1. p \in Nat \ {0} /\ p > ring.virtSize
        BY <1>0, <2>3, NumbersAre
      <4>2. Seen(p) = Cache!Zero
        BY <1>0, <2>5, <4>1 DEF CacheIInv, NothingFailed
      <4> QED BY <2>5, <4>1, <4>2, <2>2
    <3>3. ring'.cachedPos <= ring'.phySize
      BY <1>0, <2>3 DEF CacheIInv, CacheReaches
    <3> QED BY <1>0, <2>1, <2>3, <2>5, <3>1, <3>2, <3>3 DEF CacheIInv, NothingFailed
  <2>6. CacheReaches'
    <3>1. Cache!CachedEnd' >= ring'.phySize
      BY <1>0, <1>2, <2>2, <2>3, NumbersAre, SMTT(30) DEF CacheIInv, CacheReaches, Cache!Gap, Cache!CachedEnd
    <3>2. ring'.cachedPos <= ring'.phySize /\ ring'.cachedPos <= ring'.virtPos
      BY <1>0, <2>3 DEF CacheIInv, CacheReaches
    <3> QED BY <1>0, <2>1, <3>1, <3>2 DEF CacheReaches
  <2>7. RequestFits' /\ FailuresFit' /\ ClosingFits'
    BY <1>0, <2>1, <2>3 DEF CacheIInv, RequestFits, InWrite, FailuresFit, CacheReaches, ClosingFits
  <2>8. Cache!CachedEnd' <= MaxSize
    BY <1>0, <2>2, NumbersAre DEF Cache!CachedEnd
  <2>9. failed # "no" => NothingFailed'
    BY <1>0 DEF NothingFailed
  <2> QED BY <2>4, <2>5, <2>6, <2>7, <2>8, <2>9 DEF CacheIInv
<1> QED BY <1>1, <1>2

LEMMA StoreKeeps ==
  ASSUME Cache!ConstantsAssumption, CacheIInv, Cache!Store
  PROVE  CacheIInv'
<1> DEFINE n == StoredNow
<1>0. /\ pc = "store" /\ UNCHANGED <<stream, filePos, failed>> /\ pc' = "idle"
      /\ req' = Cache!NoRequest /\ Cache!TypeOK /\ Cache!CachedEnd <= MaxSize
      /\ req.value \in Bytes /\ req.size \in Nat /\ ring.virtPos + req.size <= MaxSize
  BY DEF CacheIInv, RequestFits, InWrite, Cache!Store, Cache!TypeOK
<1>1. /\ n \in 1..req.size
      /\ ring' = [virtPos |-> ring.virtPos + n, virtSize |-> Cache!Greater(ring.virtSize, ring.virtPos + n),
               phyPos |-> ring.phyPos, phySize |-> ring.phySize, cachedPos |-> ring.cachedPos,
               cachedSize |-> Cache!Greater(ring.cachedSize, ring.virtPos + n - ring.cachedPos)]
      /\ Cache!Greater(ring.cachedSize, ring.virtPos + n - ring.cachedPos) \in 1..Cache!CacheSize
      /\ Cache!CachedEnd' = Cache!Greater(Cache!CachedEnd, ring.virtPos + n)
      /\ \A p \in Nat \ {0} :
           Seen(p)' = IF p \in (ring.virtPos + 1)..(ring.virtPos + n) THEN req.value ELSE Seen(p)
  BY StoreDoes
<1>2. /\ ring'.virtPos = ring.virtPos + n /\ ring'.virtSize = Cache!Greater(ring.virtSize, ring.virtPos + n)
      /\ ring'.phyPos = ring.phyPos /\ ring'.phySize = ring.phySize /\ ring'.cachedPos = ring.cachedPos
  BY <1>1
<1>3. n \in Nat \ {0} /\ ring.virtPos + n \in 0..MaxSize /\ ring.virtPos \in Nat
  <2>1. ring.virtPos \in Nat /\ MaxSize \in Nat
    BY <1>0, NumbersAre
  <2>2. req.size \in Nat /\ ring.virtPos + req.size <= MaxSize /\ n \in 1..req.size
    BY <1>0, <1>1
  <2> HIDE DEF n
  <2> QED BY <2>1, <2>2
<1>4. Cache!TypeOK'
  <2>1. cache' \in [0..(Cache!CacheSize - 1) -> Bytes \cup {Cache!Zero}]
    BY <1>0 DEF Cache!Store, Cache!TypeOK
  <2>2. Cache!Greater(ring.virtSize, ring.virtPos + n) \in 0..MaxSize
    BY <1>0, <1>3, NumbersAre DEF Cache!Greater
  <2>3. Cache!Greater(ring.cachedSize, ring.virtPos + n - ring.cachedPos) \in 0..Cache!CacheSize
    BY <1>0, <1>1, NumbersAre
  <2>4. ring' \in [virtPos : 0..MaxSize, virtSize : 0..MaxSize, phyPos : 0..MaxSize,
                phySize : 0..MaxSize, cachedPos : 0..MaxSize, cachedSize : 0..Cache!CacheSize]
    BY <1>0, <1>1, <1>3, <2>2, <2>3, NumbersAre, SMTT(30)
  <2>5. req' \in [size : 0..MaxWrite, value : Bytes \cup {Cache!Zero}]
    BY <1>0 DEF Cache!NoRequest, Cache!ConstantsAssumption
  <2> QED BY <1>0, <2>1, <2>4, <2>5 DEF Cache!TypeOK
<1>5. Cache!CachedEnd' <= MaxSize
  BY <1>0, <1>1, <1>3 DEF Cache!Greater
<1>6. ASSUME failed = "no" PROVE NothingFailed'
  <2>1. /\ ring.phySize = Len(stream) /\ ring.phyPos = filePos
        /\ ring.phySize <= Cache!Greater(ring.virtSize, ring.virtPos)
        /\ Cache!CachedEnd <= Cache!Greater(ring.virtSize, ring.virtPos)
        /\ \A p \in Nat : p > ring.virtSize => Seen(p) = Cache!Zero
    BY <1>0, <1>6 DEF CacheIInv, NothingFailed, Reach
  <2>2. ring.cachedPos <= ring.phySize
    BY <1>0 DEF CacheIInv, CacheReaches
  <2>3. Reach' = Cache!Greater(ring.virtSize, ring.virtPos + n)
    BY <1>0, <1>2 DEF Reach
  <2>4. ring'.phySize <= Reach' /\ Cache!CachedEnd' <= Reach'
    BY <1>0, <1>1, <1>2, <1>3, <2>1, <2>3, NumbersAre, SMTT(30) DEF Cache!Greater, Cache!CachedEnd
  <2>5. ASSUME NEW p \in Nat, p > ring'.virtSize
        PROVE  Seen(p)' = Cache!Zero
    <3>1. p \in Nat \ {0} /\ p > ring.virtSize /\ p \notin (ring.virtPos + 1)..(ring.virtPos + n)
      BY <1>0, <1>2, <1>3, <2>5, NumbersAre, SMTT(30) DEF Cache!Greater
    <3> QED BY <3>1, <1>1, <2>1
  <2> QED BY <1>0, <1>2, <2>1, <2>2, <2>4, <2>5 DEF NothingFailed
<1>7. FailuresFit' /\ (failed # "no" => NothingFailed')
  BY <1>0, <1>2 DEF CacheIInv, CacheReaches, FailuresFit, NothingFailed
<1> QED BY <1>0, <1>4, <1>5, <1>6, <1>7 DEF CacheIInv, RequestFits, InWrite, CacheReaches, ClosingFits

LEMMA SeekKeeps ==
  ASSUME Cache!ConstantsAssumption, CacheIInv, NEW n \in 0..MaxSize, Cache!Seek(n)
  PROVE  CacheIInv'
<1>0. /\ pc = "idle" /\ UNCHANGED <<stream, filePos, cache, pc, req, failed>>
      /\ Cache!TypeOK /\ Cache!CachedEnd <= MaxSize /\ ring' = [ring EXCEPT !.virtPos = n]
  BY DEF CacheIInv, Cache!Seek
<1>1. /\ ring'.virtSize = ring.virtSize /\ ring'.phyPos = ring.phyPos /\ ring'.phySize = ring.phySize
      /\ ring'.cachedPos = ring.cachedPos /\ ring'.cachedSize = ring.cachedSize
      /\ ring' \in [virtPos : 0..MaxSize, virtSize : 0..MaxSize, phyPos : 0..MaxSize,
                 phySize : 0..MaxSize, cachedPos : 0..MaxSize, cachedSize : 0..Cache!CacheSize]
  BY <1>0 DEF Cache!TypeOK
<1>2. Cache!TypeOK'
  BY <1>0, <1>1 DEF Cache!TypeOK
<1>3. Cache!CachedEnd' = Cache!CachedEnd /\ Reach' = Reach /\ \A p \in Nat : Seen(p)' = Seen(p)
  BY <1>0, <1>1 DEF Cache!CachedEnd, Reach, Seen
<1>4. NothingFailed'
  BY <1>0, <1>1, <1>3 DEF CacheIInv, NothingFailed
<1> QED BY <1>0, <1>2, <1>3, <1>4 DEF CacheIInv, RequestFits, InWrite, CacheReaches,
   FailuresFit, ClosingFits

SizeIsSet(n) ==
  /\ ring' = [ring EXCEPT !.virtSize = n, !.phySize = Cache!Lesser(@, n),
                    !.cachedPos = IF n <= ring.cachedPos THEN n ELSE @,
                    !.cachedSize = IF n <= ring.cachedPos THEN 0 ELSE Cache!Lesser(@, n - ring.cachedPos)]
  /\ stream' = Cache!Resized(stream, IF n < ring.phySize THEN n ELSE Len(stream))

(* The fields and the file, whether or not a call has failed before.       *)
LEMMA SetSizeFields ==
  ASSUME Cache!ConstantsAssumption, CacheIInv, NEW n \in 0..MaxSize, pc = "idle", SizeIsSet(n)
  PROVE  /\ stream' \in Seq(Bytes \cup {Cache!Zero})
         /\ Len(stream') = IF n < ring.phySize THEN n ELSE Len(stream)
         /\ \A p \in 1..Len(stream') : p <= Len(stream) => stream'[p] = stream[p]
         /\ ring' \in [virtPos : 0..MaxSize, virtSize : 0..MaxSize, phyPos : 0..MaxSize,
                    phySize : 0..MaxSize, cachedPos : 0..MaxSize, cachedSize : 0..Cache!CacheSize]
         /\ ring'.virtPos = ring.virtPos /\ ring'.virtSize = n /\ ring'.phyPos = ring.phyPos
         /\ ring'.phySize = Cache!Lesser(ring.phySize, n)
         /\ ring'.cachedPos = IF n <= ring.cachedPos THEN n ELSE ring.cachedPos
         /\ ring'.cachedSize = IF n <= ring.cachedPos THEN 0 ELSE Cache!Lesser(ring.cachedSize, n - ring.cachedPos)
         /\ Cache!CachedEnd' = IF n <= ring.cachedPos THEN n ELSE Cache!Lesser(Cache!CachedEnd, n)
         /\ Cache!CachedEnd' <= n
         /\ ring'.cachedSize # 0 => ring'.cachedPos <= ring'.phySize
<1>0. Cache!TypeOK /\ (ring.cachedSize # 0 => ring.cachedPos <= ring.phySize)
  BY DEF CacheIInv, FailuresFit
<1> DEFINE x == Cache!Lesser(ring.phySize, n)
           y == IF n <= ring.cachedPos THEN n ELSE ring.cachedPos
           z == IF n <= ring.cachedPos THEN 0 ELSE Cache!Lesser(ring.cachedSize, n - ring.cachedPos)
<1>1. x \in 0..MaxSize /\ y \in 0..MaxSize /\ z \in 0..Cache!CacheSize
  BY <1>0, NumbersAre, SMTT(30) DEF Cache!Lesser
<1>2. ring' = [virtPos |-> ring.virtPos, virtSize |-> n, phyPos |-> ring.phyPos, phySize |-> x,
            cachedPos |-> y, cachedSize |-> z]
  <2>1. PICK a : a = x
    OBVIOUS
  <2>2. PICK b : b = y
    OBVIOUS
  <2>3. PICK c : c = z
    OBVIOUS
  <2>4. ring' = [ring EXCEPT !.virtSize = n, !.phySize = x, !.cachedPos = y, !.cachedSize = z]
    BY DEF SizeIsSet
  <2> HIDE DEF x, y, z
  <2>5. ring' = [ring EXCEPT !.virtSize = n, !.phySize = a, !.cachedPos = b, !.cachedSize = c]
    BY <2>1, <2>2, <2>3, <2>4
  <2>6. ring' = [virtPos |-> ring.virtPos, virtSize |-> n, phyPos |-> ring.phyPos, phySize |-> a,
              cachedPos |-> b, cachedSize |-> c]
    BY <1>0, <2>5 DEF Cache!TypeOK
  <2> QED BY <2>1, <2>2, <2>3, <2>6
<1>3. /\ ring' \in [virtPos : 0..MaxSize, virtSize : 0..MaxSize, phyPos : 0..MaxSize,
                 phySize : 0..MaxSize, cachedPos : 0..MaxSize, cachedSize : 0..Cache!CacheSize]
      /\ ring'.virtPos = ring.virtPos /\ ring'.virtSize = n /\ ring'.phyPos = ring.phyPos
      /\ ring'.phySize = x /\ ring'.cachedPos = y /\ ring'.cachedSize = z
  <2>1. PICK a \in 0..MaxSize : a = x
    BY <1>1
  <2>2. PICK b \in 0..MaxSize : b = y
    BY <1>1
  <2>3. PICK c \in 0..Cache!CacheSize : c = z
    BY <1>1
  <2> HIDE DEF x, y, z
  <2>4. ring' = [virtPos |-> ring.virtPos, virtSize |-> n, phyPos |-> ring.phyPos, phySize |-> a,
              cachedPos |-> b, cachedSize |-> c]
    BY <1>2, <2>1, <2>2, <2>3
  <2>5. PICK v \in 0..MaxSize : v = ring.virtPos
    BY <1>0, NumbersAre
  <2>6. PICK w \in 0..MaxSize : w = ring.phyPos
    BY <1>0, NumbersAre
  <2>7. ring' = [virtPos |-> v, virtSize |-> n, phyPos |-> w, phySize |-> a,
              cachedPos |-> b, cachedSize |-> c]
    BY <2>4, <2>5, <2>6
  <2>8. ring' \in [virtPos : 0..MaxSize, virtSize : 0..MaxSize, phyPos : 0..MaxSize,
                 phySize : 0..MaxSize, cachedPos : 0..MaxSize, cachedSize : 0..Cache!CacheSize]
    BY <2>7
  <2>9. /\ ring'.virtPos = v /\ ring'.virtSize = n /\ ring'.phyPos = w
        /\ ring'.phySize = a /\ ring'.cachedPos = b /\ ring'.cachedSize = c
    BY <2>1, <2>2, <2>3, <2>5, <2>6, <2>7, <2>8
  <2> QED BY <2>1, <2>2, <2>3, <2>5, <2>6, <2>8, <2>9
<1>4. Cache!CachedEnd' = IF n <= ring.cachedPos THEN n ELSE Cache!Lesser(Cache!CachedEnd, n)
  BY <1>0, <1>3, NumbersAre, SMTT(30) DEF Cache!CachedEnd, Cache!Lesser
<1>5. Cache!CachedEnd' <= n
  BY <1>0, <1>4, NumbersAre DEF Cache!Lesser, Cache!CachedEnd
<1>6. z # 0 => y <= x
  BY <1>0, NumbersAre DEF Cache!Lesser
<1>7. /\ stream' \in Seq(Bytes \cup {Cache!Zero}) /\ Len(stream') = IF n < ring.phySize THEN n ELSE Len(stream)
      /\ \A p \in 1..Len(stream') : p <= Len(stream) => stream'[p] = stream[p]
  <2>1. PICK m \in Nat : m = (IF n < ring.phySize THEN n ELSE Len(stream))
    BY <1>0, NumbersAre
  <2>2. stream' = [p \in 1..m |-> IF p <= Len(stream) THEN stream[p] ELSE Cache!Zero]
    BY <2>1 DEF Cache!Resized, SizeIsSet
  <2>3. \A p \in 1..m : (IF p <= Len(stream) THEN stream[p] ELSE Cache!Zero) \in Bytes \cup {Cache!Zero}
    BY <1>0, NumbersAre DEF Cache!TypeOK
  <2> QED BY <2>1, <2>2, <2>3
<1> HIDE DEF x, y, z
<1>8. /\ ring'.phySize = x /\ ring'.cachedPos = y /\ ring'.cachedSize = z
  BY <1>3
<1> QED BY <1>3, <1>4, <1>5, <1>6, <1>7, <1>8 DEF x, y, z

LEMMA SetSizeDoes ==
  ASSUME Cache!ConstantsAssumption, CacheIInv, NEW n \in 0..MaxSize, pc = "idle", failed = "no",
         UNCHANGED cache, SizeIsSet(n)
  PROVE  /\ stream' \in Seq(Bytes \cup {Cache!Zero})
         /\ ring' \in [virtPos : 0..MaxSize, virtSize : 0..MaxSize, phyPos : 0..MaxSize,
                    phySize : 0..MaxSize, cachedPos : 0..MaxSize, cachedSize : 0..Cache!CacheSize]
         /\ ring'.virtPos = ring.virtPos /\ ring'.virtSize = n /\ ring'.phyPos = ring.phyPos
         /\ ring'.phySize = Len(stream') /\ ring'.phySize <= n /\ Cache!CachedEnd' <= n
         /\ ring'.cachedSize # 0 => ring'.cachedPos <= ring'.phySize
         /\ \A p \in Nat \ {0} : Seen(p)' = IF p <= n THEN Seen(p) ELSE Cache!Zero
         /\ \A p \in 1..Len(stream') : p \in 1..Len(stream) /\ stream'[p] = stream[p]
<1>0. /\ pc = "idle" /\ failed = "no" /\ Cache!TypeOK /\ Cache!CachedEnd <= MaxSize
      /\ ring.phySize = Len(stream) /\ (ring.cachedSize # 0 => ring.cachedPos <= ring.phySize)
  BY DEF CacheIInv, NothingFailed
<1> DEFINE x == Cache!Lesser(ring.phySize, n)
           y == IF n <= ring.cachedPos THEN n ELSE ring.cachedPos
           z == IF n <= ring.cachedPos THEN 0 ELSE Cache!Lesser(ring.cachedSize, n - ring.cachedPos)
<1>1. x \in 0..MaxSize
  BY <1>0, NumbersAre, SMTT(30) DEF Cache!Lesser
<1>3. /\ ring' \in [virtPos : 0..MaxSize, virtSize : 0..MaxSize, phyPos : 0..MaxSize,
                 phySize : 0..MaxSize, cachedPos : 0..MaxSize, cachedSize : 0..Cache!CacheSize]
      /\ ring'.virtPos = ring.virtPos /\ ring'.virtSize = n /\ ring'.phyPos = ring.phyPos
      /\ ring'.phySize = x /\ ring'.cachedPos = y /\ ring'.cachedSize = z
  BY <1>0, SetSizeFields
<1>4. Cache!CachedEnd' = IF n <= ring.cachedPos THEN n ELSE Cache!Lesser(Cache!CachedEnd, n)
  BY <1>0, SetSizeFields
<1>5. /\ stream' \in Seq(Bytes \cup {Cache!Zero}) /\ Len(stream') = x
      /\ \A p \in 1..x : p \in 1..Len(stream) /\ stream'[p] = stream[p]
  <2>1. x = (IF n < ring.phySize THEN n ELSE Len(stream)) /\ x <= Len(stream)
    BY <1>0, NumbersAre DEF Cache!Lesser
  <2> HIDE DEF x
  <2>2. x \in Nat /\ Len(stream) \in Nat
    BY <1>0, <1>1, NumbersAre
  <2>3. \A p \in 1..x : p \in 1..Len(stream) /\ p <= Len(stream)
    BY <2>1, <2>2
  <2> QED BY <1>0, <2>1, <2>3, SetSizeFields
<1>6. x <= n /\ Cache!CachedEnd' <= n
  BY <1>0, <1>4, NumbersAre DEF Cache!Lesser, Cache!CachedEnd
<1>7. z # 0 => y <= x
  BY <1>0, NumbersAre DEF Cache!Lesser
<1>8. ASSUME NEW p \in Nat \ {0}
      PROVE  Seen(p)' = IF p <= n THEN Seen(p) ELSE Cache!Zero
  <2>1. Seen(p)' = IF p \in (y + 1)..Cache!CachedEnd' THEN cache[(p - 1) % Cache!CacheSize]
                   ELSE IF p <= x THEN stream'[p] ELSE Cache!Zero
    <3>1. Cache!Lesser(ring'.phySize, Len(stream')) = x
      BY <1>3, <1>5 DEF Cache!Lesser
    <3> QED BY <1>3, <3>1 DEF Seen
  <2>2. Seen(p) = IF p \in (ring.cachedPos + 1)..Cache!CachedEnd THEN cache[(p - 1) % Cache!CacheSize]
                  ELSE IF p <= ring.phySize THEN stream[p] ELSE Cache!Zero
    <3>1. Cache!Lesser(ring.phySize, Len(stream)) = ring.phySize
      BY <1>0 DEF Cache!Lesser
    <3> QED BY <3>1 DEF Seen
  <2>3. CASE p <= n
    <3>1. p \in (y + 1)..Cache!CachedEnd' <=> p \in (ring.cachedPos + 1)..Cache!CachedEnd
      BY <1>0, <1>4, <2>3, NumbersAre DEF Cache!Lesser, Cache!CachedEnd
    <3>2. p <= x <=> p <= ring.phySize
      BY <1>0, <2>3, NumbersAre DEF Cache!Lesser
    <3>3. p <= x => stream'[p] = stream[p]
      BY <1>1, <1>5
    <3> HIDE DEF x, y, z
    <3> QED BY <2>1, <2>2, <2>3, <3>1, <3>2, <3>3
  <2>4. CASE p > n
    <3>1. p \notin (y + 1)..Cache!CachedEnd' /\ ~(p <= x)
      BY <1>0, <1>6, <1>1, <2>4, <1>4, NumbersAre DEF Cache!CachedEnd, Cache!Lesser
    <3> HIDE DEF x, y, z
    <3> QED BY <2>1, <2>4, <3>1
  <2> QED BY <2>3, <2>4, <1>0, NumbersAre
<1> HIDE DEF x, y, z
<1> QED BY <1>3, <1>5, <1>6, <1>7, <1>8

LEMMA SetSizeKeeps ==
  ASSUME Cache!ConstantsAssumption, CacheIInv, NEW n \in 0..MaxSize, Cache!SetSize(n)
  PROVE  CacheIInv'
<1>0. /\ pc = "idle" /\ failed # "close" /\ UNCHANGED <<filePos, cache, pc, req>>
      /\ Cache!TypeOK /\ Cache!CachedEnd <= MaxSize
  BY DEF CacheIInv, FailuresFit, Cache!SetSize
<1>3. CASE SizeIsSet(n) /\ failed = "call" /\ UNCHANGED failed
  <2>1. /\ stream' \in Seq(Bytes \cup {Cache!Zero})
        /\ ring' \in [virtPos : 0..MaxSize, virtSize : 0..MaxSize, phyPos : 0..MaxSize,
                   phySize : 0..MaxSize, cachedPos : 0..MaxSize, cachedSize : 0..Cache!CacheSize]
        /\ ring'.phyPos = ring.phyPos /\ Cache!CachedEnd' <= n
        /\ ring'.cachedSize # 0 => ring'.cachedPos <= ring'.phySize
    BY <1>0, <1>3, SetSizeFields
  <2>2. Cache!TypeOK'
    BY <1>0, <1>3, <2>1 DEF Cache!TypeOK
  <2>3. Cache!CachedEnd' <= MaxSize
    <3>1. Cache!CachedEnd' \in Int
      BY <2>2, NumbersAre DEF Cache!CachedEnd, Cache!TypeOK
    <3> QED BY <1>0, <2>1, <3>1, NumbersAre
  <2> QED BY <1>0, <1>3, <2>1, <2>2, <2>3 DEF CacheIInv, RequestFits, InWrite, NothingFailed,
     CacheReaches, FailuresFit, ClosingFits
<1>1. CASE SizeIsSet(n) /\ failed = "no" /\ UNCHANGED failed
  <2>1. /\ stream' \in Seq(Bytes \cup {Cache!Zero})
        /\ ring' \in [virtPos : 0..MaxSize, virtSize : 0..MaxSize, phyPos : 0..MaxSize,
                   phySize : 0..MaxSize, cachedPos : 0..MaxSize, cachedSize : 0..Cache!CacheSize]
        /\ ring'.virtPos = ring.virtPos /\ ring'.virtSize = n /\ ring'.phyPos = ring.phyPos
        /\ ring'.phySize = Len(stream') /\ ring'.phySize <= n /\ Cache!CachedEnd' <= n
        /\ ring'.cachedSize # 0 => ring'.cachedPos <= ring'.phySize
        /\ \A p \in Nat \ {0} : Seen(p)' = IF p <= n THEN Seen(p) ELSE Cache!Zero
    BY <1>0, <1>1, SetSizeDoes
  <2>2. Cache!TypeOK'
    BY <1>0, <1>1, <2>1 DEF Cache!TypeOK
  <2>3. Cache!CachedEnd' \in Int
    BY <2>2, NumbersAre DEF Cache!CachedEnd, Cache!TypeOK
  <2>4. Cache!CachedEnd' <= MaxSize
    BY <1>0, <2>1, <2>3, NumbersAre
  <2>5. Reach' = n
    BY <1>0, <2>1 DEF Reach
  <2>6. ASSUME NEW p \in Nat, p > ring'.virtSize
        PROVE  Seen(p)' = Cache!Zero
    <3>1. p \in Nat \ {0} /\ ~(p <= n)
      BY <1>0, <2>1, <2>6, NumbersAre
    <3> QED BY <3>1, <2>1
  <2>7. NothingFailed'
    BY <1>0, <1>1, <2>1, <2>5, <2>6 DEF CacheIInv, NothingFailed
  <2> QED BY <1>0, <1>1, <2>1, <2>2, <2>4, <2>7 DEF CacheIInv, RequestFits, InWrite, CacheReaches,
     FailuresFit, ClosingFits
<1>2. CASE ring' = [ring EXCEPT !.virtSize = n] /\ failed' = "call" /\ UNCHANGED stream
  <2>1. /\ ring'.phyPos = ring.phyPos /\ ring'.cachedPos = ring.cachedPos /\ ring'.cachedSize = ring.cachedSize
        /\ ring'.phySize = ring.phySize
        /\ ring' \in [virtPos : 0..MaxSize, virtSize : 0..MaxSize, phyPos : 0..MaxSize,
                   phySize : 0..MaxSize, cachedPos : 0..MaxSize, cachedSize : 0..Cache!CacheSize]
    BY <1>0, <1>2 DEF Cache!TypeOK
  <2>2. Cache!TypeOK'
    BY <1>0, <1>2, <2>1 DEF Cache!TypeOK
  <2>3. Cache!CachedEnd' = Cache!CachedEnd
    BY <2>1 DEF Cache!CachedEnd
  <2>4. FailuresFit'
    BY <1>0, <1>2, <2>1 DEF CacheIInv, FailuresFit
  <2> QED BY <1>0, <1>2, <2>2, <2>3, <2>4 DEF CacheIInv, RequestFits, InWrite, NothingFailed,
     CacheReaches, ClosingFits
<1>4. failed \in {"no", "call"}
  BY <1>0 DEF Cache!TypeOK
<1> QED BY <1>1, <1>2, <1>3, <1>4 DEF Cache!SetSize, SizeIsSet

-----------------------------------------------------------------------------
(* The destructor. *)
LEMMA FlushStart ==
  ASSUME Cache!ConstantsAssumption, CacheIInv, pc = "idle"
  PROVE  Cache!Start >= ring.cachedPos /\ Cache!Start \in Nat /\ failed \in {"no", "call"}
BY StartIs DEF CacheIInv, FailuresFit, Cache!TypeOK

LEMMA CountedNone ==
  ASSUME Cache!ConstantsAssumption, CacheIInv, pc = "idle", failed = "no", ring.cachedSize # 0
  PROVE  [ring EXCEPT !.phyPos = ring.cachedPos] = Cache!Counted(0)
<1>1. Cache!TypeOK /\ ring.cachedPos <= ring.phySize
  BY DEF CacheIInv, NothingFailed
<1>2. PICK c \in 0..MaxSize : c = ring.cachedPos
  BY <1>1, NumbersAre
<1>3. Cache!Counted(0) = [virtPos |-> ring.virtPos, virtSize |-> ring.virtSize, phyPos |-> c,
                    phySize |-> ring.phySize, cachedPos |-> c, cachedSize |-> ring.cachedSize]
  <2>1. 0 \in 0..ring.cachedSize /\ ring.cachedPos + 0 = c /\ ring.cachedSize - 0 = ring.cachedSize
        /\ Cache!Greater(ring.phySize, ring.cachedPos + 0) = ring.phySize
    BY <1>1, <1>2, NumbersAre DEF Cache!Greater
  <2>2. Cache!Counted(0) = [virtPos |-> ring.virtPos, virtSize |-> ring.virtSize, phyPos |-> ring.cachedPos + 0,
                          phySize |-> Cache!Greater(ring.phySize, ring.cachedPos + 0),
                          cachedPos |-> ring.cachedPos + 0, cachedSize |-> ring.cachedSize - 0]
    BY <2>1, CountedFields DEF CacheIInv
  <2> QED BY <2>1, <2>2
<1>4. [ring EXCEPT !.phyPos = c] = [virtPos |-> ring.virtPos, virtSize |-> ring.virtSize, phyPos |-> c,
                    phySize |-> ring.phySize, cachedPos |-> ring.cachedPos, cachedSize |-> ring.cachedSize]
  BY <1>1, SMTT(30) DEF Cache!TypeOK
<1> QED BY <1>2, <1>3, <1>4

LEMMA FlushWritesPart ==
  ASSUME Cache!ConstantsAssumption, CacheIInv, Cache!FinalFlush, failed = "no", ring.cachedSize # 0
  PROVE  \E k \in 0..ring.cachedSize, m \in 0..ring.cachedSize :
           /\ m \in 0..k /\ Cache!PutCached(k) /\ filePos' = Cache!Start + k /\ ring' = Cache!Counted(m)
           /\ failed' = "no" => m = ring.cachedSize
           /\ failed' \in {"no", "close"}
<1>0. ring.cachedSize \in 0..ring.cachedSize /\ pc = "idle"
  BY NumbersAre DEF CacheIInv, Cache!FinalFlush
<1>1. CASE Cache!Written(ring.cachedSize) /\ UNCHANGED failed
  BY <1>0, <1>1 DEF Cache!Written
<1>2. CASE Cache!WriteFails(ring.cachedSize) /\ Cache!HiddenFailure
  <2>1. PICK k \in 0..ring.cachedSize, m \in 0..ring.cachedSize :
           /\ m <= k /\ m \in Nat /\ Cache!PutCached(k) /\ filePos' = Cache!Start + k
           /\ ring' = Cache!Counted(m) \/ (m = 0 /\ ring' = [ring EXCEPT !.phyPos = ring.cachedPos])
    BY <1>0, <1>2, FailedPieces
  <2>2. ring' = Cache!Counted(m)
    BY <1>0, <2>1, CountedNone
  <2>3. m \in 0..k
    BY <1>0, <2>1, NumbersAre DEF CacheIInv
  <2>4. failed' = "close"
    BY <1>2 DEF Cache!HiddenFailure
  <2> QED BY <2>1, <2>2, <2>3, <2>4
<1> QED BY <1>1, <1>2 DEF Cache!FinalFlush

(* What the flush of the destructor leaves when no call has failed: every  *)
(* byte is in the file or still counted as cached.                         *)
LEMMA FlushDoes ==
  ASSUME Cache!ConstantsAssumption, CacheIInv, Cache!FinalFlush, failed = "no"
  PROVE  /\ stream' \in Seq(Bytes \cup {Cache!Zero}) /\ filePos' \in Nat
         /\ ring' \in [virtPos : 0..MaxSize, virtSize : 0..MaxSize, phyPos : 0..MaxSize,
                    phySize : 0..MaxSize, cachedPos : 0..MaxSize, cachedSize : 0..Cache!CacheSize]
         /\ ring'.virtPos = ring.virtPos /\ ring'.virtSize = ring.virtSize /\ Cache!CachedEnd' = Cache!CachedEnd
         /\ failed' \in {"no", "close"}
         /\ failed' = "no" => ring'.cachedSize = 0
         /\ ring'.cachedSize = 0 => ring'.phySize = Len(stream')
         /\ ring'.phySize <= Len(stream') /\ Len(stream') <= Cache!Greater(ring'.phySize, Cache!CachedEnd')
         /\ ring'.phySize <= ring'.virtSize /\ Cache!CachedEnd' <= ring'.virtSize
         /\ ring'.cachedSize # 0 => ring'.cachedPos <= ring'.phySize
         /\ \A p \in Nat \ {0} : Seen(p)' = Seen(p)
         /\ Len(stream) <= Len(stream')
         /\ \A p \in 1..Len(stream') :
              p \notin (ring.cachedPos + 1)..Cache!CachedEnd => stream'[p] = IF p <= Len(stream) THEN stream[p] ELSE Cache!Zero
<1>0. /\ pc = "idle" /\ UNCHANGED cache /\ Cache!TypeOK /\ Cache!CachedEnd <= MaxSize
      /\ ring.phySize = Len(stream) /\ ring.phySize <= ring.virtSize /\ Cache!CachedEnd <= ring.virtSize
      /\ ring.cachedSize # 0 => ring.cachedPos <= ring.phySize
  BY DEF CacheIInv, NothingFailed, Reach, Cache!FinalFlush
<1>1. CASE ring.cachedSize = 0
  <2>1. ~Cache!WriteFails(ring.cachedSize)
    BY <1>1 DEF Cache!WriteFails
  <2>2. UNCHANGED <<stream, filePos, ring, failed>>
    BY <1>1, <2>1 DEF Cache!FinalFlush
  <2>3. Cache!CachedEnd' = Cache!CachedEnd /\ \A p \in Nat \ {0} : Seen(p)' = Seen(p)
    BY <1>0, <2>2 DEF Cache!CachedEnd, Seen
  <2>4. Len(stream') <= Cache!Greater(ring'.phySize, Cache!CachedEnd')
    BY <1>0, <2>2, NumbersAre DEF Cache!Greater, Cache!CachedEnd
  <2> QED BY <1>0, <1>1, <2>2, <2>3, <2>4, NumbersAre DEF Cache!TypeOK
<1>2. CASE ring.cachedSize # 0
  <2>1. PICK k \in 0..ring.cachedSize, m \in 0..ring.cachedSize :
           /\ m \in 0..k /\ Cache!PutCached(k) /\ filePos' = Cache!Start + k /\ ring' = Cache!Counted(m)
           /\ failed' = "no" => m = ring.cachedSize
           /\ failed' \in {"no", "close"}
    BY <1>2, FlushWritesPart
  <2>2. /\ Cache!Start = ring.cachedPos
        /\ stream' \in Seq(Bytes \cup {Cache!Zero}) /\ Len(stream') = Cache!Greater(ring.phySize, ring.cachedPos + k)
        /\ \A p \in 1..Len(stream') :
              stream'[p] = IF p \in (ring.cachedPos + 1)..(ring.cachedPos + k) THEN cache[(p - 1) % Cache!CacheSize]
                         ELSE IF p <= ring.phySize THEN stream[p] ELSE Cache!Zero
        /\ ring'.virtPos = ring.virtPos /\ ring'.virtSize = ring.virtSize /\ ring'.phyPos = ring.cachedPos + m
        /\ ring'.phySize = Cache!Greater(ring.phySize, ring.cachedPos + m)
        /\ ring'.cachedPos = ring.cachedPos + m /\ ring'.cachedSize = ring.cachedSize - m
        /\ Cache!CachedEnd' = Cache!CachedEnd
    BY <1>0, <1>2, <2>1, PartWritten
  <2>3. \A p \in Nat \ {0} : Seen(p)' = Seen(p)
    BY <1>0, <1>2, <2>1, PartWrittenIsSeen
  <2>4. ring' \in [virtPos : 0..MaxSize, virtSize : 0..MaxSize, phyPos : 0..MaxSize,
                    phySize : 0..MaxSize, cachedPos : 0..MaxSize, cachedSize : 0..Cache!CacheSize]
    BY <1>0, <2>1, CountedFields
  <2>5. filePos' \in Nat
    BY <1>0, <2>1, <2>2, NumbersAre, SMTT(30)
  <2>6. (failed' = "no" => ring'.cachedSize = 0) /\ (ring'.cachedSize = 0 => ring'.phySize = Len(stream'))
    <3>1. failed' = "no" => ring'.cachedSize = 0
      BY <1>0, <2>1, <2>2, NumbersAre
    <3>2. ring'.cachedSize = 0 => m = k
      BY <1>0, <2>1, <2>2, NumbersAre
    <3> QED BY <2>2, <3>1, <3>2
  <2>7. /\ ring'.phySize <= Len(stream') /\ Len(stream') <= Cache!Greater(ring'.phySize, Cache!CachedEnd')
        /\ ring'.phySize <= ring'.virtSize /\ Cache!CachedEnd' <= ring'.virtSize /\ ring'.cachedPos <= ring'.phySize
        /\ Len(stream) <= Len(stream')
    <3>1. /\ ring.cachedPos \in Nat /\ ring.cachedSize \in Nat /\ ring.phySize \in Nat /\ ring.virtSize \in Nat
          /\ Cache!CachedEnd = ring.cachedPos + ring.cachedSize /\ Cache!CachedEnd' = Cache!CachedEnd
          /\ k \in 0..ring.cachedSize /\ m \in 0..k
      BY <1>0, <2>1, <2>2, NumbersAre
    <3>2. /\ Len(stream') = Cache!Greater(ring.phySize, ring.cachedPos + k) /\ ring.phySize = Len(stream)
          /\ ring'.virtSize = ring.virtSize /\ ring'.phySize = Cache!Greater(ring.phySize, ring.cachedPos + m)
          /\ ring'.cachedPos = ring.cachedPos + m
          /\ ring.phySize <= ring.virtSize /\ Cache!CachedEnd <= ring.virtSize
      BY <1>0, <1>2, <2>2
    <3> QED BY <3>1, <3>2 DEF Cache!Greater
  <2>8. \A p \in 1..Len(stream') :
          p \notin (ring.cachedPos + 1)..Cache!CachedEnd => stream'[p] = IF p <= Len(stream) THEN stream[p] ELSE Cache!Zero
    <3> TAKE p \in 1..Len(stream')
    <3> HAVE p \notin (ring.cachedPos + 1)..Cache!CachedEnd
    <3>1. p \notin (ring.cachedPos + 1)..(ring.cachedPos + k)
      <4>1. /\ ring.cachedPos \in Nat /\ ring.cachedSize \in Nat /\ k \in 0..ring.cachedSize
            /\ Cache!CachedEnd = ring.cachedPos + ring.cachedSize
        BY <1>0, <2>1, NumbersAre
      <4> QED BY <4>1
    <3> QED BY <1>0, <2>2, <3>1
  <2> QED BY <2>1, <2>2, <2>3, <2>4, <2>5, <2>6, <2>7, <2>8
<1> QED BY <1>1, <1>2

(* After a failed call the destructor still leaves what is in front of the *)
(* cached range alone.                                                     *)
LEMMA FlushAfterFailure ==
  ASSUME Cache!ConstantsAssumption, CacheIInv, Cache!FinalFlush, failed = "call"
  PROVE  /\ stream' \in Seq(Bytes \cup {Cache!Zero}) /\ filePos' \in Nat
         /\ ring' \in [virtPos : 0..MaxSize, virtSize : 0..MaxSize, phyPos : 0..MaxSize,
                    phySize : 0..MaxSize, cachedPos : 0..MaxSize, cachedSize : 0..Cache!CacheSize]
         /\ ring'.virtPos = ring.virtPos /\ Cache!CachedEnd' = Cache!CachedEnd /\ failed' = "call"
         /\ \A p \in 1..Cache!Lesser(ring.cachedPos, Len(stream)) : stream'[p] = stream[p]
<1>0. /\ pc = "idle" /\ UNCHANGED cache /\ Cache!TypeOK /\ Cache!CachedEnd <= MaxSize
      /\ ring.cachedSize \in 0..ring.cachedSize /\ Cache!Start >= ring.cachedPos /\ Cache!Start \in Nat
  BY FlushStart, NumbersAre DEF CacheIInv, Cache!FinalFlush
<1>1. failed' = "call"
  BY DEF Cache!FinalFlush, Cache!HiddenFailure
<1>2. CASE UNCHANGED <<stream, filePos, ring>>
  BY <1>0, <1>1, <1>2 DEF Cache!TypeOK, Cache!CachedEnd
<1>3. CASE Cache!Written(ring.cachedSize)
  BY <1>0, <1>1, <1>3, WrittenDoes
<1>4. CASE Cache!WriteFails(ring.cachedSize)
  BY <1>0, <1>1, <1>4, WriteFailed
<1> QED BY <1>2, <1>3, <1>4 DEF Cache!FinalFlush

LEMMA FinalFlushKeeps ==
  ASSUME Cache!ConstantsAssumption, CacheIInv, Cache!FinalFlush
  PROVE  CacheIInv'
<1>0. pc = "idle" /\ pc' = "resize" /\ UNCHANGED <<cache, req>> /\ Cache!TypeOK /\ Cache!CachedEnd <= MaxSize
  BY DEF CacheIInv, Cache!FinalFlush
<1>1. CASE failed = "no"
  BY <1>0, <1>1, FlushDoes
     DEF CacheIInv, Cache!TypeOK, RequestFits, InWrite, NothingFailed, CacheReaches, FailuresFit, ClosingFits
<1>2. CASE failed = "call"
  BY <1>0, <1>2, FlushAfterFailure
     DEF CacheIInv, Cache!TypeOK, RequestFits, InWrite, NothingFailed, CacheReaches, FailuresFit, ClosingFits
<1> QED BY <1>0, <1>1, <1>2, FlushStart

LEMMA ResizeDoes ==
  ASSUME Cache!ConstantsAssumption, CacheIInv, Cache!FinalResize
  PROVE  /\ stream' \in Seq(Bytes \cup {Cache!Zero}) /\ UNCHANGED ring
         /\ stream' = stream \/ (ring.virtSize # ring.phySize /\ stream' = Cache!Resized(stream, ring.virtSize)
                              /\ Len(stream') = ring.virtSize /\ UNCHANGED failed)
         /\ ring.virtSize = ring.phySize \/ failed' = "close" \/ failed' = "call"
              \/ Len(stream') = ring.virtSize
         /\ \A p \in 1..Len(stream') : stream'[p] = IF p <= Len(stream) THEN stream[p] ELSE Cache!Zero
<1>0. Cache!TypeOK
  BY DEF CacheIInv
<1>1. CASE stream' = stream
  <2>1. \A p \in 1..Len(stream) : stream[p] = IF p <= Len(stream) THEN stream[p] ELSE Cache!Zero
    BY <1>0, NumbersAre
  <2>2. CASE ring.virtSize # ring.phySize /\ stream' = Cache!Resized(stream, ring.virtSize)
    <3>1. Len(Cache!Resized(stream, ring.virtSize)) = ring.virtSize
      BY <1>0, NumbersAre DEF Cache!Resized
    <3> QED BY <1>0, <1>1, <2>1, <2>2, <3>1 DEF Cache!FinalResize, Cache!TypeOK
  <2>3. CASE ~(ring.virtSize # ring.phySize /\ stream' = Cache!Resized(stream, ring.virtSize))
    <3>1. ring.virtSize = ring.phySize \/ Cache!HiddenFailure
      BY <2>3 DEF Cache!FinalResize
    <3> QED BY <1>0, <1>1, <2>1, <3>1 DEF Cache!FinalResize, Cache!HiddenFailure, Cache!TypeOK
  <2> QED BY <2>2, <2>3
<1>2. CASE stream' # stream
  <2>1. ring.virtSize # ring.phySize /\ stream' = Cache!Resized(stream, ring.virtSize) /\ UNCHANGED failed /\ UNCHANGED ring
    BY <1>2 DEF Cache!FinalResize
  <2>2. stream' = [p \in 1..ring.virtSize |-> IF p <= Len(stream) THEN stream[p] ELSE Cache!Zero]
    BY <2>1 DEF Cache!Resized
  <2>3. ring.virtSize \in Nat /\ Len(stream) \in Nat
    BY <1>0, NumbersAre
  <2>4. \A p \in 1..ring.virtSize : (IF p <= Len(stream) THEN stream[p] ELSE Cache!Zero) \in Bytes \cup {Cache!Zero}
    BY <1>0, <2>3 DEF Cache!TypeOK
  <2>5. Len(stream') = ring.virtSize /\ stream' \in Seq(Bytes \cup {Cache!Zero})
    BY <2>2, <2>3, <2>4
  <2>6. \A p \in 1..Len(stream') : stream'[p] = IF p <= Len(stream) THEN stream[p] ELSE Cache!Zero
    BY <2>2, <2>5
  <2> QED BY <2>1, <2>5, <2>6
<1> QED BY <1>1, <1>2

LEMMA FinalResizeKeeps ==
  ASSUME Cache!ConstantsAssumption, CacheIInv, Cache!FinalResize
  PROVE  CacheIInv'
<1>0. pc = "resize" /\ pc' = "closed" /\ UNCHANGED <<cache, ring, req>> /\ Cache!TypeOK /\ Cache!CachedEnd <= MaxSize
      /\ failed' \in {"no", "call", "close"} /\ (failed' = failed \/ failed' = "close")
  BY DEF CacheIInv, Cache!FinalResize, Cache!HiddenFailure, Cache!TypeOK
<1>1. filePos' \in Nat
  BY <1>0, NumbersAre DEF Cache!FinalResize
<1>2. Cache!TypeOK'
  BY <1>0, <1>1, ResizeDoes DEF Cache!TypeOK
<1>3. Cache!CachedEnd' = Cache!CachedEnd
  BY <1>0 DEF Cache!CachedEnd
<1> QED BY <1>0, <1>2, <1>3
     DEF CacheIInv, RequestFits, InWrite, NothingFailed, CacheReaches, FailuresFit, ClosingFits

LEMMA InitHolds ==
  ASSUME Cache!ConstantsAssumption
  PROVE  Cache!Init => CacheIInv
<1> SUFFICES ASSUME Cache!Init PROVE CacheIInv
  OBVIOUS
<1>1. PICK n \in InitialSizes :
       /\ stream = [p \in 1..n |-> Cache!Zero] /\ filePos = n
       /\ ring = [virtPos |-> n, virtSize |-> n, phyPos |-> n, phySize |-> n,
               cachedPos |-> 0, cachedSize |-> 0]
  BY DEF Cache!Init
<1>2. n \in 0..MaxSize /\ MaxSize \in Nat
  BY DEF Cache!ConstantsAssumption
<1>3. stream \in Seq(Bytes \cup {Cache!Zero}) /\ Len(stream) = n
  BY <1>1, <1>2
<1>4. /\ ring.virtPos = n /\ ring.virtSize = n /\ ring.phyPos = n /\ ring.phySize = n
      /\ ring.cachedPos = 0 /\ ring.cachedSize = 0 /\ Cache!CachedEnd = 0
  BY <1>1 DEF Cache!CachedEnd
<1>5. cache \in [0..(Cache!CacheSize - 1) -> Bytes \cup {Cache!Zero}] /\ pc = "idle" /\ failed = "no"
      /\ req = Cache!NoRequest
  BY DEF Cache!Init
<1>6. req \in [size : 0..MaxWrite, value : Bytes \cup {Cache!Zero}]
  BY <1>5 DEF Cache!NoRequest, Cache!ConstantsAssumption
<1>7. Cache!TypeOK
  <2>1. 0 \in 0..Cache!CacheSize /\ 0 \in 0..MaxSize
    BY <1>2, SizePositive
  <2> QED BY <1>1, <1>2, <1>3, <1>5, <1>6, <2>1 DEF Cache!TypeOK
<1>8. Reach = n
  BY <1>4, <1>5 DEF Reach
<1>9. NothingFailed
  <2>1. ASSUME NEW p \in Nat, p > ring.virtSize
        PROVE  Seen(p) = Cache!Zero
    BY <1>2, <1>3, <1>4, <2>1 DEF Seen, Cache!Lesser
  <2> QED BY <1>1, <1>2, <1>3, <1>4, <1>8, <2>1 DEF NothingFailed
<1> QED BY <1>1, <1>2, <1>4, <1>5, <1>7, <1>9 DEF CacheIInv, RequestFits, InWrite, CacheReaches,
   FailuresFit, ClosingFits

LEMMA NextKeeps ==
  ASSUME Cache!ConstantsAssumption
  PROVE  CacheIInv /\ [Cache!Next]_(Cache!vars) => CacheIInv'
<1> SUFFICES ASSUME CacheIInv, [Cache!Next]_(Cache!vars) PROVE CacheIInv'
  OBVIOUS
<1>1. CASE \E size \in 1..MaxWrite, value \in Bytes : Cache!WriteCall(size, value)
  BY <1>1, WriteCallKeeps
<1>2. CASE \E n \in 0..MaxSize : Cache!Seek(n) \/ Cache!SetSize(n)
  BY <1>2, SeekKeeps, SetSizeKeeps
<1>3. CASE Cache!FinalFlush \/ Cache!FinalResize
  BY <1>3, FinalFlushKeeps, FinalResizeKeeps
<1>4. CASE Cache!FlushCache \/ Cache!Contiguous \/ Cache!Evict \/ Cache!WriteZeros \/ Cache!Store
  BY <1>4, FlushCacheKeeps, ContiguousKeeps, EvictKeeps, WriteZerosKeeps, StoreKeeps
<1>5. CASE UNCHANGED Cache!vars
  BY <1>5 DEF Cache!vars, CacheIInv, Cache!TypeOK, Cache!CachedEnd, RequestFits, InWrite,
     NothingFailed, Reach, Seen, CacheReaches,
     Cache!Gap, FailuresFit, ClosingFits
<1> QED BY <1>1, <1>2, <1>3, <1>4, <1>5 DEF Cache!Next

(* The inductive invariant holds throughout, for every ring and file.      *)
THEOREM CacheInvariant ==
  ASSUME Cache!ConstantsAssumption
  PROVE  Cache!Spec => []CacheIInv
BY InitHolds, NextKeeps, PTL DEF Cache!Spec

-----------------------------------------------------------------------------
LEMMA ViewIsSeen ==
  ASSUME Cache!ConstantsAssumption, Cache!TypeOK
  PROVE  /\ Cache!View = [p \in 1..ring.virtSize |-> Seen(p)]
         /\ Len(Cache!View) = ring.virtSize /\ DOMAIN Cache!View = 1..ring.virtSize
<1>1. Cache!View = [p \in 1..ring.virtSize |-> Seen(p)]
  BY DEF Cache!View, Seen
<1>2. ring.virtSize \in Nat
  BY NumbersAre
<1>3. Len([p \in 1..ring.virtSize |-> Seen(p)]) = ring.virtSize
  BY <1>2
<1> QED BY <1>1, <1>3

LEMMA ViewStays ==
  ASSUME Cache!ConstantsAssumption, Cache!TypeOK, Cache!TypeOK', ring'.virtSize = ring.virtSize,
         \A p \in Nat \ {0} : Seen(p)' = Seen(p)
  PROVE  Cache!View' = Cache!View
<1>1. Cache!View = [p \in 1..ring.virtSize |-> Seen(p)]
  BY DEF Cache!View, Seen
<1>2. Cache!View' = [p \in 1..ring.virtSize |-> Seen(p)']
  BY <1>1, ViewIsSeen DEF Cache!View, Seen
<1>3. \A p \in 1..ring.virtSize : p \in Nat \ {0}
  BY NumbersAre
<1> QED BY <1>1, <1>2, <1>3

LEMMA FieldsStayAgreed ==
  ASSUME Cache!ConstantsAssumption
  PROVE  CacheIInv => Cache!FieldsAgree
BY DEF CacheIInv, NothingFailed, Reach, Cache!FieldsAgree

(* Bytes before the cached range are not written. *)
LEMMA FrontStays ==
  ASSUME Cache!ConstantsAssumption, CacheIInv, Cache!Next
  PROVE  \A p \in 1..Cache!Lesser(ring.cachedPos, Len(stream)) : p <= Len(stream') => stream'[p] = stream[p]
<1> DEFINE G == \A p \in 1..Cache!Lesser(ring.cachedPos, Len(stream)) : p <= Len(stream') => stream'[p] = stream[p]
<1>0. Cache!TypeOK
  BY DEF CacheIInv
<1>1. CASE UNCHANGED stream
  BY <1>1
<1>2. ASSUME NEW n \in 0..ring.cachedSize, Cache!MyWrite(n), InWrite, ring.cachedSize # 0
      PROVE  G
  <2>1. /\ failed # "close" /\ pc \notin {"resize", "closed"} /\ UNCHANGED cache
        /\ Cache!CachedEnd <= MaxSize /\ Cache!Start >= ring.cachedPos /\ Cache!Start \in Nat
    BY <1>2, StartIs DEF CacheIInv, FailuresFit, InWrite, Cache!MyWrite
  <2>2. CASE Cache!Written(n)
    BY <1>0, <2>1, <2>2, WrittenDoes
  <2>3. CASE Cache!WriteFails(n)
    BY <1>2, <2>1, <2>3, WriteFailed
  <2> QED BY <1>2, <2>2, <2>3 DEF Cache!MyWrite
<1>3. CASE Cache!FlushCache
  <2>1. InWrite /\ ring.cachedSize # 0 /\ ring.cachedSize \in 0..ring.cachedSize /\ Cache!MyWrite(ring.cachedSize)
    BY <1>0, <1>3, NumbersAre DEF Cache!FlushCache, Cache!NotContiguous, InWrite
  <2> QED BY <1>2, <2>1
<1>4. CASE Cache!Evict
  BY <1>2, <1>4, EvictPiece
<1>5. ASSUME NEW n \in 0..MaxSize, Cache!SetSize(n)
      PROVE  G
  <2>1. CASE SizeIsSet(n)
    <3>1. pc = "idle"
      BY <1>5 DEF Cache!SetSize
    <3>2. \A p \in 1..Len(stream') : p <= Len(stream) => stream'[p] = stream[p]
      BY <2>1, <3>1, SetSizeFields
    <3>3. SUFFICES ASSUME NEW p \in 1..Cache!Lesser(ring.cachedPos, Len(stream)), p <= Len(stream')
                   PROVE  stream'[p] = stream[p]
      OBVIOUS
    <3>4. Cache!Lesser(ring.cachedPos, Len(stream)) \in Nat
      BY <1>0, NumbersAre DEF Cache!Lesser
    <3>5. stream' \in Seq(Bytes \cup {Cache!Zero})
      BY <2>1, <3>1, SetSizeFields
    <3>6. p \in 1..Len(stream') /\ p <= Len(stream)
      BY <1>0, <3>3, <3>4, <3>5, NumbersAre DEF Cache!Lesser
    <3> QED BY <3>2, <3>6
  <2>2. CASE UNCHANGED stream
    BY <2>2
  <2> QED BY <1>5, <2>1, <2>2 DEF Cache!SetSize, SizeIsSet
<1>6. CASE Cache!FinalFlush
  <2>1. CASE failed = "no"
    <3>1. /\ Len(stream) <= Len(stream') /\ stream' \in Seq(Bytes \cup {Cache!Zero})
          /\ \A p \in 1..Len(stream') :
              p \notin (ring.cachedPos + 1)..Cache!CachedEnd => stream'[p] = IF p <= Len(stream) THEN stream[p] ELSE Cache!Zero
      BY <1>6, <2>1, FlushDoes
    <3>2. ASSUME NEW p \in 1..Cache!Lesser(ring.cachedPos, Len(stream)), p <= Len(stream')
          PROVE  stream'[p] = stream[p]
      <4>1. p \in 1..Len(stream') /\ p \notin (ring.cachedPos + 1)..Cache!CachedEnd /\ p <= Len(stream)
        BY <1>0, <3>1, <3>2, NumbersAre DEF Cache!Lesser, Cache!CachedEnd
      <4> QED BY <3>1, <4>1
    <3> QED BY <3>2
  <2>2. CASE failed = "call"
    BY <1>6, <2>2, FlushAfterFailure
  <2>3. pc = "idle"
    BY <1>6 DEF Cache!FinalFlush
  <2> QED BY <2>1, <2>2, <2>3, FlushStart
<1>7. CASE Cache!FinalResize
  <2>1. /\ stream' \in Seq(Bytes \cup {Cache!Zero})
        /\ \A p \in 1..Len(stream') : stream'[p] = IF p <= Len(stream) THEN stream[p] ELSE Cache!Zero
    BY <1>7, ResizeDoes
  <2>2. ASSUME NEW p \in 1..Cache!Lesser(ring.cachedPos, Len(stream)), p <= Len(stream')
        PROVE  stream'[p] = stream[p]
    <3>1. p \in 1..Len(stream') /\ p <= Len(stream)
      BY <1>0, <2>1, <2>2, NumbersAre DEF Cache!Lesser
    <3> QED BY <2>1, <3>1
  <2> QED BY <2>2
<1>8. CASE Cache!Contiguous \/ Cache!WriteZeros \/ Cache!Store
  BY <1>1, <1>8 DEF Cache!Contiguous, Cache!WriteZeros, Cache!Store
<1>9. CASE \E size \in 1..MaxWrite, value \in Bytes : Cache!WriteCall(size, value)
  BY <1>1, <1>9 DEF Cache!WriteCall
<1>10. CASE \E n \in 0..MaxSize : Cache!Seek(n) \/ Cache!SetSize(n)
  <2>1. PICK n \in 0..MaxSize : Cache!Seek(n) \/ Cache!SetSize(n)
    BY <1>10
  <2>2. CASE Cache!Seek(n)
    BY <1>1, <2>2 DEF Cache!Seek
  <2> QED BY <1>5, <2>1, <2>2
<1> QED BY <1>3, <1>4, <1>6, <1>7, <1>8, <1>9, <1>10 DEF Cache!Next

(* The two accesses of the destructor keep what is not cached. *)
LEMMA ClosingKeepsRest ==
  ASSUME Cache!ConstantsAssumption, CacheIInv, Cache!Next, failed # "call", pc' # pc,
         pc' \in {"resize", "closed"}
  PROVE  \A p \in DOMAIN Cache!View \ ((ring.cachedPos + 1)..Cache!CachedEnd) :
           Cache!View[p] = IF p <= Len(stream') THEN stream'[p] ELSE Cache!Zero
<1>0. Cache!TypeOK
  BY DEF CacheIInv
<1>1. Cache!FinalFlush \/ Cache!FinalResize
  BY DEF Cache!Next, Cache!WriteCall, Cache!FlushCache, Cache!Contiguous, Cache!Evict,
     Cache!MyWrite, Cache!WriteZeros, Cache!Store, Cache!Seek, Cache!SetSize
<1> SUFFICES ASSUME NEW p \in DOMAIN Cache!View \ ((ring.cachedPos + 1)..Cache!CachedEnd)
             PROVE  Cache!View[p] = IF p <= Len(stream') THEN stream'[p] ELSE Cache!Zero
  OBVIOUS
<1>2. /\ p \in 1..ring.virtSize /\ p \in Nat \ {0} /\ p \notin (ring.cachedPos + 1)..Cache!CachedEnd
  BY <1>0, ViewIsSeen, NumbersAre, SMTT(30)
<1>3. Cache!View[p] = IF p <= Cache!Lesser(ring.phySize, Len(stream)) THEN stream[p] ELSE Cache!Zero
  BY <1>2 DEF Cache!View
<1>4. CASE Cache!FinalFlush
  <2>1. failed = "no" /\ pc = "idle"
    BY <1>4, FlushStart DEF Cache!FinalFlush
  <2>2. ring.phySize = Len(stream)
    BY <2>1 DEF CacheIInv, NothingFailed
  <2>3. /\ Len(stream) <= Len(stream') /\ stream' \in Seq(Bytes \cup {Cache!Zero})
        /\ \A q \in 1..Len(stream') :
              q \notin (ring.cachedPos + 1)..Cache!CachedEnd => stream'[q] = IF q <= Len(stream) THEN stream[q] ELSE Cache!Zero
    BY <1>4, <2>1, FlushDoes
  <2>4. Cache!View[p] = IF p <= Len(stream) THEN stream[p] ELSE Cache!Zero
    BY <1>3, <2>2 DEF Cache!Lesser
  <2>5. CASE p <= Len(stream')
    BY <1>2, <2>3, <2>4, <2>5
  <2>6. CASE ~(p <= Len(stream'))
    <3>1. ~(p <= Len(stream))
      BY <1>0, <1>2, <2>3, <2>6, NumbersAre
    <3> QED BY <2>4, <2>6, <3>1
  <2> QED BY <2>5, <2>6
<1>5. CASE Cache!FinalResize
  <2>1. /\ ring.cachedSize = 0 => ring.phySize = Len(stream)
        /\ ring.phySize <= Len(stream) /\ Len(stream) <= Cache!Greater(ring.phySize, Cache!CachedEnd)
        /\ ring.phySize <= ring.virtSize
        /\ ring.cachedSize # 0 => ring.cachedPos <= ring.phySize
    BY <1>5 DEF CacheIInv, ClosingFits, Cache!FinalResize
  <2>2. /\ stream' \in Seq(Bytes \cup {Cache!Zero})
        /\ Len(stream') = Len(stream) \/ Len(stream') = ring.virtSize
        /\ \A q \in 1..Len(stream') : stream'[q] = IF q <= Len(stream) THEN stream[q] ELSE Cache!Zero
    BY <1>5, ResizeDoes
  <2>3. Cache!View[p] = IF p <= ring.phySize THEN stream[p] ELSE Cache!Zero
    BY <1>0, <1>3, <2>1, NumbersAre DEF Cache!Lesser
  <2>4. p > ring.phySize => ~(p <= Len(stream))
    BY <1>0, <1>2, <2>1, NumbersAre DEF Cache!Greater, Cache!CachedEnd
  <2>5. CASE p <= ring.phySize
    <3>1. p \in 1..Len(stream') /\ p <= Len(stream)
      BY <1>0, <1>2, <2>1, <2>2, <2>5, NumbersAre, SMTT(30)
    <3> QED BY <2>2, <2>3, <2>5, <3>1
  <2>6. CASE p > ring.phySize
    <3>1. Cache!View[p] = Cache!Zero /\ ~(p <= Len(stream))
      BY <1>0, <1>2, <2>3, <2>4, <2>6, NumbersAre
    <3>2. p <= Len(stream') => stream'[p] = Cache!Zero
      BY <1>2, <2>2, <3>1
    <3> QED BY <3>1, <3>2
  <2> QED BY <1>0, <1>2, <2>5, <2>6, NumbersAre
<1> QED BY <1>1, <1>4, <1>5

(* A failure in CCacheOutStream's destructor takes nothing but bytes that  *)
(* are still cached, bytes in front of the cached range are never written  *)
(* again, whatever failed before, and until a call fails the fields agree  *)
(* with the file between calls.                                            *)
THEOREM CacheOnlyLost ==
  ASSUME Cache!ConstantsAssumption
  PROVE  Cache!Spec => Cache!OnlyCacheIsLost
<1>1. CacheIInv /\ [Cache!Next]_(Cache!vars) =>
        [/\ failed # "call" /\ pc' # pc /\ pc' \in {"resize", "closed"} =>
             \A p \in DOMAIN Cache!View \ ((ring.cachedPos + 1)..Cache!CachedEnd) :
               Cache!View[p] = IF p <= Len(stream') THEN stream'[p] ELSE Cache!Zero
         /\ \A p \in 1..Cache!Lesser(ring.cachedPos, Len(stream)) :
             p <= Len(stream') => stream'[p] = stream[p]]_(Cache!vars)
  BY FrontStays, ClosingKeepsRest
<1>2. CacheIInv => Cache!FieldsAgree
  BY FieldsStayAgreed
<1> QED BY <1>1, <1>2, CacheInvariant, PTL DEF Cache!Spec, Cache!OnlyCacheIsLost

-----------------------------------------------------------------------------
(* The plain file of the refinement mapping. *)
Content == CASE failed = "call" -> <<>>
             [] pc = "closed" /\ failed = "no" -> stream
             [] OTHER -> Cache!View

Position == IF failed = "call" THEN 0 ELSE ring.virtPos

IsOpen == pc # "closed" /\ failed # "call"

PlainStep ==
  [Cache!Plain!Write \/ Cache!Plain!Seek \/ Cache!Plain!SetSize \/ Cache!Plain!Close \/ Cache!Plain!Fail]_<<Content, Position, IsOpen>>

LEMMA OpenContent ==
  ASSUME Cache!ConstantsAssumption, IsOpen
  PROVE  Content = Cache!View
BY DEF IsOpen, Content

LEMMA SilentStep ==
  ASSUME Cache!ConstantsAssumption, IsOpen, IsOpen', Cache!TypeOK, Cache!TypeOK',
         ring'.virtSize = ring.virtSize, ring'.virtPos = ring.virtPos,
         \A p \in Nat \ {0} : Seen(p)' = Seen(p)
  PROVE  PlainStep
<1>1. Content = Cache!View
  BY OpenContent
<1>2. Content' = Cache!View'
  BY DEF IsOpen, Content
<1>3. Cache!View' = Cache!View
  BY ViewStays
<1>4. IsOpen = TRUE /\ IsOpen' = TRUE
  BY DEF IsOpen
<1> QED BY <1>1, <1>2, <1>3, <1>4 DEF PlainStep, Position, IsOpen

LEMMA FailingStep ==
  ASSUME Cache!ConstantsAssumption, IsOpen, failed' = "call"
  PROVE  Cache!Plain!Fail
BY DEF IsOpen, Cache!Plain!Fail

LEMMA MyWriteSteps ==
  ASSUME Cache!ConstantsAssumption, CacheIInv, CacheIInv', failed = "no", InWrite, ring.cachedSize # 0,
         NEW n \in 0..ring.cachedSize, Cache!MyWrite(n)
  PROVE  PlainStep
<1>0. failed = "no" /\ IsOpen /\ pc \notin {"resize", "closed"} /\ Cache!TypeOK /\ Cache!TypeOK'
  BY DEF CacheIInv, InWrite, IsOpen
<1>1. CASE Cache!Written(n) /\ UNCHANGED <<pc, req, failed, cache>>
  <2>1. Cache!PutCached(n) /\ ring' = Cache!Counted(n) /\ n \in 0..n
    BY <1>1, NumbersAre, <1>0 DEF Cache!Written
  <2>2. ring'.virtPos = ring.virtPos /\ ring'.virtSize = ring.virtSize
    BY <1>0, <2>1, PartWritten
  <2>3. \A p \in Nat \ {0} : Seen(p)' = Seen(p)
    BY <1>0, <1>1, <2>1, PartWrittenIsSeen
  <2>4. IsOpen'
    BY <1>0, <1>1 DEF IsOpen
  <2> QED BY <1>0, <2>2, <2>3, <2>4, SilentStep
<1>2. CASE failed' = "call"
  BY <1>0, <1>2, FailingStep DEF PlainStep
<1> QED BY <1>1, <1>2 DEF Cache!MyWrite

LEMMA StoreSteps ==
  ASSUME Cache!ConstantsAssumption, CacheIInv, CacheIInv', failed = "no", Cache!Store
  PROVE  Cache!Plain!Write
<1> DEFINE n == StoredNow
           v == req.value
           data == [k \in 1..n |-> v]
<1>0. /\ failed = "no" /\ pc = "store" /\ pc' = "idle" /\ failed' = "no" /\ Cache!TypeOK /\ Cache!TypeOK'
      /\ v \in Bytes /\ req.size \in Nat /\ ring.virtPos + req.size <= MaxSize
  <2>1. failed = "no" /\ pc = "store" /\ pc' = "idle" /\ failed' = "no" /\ Cache!TypeOK /\ Cache!TypeOK'
    BY DEF CacheIInv, RequestFits, InWrite, Cache!Store
  <2>2. v \in Bytes /\ ring.virtPos + req.size <= MaxSize
    BY <2>1 DEF CacheIInv, RequestFits, InWrite
  <2>3. req.size \in Nat
    BY <2>1 DEF Cache!TypeOK
  <2> QED BY <2>1, <2>2, <2>3
<1>1. /\ n \in 1..req.size
      /\ ring' = [virtPos |-> ring.virtPos + n, virtSize |-> Cache!Greater(ring.virtSize, ring.virtPos + n),
               phyPos |-> ring.phyPos, phySize |-> ring.phySize, cachedPos |-> ring.cachedPos,
               cachedSize |-> Cache!Greater(ring.cachedSize, ring.virtPos + n - ring.cachedPos)]
      /\ \A p \in Nat \ {0} :
           Seen(p)' = IF p \in (ring.virtPos + 1)..(ring.virtPos + n) THEN req.value ELSE Seen(p)
  BY StoreDoes
<1>2. ring'.virtPos = ring.virtPos + n /\ ring'.virtSize = Cache!Greater(ring.virtSize, ring.virtPos + n)
  BY <1>1
<1>3. n \in 1..(MaxSize - ring.virtPos) /\ n \in Nat \ {0} /\ ring.virtPos \in Nat /\ ring.virtSize \in Nat
  BY <1>0, <1>1, NumbersAre, SMTT(30)
<1>4. IsOpen /\ IsOpen' /\ IsOpen = TRUE /\ IsOpen' = TRUE
  BY <1>0 DEF IsOpen
<1>5. Content = Cache!View /\ Content' = Cache!View'
  BY <1>4 DEF IsOpen, Content
<1>6. Cache!View = [p \in 1..ring.virtSize |-> Seen(p)] /\ Len(Cache!View) = ring.virtSize
  BY <1>0, ViewIsSeen
<1>7. Cache!View' = [p \in 1..Cache!Greater(ring.virtSize, ring.virtPos + n) |-> Seen(p)']
  <2>1. Cache!View' = [p \in 1..ring'.virtSize |-> Seen(p)']
    BY DEF Cache!View, Seen
  <2> QED BY <2>1, <1>2
<1>8. Len(data) = n /\ \A k \in 1..n : data[k] = v
  BY <1>3
<1>9. Cache!Greater(ring.virtSize, ring.virtPos + n) = Cache!Plain!Longer(Len(Cache!View), ring.virtPos + Len(data))
  <2> HIDE DEF data, n
  <2> QED BY <1>6, <1>8 DEF Cache!Greater, Cache!Plain!Longer
<1>10. ASSUME NEW p \in 1..Cache!Greater(ring.virtSize, ring.virtPos + n)
       PROVE  Seen(p)' = IF p \in (ring.virtPos + 1)..(ring.virtPos + Len(data)) THEN data[p - ring.virtPos]
                         ELSE IF p <= Len(Cache!View) THEN Cache!View[p] ELSE Cache!Plain!Zero
  <2>1. p \in Nat \ {0}
    BY <1>3 DEF Cache!Greater
  <2>2. Seen(p)' = IF p \in (ring.virtPos + 1)..(ring.virtPos + n) THEN v ELSE Seen(p)
    BY <1>1, <2>1
  <2>3. p \in (ring.virtPos + 1)..(ring.virtPos + n) => data[p - ring.virtPos] = v
    BY <1>3, <1>8
  <2>4. p <= ring.virtSize => Cache!View[p] = Seen(p)
    BY <1>3, <1>6, <2>1
  <2>5. ~(p <= ring.virtSize) => Seen(p) = Cache!Zero
    BY <1>0, <1>3, <2>1 DEF CacheIInv, NothingFailed
  <2> HIDE DEF data, n
  <2> QED BY <1>6, <1>8, <2>2, <2>3, <2>4, <2>5 DEF Cache!Plain!Zero, Cache!Zero
<1>11. Cache!View' = Cache!Plain!Put(Cache!View, ring.virtPos, data)
  <2>1. Cache!Plain!Put(Cache!View, ring.virtPos, data) =
          [p \in 1..Cache!Greater(ring.virtSize, ring.virtPos + n) |->
             IF p \in (ring.virtPos + 1)..(ring.virtPos + Len(data)) THEN data[p - ring.virtPos]
             ELSE IF p <= Len(Cache!View) THEN Cache!View[p] ELSE Cache!Plain!Zero]
    BY <1>9 DEF Cache!Plain!Put
  <2> HIDE DEF data, n
  <2> QED BY <2>1, <1>7, <1>10
<1>12. Content' = Cache!Plain!Put(Content, ring.virtPos, [k \in 1..n |-> v])
  BY <1>5, <1>11
<1> HIDE DEF n, v
<1> QED BY <1>0, <1>2, <1>3, <1>4, <1>12 DEF Cache!Plain!Write, Content, Position, IsOpen

LEMMA SeekSteps ==
  ASSUME Cache!ConstantsAssumption, CacheIInv, CacheIInv', failed = "no", NEW n \in 0..MaxSize, Cache!Seek(n)
  PROVE  Cache!Plain!Seek
<1>0. /\ pc = "idle" /\ failed = "no" /\ UNCHANGED <<stream, cache, pc, failed>>
      /\ Cache!TypeOK /\ Cache!TypeOK' /\ ring' = [ring EXCEPT !.virtPos = n]
  BY DEF CacheIInv, Cache!Seek
<1>1. /\ ring'.virtSize = ring.virtSize /\ ring'.phySize = ring.phySize /\ ring'.virtPos = n
      /\ ring'.cachedPos = ring.cachedPos /\ ring'.cachedSize = ring.cachedSize
  BY <1>0 DEF Cache!TypeOK
<1>2. \A p \in Nat \ {0} : Seen(p)' = Seen(p)
  BY <1>0, <1>1 DEF Seen, Cache!CachedEnd
<1>3. Cache!View' = Cache!View
  BY <1>0, <1>1, <1>2, ViewStays
<1>4. IsOpen = TRUE /\ IsOpen' = TRUE /\ Content = Cache!View /\ Content' = Cache!View'
  BY <1>0 DEF IsOpen, Content
<1> QED BY <1>1, <1>3, <1>4 DEF Cache!Plain!Seek, Content, Position, IsOpen

LEMMA SetSizeSteps ==
  ASSUME Cache!ConstantsAssumption, CacheIInv, CacheIInv', failed = "no", NEW n \in 0..MaxSize,
         Cache!SetSize(n)
  PROVE  Cache!Plain!SetSize \/ Cache!Plain!Fail
<1>0. pc = "idle" /\ failed = "no" /\ UNCHANGED <<cache, pc>> /\ Cache!TypeOK /\ Cache!TypeOK'
  BY DEF CacheIInv, Cache!SetSize
<1>1. CASE SizeIsSet(n) /\ UNCHANGED failed
  <2>1. /\ ring'.virtPos = ring.virtPos /\ ring'.virtSize = n
        /\ \A p \in Nat \ {0} : Seen(p)' = IF p <= n THEN Seen(p) ELSE Cache!Zero
    BY <1>0, <1>1, SetSizeDoes
  <2>2. IsOpen = TRUE /\ IsOpen' = TRUE /\ Content = Cache!View /\ Content' = Cache!View'
    BY <1>0, <1>1 DEF IsOpen, Content
  <2>3. Cache!View = [p \in 1..ring.virtSize |-> Seen(p)] /\ Len(Cache!View) = ring.virtSize
    BY <1>0, ViewIsSeen
  <2>4. Cache!View' = [p \in 1..n |-> Seen(p)']
    <3>1. Cache!View' = [p \in 1..ring'.virtSize |-> Seen(p)']
      BY DEF Cache!View, Seen
    <3> QED BY <3>1, <2>1
  <2>5. ASSUME NEW p \in 1..n
        PROVE  Seen(p)' = IF p <= Len(Cache!View) THEN Cache!View[p] ELSE Cache!Plain!Zero
    <3>1. p \in Nat \ {0} /\ p <= n /\ ring.virtSize \in Nat
      BY <1>0, NumbersAre
    <3>2. Seen(p)' = Seen(p)
      BY <2>1, <3>1
    <3>3. p <= ring.virtSize => Cache!View[p] = Seen(p)
      BY <2>3, <3>1
    <3>4. ~(p <= ring.virtSize) => Seen(p) = Cache!Zero
      BY <1>0, <3>1 DEF CacheIInv, NothingFailed
    <3> QED BY <2>3, <3>2, <3>3, <3>4 DEF Cache!Plain!Zero, Cache!Zero
  <2>6. Cache!View' = Cache!Plain!Resized(Cache!View, n)
    BY <2>4, <2>5 DEF Cache!Plain!Resized
  <2> QED BY <2>1, <2>2, <2>6 DEF Cache!Plain!SetSize, Content, Position, IsOpen
<1>2. CASE failed' = "call"
  BY <1>0, <1>2, FailingStep DEF IsOpen
<1> QED BY <1>1, <1>2 DEF Cache!SetSize, SizeIsSet

LEMMA ClosedContent ==
  ASSUME Cache!ConstantsAssumption, CacheIInv, CacheIInv', Cache!FinalResize, failed # "call"
  PROVE  Content' = Cache!View
<1>0. pc' = "closed" /\ Cache!TypeOK /\ Cache!TypeOK' /\ UNCHANGED <<ring, cache>>
      /\ (failed' = failed \/ failed' = "close") /\ failed \in {"no", "close"}
  BY DEF CacheIInv, Cache!FinalResize, Cache!HiddenFailure, Cache!TypeOK
<1>1. /\ failed = "no" => ring.cachedSize = 0
      /\ ring.cachedSize = 0 => ring.phySize = Len(stream)
      /\ ring.phySize <= Len(stream) /\ ring.phySize <= ring.virtSize
  BY DEF CacheIInv, ClosingFits, Cache!FinalResize
<1>2. /\ stream' \in Seq(Bytes \cup {Cache!Zero})
      /\ stream' = stream \/ (ring.virtSize # ring.phySize /\ stream' = Cache!Resized(stream, ring.virtSize)
                              /\ Len(stream') = ring.virtSize /\ UNCHANGED failed)
      /\ ring.virtSize = ring.phySize \/ failed' = "close" \/ failed' = "call"
              \/ Len(stream') = ring.virtSize
      /\ \A p \in 1..Len(stream') : stream'[p] = IF p <= Len(stream) THEN stream[p] ELSE Cache!Zero
  BY ResizeDoes
<1>3. /\ ring.phySize \in Nat /\ ring.virtSize \in Nat /\ Len(stream) \in Nat /\ Len(stream') \in Nat
  BY <1>0, <1>2, NumbersAre
<1>4. CASE failed' = "no"
  <2>1. Content' = stream'
    BY <1>0, <1>4 DEF Content
  <2>2. Len(stream') = ring.virtSize
    BY <1>0, <1>1, <1>2, <1>3, <1>4
  <2>3. ring.cachedSize = 0 /\ ring.phySize = Len(stream) /\ Cache!CachedEnd = ring.cachedPos
    BY <1>0, <1>1, <1>4, NumbersAre DEF Cache!CachedEnd
  <2>4. ASSUME NEW p \in 1..ring.virtSize
        PROVE  Seen(p) = stream'[p]
    <3>1. p \notin (ring.cachedPos + 1)..Cache!CachedEnd /\ Cache!Lesser(ring.phySize, Len(stream)) = Len(stream)
      BY <1>0, <2>3, NumbersAre DEF Cache!Lesser
    <3> QED BY <1>2, <2>2, <3>1 DEF Seen
  <2>5. stream' = [p \in 1..ring.virtSize |-> stream'[p]]
    BY <1>2, <2>2
  <2>6. Cache!View = [p \in 1..ring.virtSize |-> Seen(p)]
    BY <1>0, ViewIsSeen
  <2> QED BY <2>1, <2>4, <2>5, <2>6
<1>5. CASE failed' = "close"
  <2>1. Content' = Cache!View'
    BY <1>0, <1>5 DEF Content
  <2>2. ASSUME NEW p \in Nat \ {0}
        PROVE  Seen(p)' = Seen(p)
    <3>1. ring.phySize <= Len(stream')
      BY <1>1, <1>2, <1>3
    <3>2. Cache!Lesser(ring.phySize, Len(stream)) = ring.phySize /\ Cache!Lesser(ring'.phySize, Len(stream')) = ring.phySize
      BY <1>0, <1>1, <1>3, <3>1 DEF Cache!Lesser
    <3>3. p <= ring.phySize => stream'[p] = stream[p]
      BY <1>1, <1>2, <1>3, <3>1
    <3>4. Cache!CachedEnd' = Cache!CachedEnd
      BY <1>0 DEF Cache!CachedEnd
    <3> QED BY <1>0, <3>2, <3>3, <3>4 DEF Seen
  <2>3. Cache!View' = Cache!View
    BY <1>0, <2>2, ViewStays
  <2> QED BY <2>1, <2>3
<1> QED BY <1>0, <1>4, <1>5

LEMMA FailedStays ==
  ASSUME [Cache!Next]_(Cache!vars), failed = "call"
  PROVE  failed' = "call"
BY DEF Cache!Next, Cache!vars, Cache!WriteCall, Cache!FlushCache, Cache!Contiguous, Cache!Evict, Cache!MyWrite,
   Cache!WriteZeros, Cache!Store, Cache!Seek, Cache!SetSize, Cache!FinalFlush, Cache!FinalResize,
   Cache!HiddenFailure

LEMMA NextSteps ==
  ASSUME Cache!ConstantsAssumption, CacheIInv, CacheIInv', [Cache!Next]_(Cache!vars)
  PROVE  PlainStep
<1>0. Cache!TypeOK /\ Cache!TypeOK'
  BY DEF CacheIInv
<1>11. CASE failed = "call"
  BY <1>11, FailedStays DEF PlainStep, Content, Position, IsOpen
<1> SUFFICES ASSUME failed # "call" PROVE PlainStep
  BY <1>11
<1>12. pc \notin {"resize", "closed"} => failed = "no"
  BY <1>0 DEF CacheIInv, FailuresFit, Cache!TypeOK
<1>1. CASE \E size \in 1..MaxWrite, value \in Bytes : Cache!WriteCall(size, value)
  <2>1. IsOpen /\ IsOpen' /\ UNCHANGED <<ring, stream, cache>>
    BY <1>1 DEF Cache!WriteCall, IsOpen
  <2>2. \A p \in Nat \ {0} : Seen(p)' = Seen(p)
    BY <2>1 DEF Seen, Cache!CachedEnd
  <2> QED BY <1>0, <2>1, <2>2, SilentStep
<1>2. CASE Cache!FlushCache
  <2>1. InWrite /\ ring.cachedSize # 0 /\ ring.cachedSize \in 0..ring.cachedSize /\ Cache!MyWrite(ring.cachedSize)
    BY <1>0, <1>2, NumbersAre DEF Cache!FlushCache, Cache!NotContiguous, InWrite
  <2> QED BY <1>12, <2>1, MyWriteSteps DEF InWrite
<1>3. CASE Cache!Evict
  BY <1>3, <1>12, EvictPiece, MyWriteSteps DEF InWrite
<1>4. CASE Cache!Contiguous
  <2>1. IsOpen /\ IsOpen'
    BY <1>4, <1>12, ContiguousDoes DEF IsOpen, Cache!Contiguous
  <2> QED BY <1>0, <1>4, <2>1, ContiguousDoes, SilentStep
<1>5. CASE Cache!WriteZeros
  <2>1. failed = "no" /\ pc = "zeros" /\ IsOpen /\ IsOpen' /\ UNCHANGED stream
    BY <1>5, <1>12 DEF IsOpen, Cache!WriteZeros
  <2>2. CASE Cache!Gap <= 0
    <3>1. UNCHANGED <<ring, cache>>
      BY <1>5, <2>2 DEF Cache!WriteZeros
    <3>2. \A p \in Nat \ {0} : Seen(p)' = Seen(p)
      BY <2>1, <3>1 DEF Seen, Cache!CachedEnd
    <3> QED BY <1>0, <2>1, <3>1, <3>2, SilentStep
  <2>3. CASE ~(Cache!Gap <= 0)
    <3>1. /\ ring' = [virtPos |-> ring.virtPos, virtSize |-> ring.virtSize, phyPos |-> ring.phyPos,
                   phySize |-> ring.phySize, cachedPos |-> ring.cachedPos,
                   cachedSize |-> ring.cachedSize + Cache!ZerosNow]
          /\ \A p \in Nat \ {0} : Seen(p)' = Seen(p)
      BY <1>5, <2>1, <2>3, ZerosDo DEF Cache!WriteZeros
    <3>2. ring'.virtPos = ring.virtPos /\ ring'.virtSize = ring.virtSize
      BY <3>1
    <3> QED BY <1>0, <2>1, <3>1, <3>2, SilentStep
  <2> QED BY <2>2, <2>3
<1>6. CASE Cache!Store
  BY <1>6, <1>12, StoreSteps DEF PlainStep, Cache!Store
<1>7. CASE \E n \in 0..MaxSize : Cache!Seek(n) \/ Cache!SetSize(n)
  BY <1>7, <1>12, SeekSteps, SetSizeSteps DEF PlainStep, Cache!Seek, Cache!SetSize
<1>8. CASE Cache!FinalFlush
  <2>1. CASE failed = "no"
    <3>1. IsOpen /\ IsOpen'
      BY <1>8, <2>1, FlushDoes DEF Cache!FinalFlush, IsOpen
    <3> QED BY <1>0, <1>8, <2>1, <3>1, FlushDoes, SilentStep
  <2>3. pc = "idle"
    BY <1>8 DEF Cache!FinalFlush
  <2> QED BY <1>12, <2>1, <2>3
<1>9. CASE Cache!FinalResize
  <2>1. /\ IsOpen = TRUE /\ IsOpen' = FALSE /\ UNCHANGED ring /\ Content = Cache!View
        /\ failed' # "call"
    BY <1>9 DEF Cache!FinalResize, Cache!HiddenFailure, IsOpen, Content
  <2>2. Content' = Content
    BY <1>9, <2>1, ClosedContent
  <2>3. Cache!Plain!Close
    BY <2>1, <2>2 DEF Cache!Plain!Close, Content, Position, IsOpen
  <2> QED BY <2>3 DEF PlainStep
<1>10. CASE UNCHANGED Cache!vars
  BY <1>10 DEF Cache!vars, PlainStep, Content, Position, IsOpen, Cache!View, Cache!CachedEnd
<1> QED BY <1>1, <1>2, <1>3, <1>4, <1>5, <1>6, <1>7, <1>8, <1>9, <1>10 DEF Cache!Next

LEMMA InitIsPlain ==
  ASSUME Cache!ConstantsAssumption
  PROVE  Cache!Init => Cache!Plain!Init
<1> SUFFICES ASSUME Cache!Init PROVE Cache!Plain!Init
  OBVIOUS
<1>1. PICK n \in InitialSizes :
       /\ stream = [p \in 1..n |-> Cache!Zero] /\ filePos = n
       /\ ring = [virtPos |-> n, virtSize |-> n, phyPos |-> n, phySize |-> n,
               cachedPos |-> 0, cachedSize |-> 0]
  BY DEF Cache!Init
<1>2. n \in 0..MaxSize /\ MaxSize \in Nat
  BY DEF Cache!ConstantsAssumption
<1>3. /\ ring.virtPos = n /\ ring.virtSize = n /\ ring.phySize = n /\ Len(stream) = n
      /\ ring.cachedPos = 0 /\ ring.cachedSize = 0 /\ Cache!CachedEnd = 0
  BY <1>1, <1>2 DEF Cache!CachedEnd
<1>4. Cache!TypeOK
  BY InitHolds DEF CacheIInv
<1>5. Cache!View = [p \in 1..n |-> Cache!Zero]
  <2>1. Cache!View = [p \in 1..n |-> Seen(p)]
    BY <1>3, <1>4, ViewIsSeen
  <2>2. \A p \in 1..n : Seen(p) = Cache!Zero
    BY <1>1, <1>2, <1>3 DEF Seen, Cache!Lesser
  <2> QED BY <2>1, <2>2
<1>6. IsOpen = TRUE /\ Content = Cache!View
  BY DEF Cache!Init, IsOpen, Content
<1>7. Len(Cache!View) = n
  BY <1>3, <1>4, ViewIsSeen
<1>8. Cache!View \in UNION {[1..k -> {Cache!Zero}] : k \in 0..MaxSize}
  <2>1. Cache!View \in [1..n -> {Cache!Zero}]
    BY <1>5
  <2> QED BY <1>2, <2>1
<1> QED BY <1>3, <1>6, <1>7, <1>8 DEF Cache!Init, Cache!Plain!Init, Content, IsOpen, Cache!Plain!Zero,
   Cache!Zero

(* The stream with its cache is a plain file: every step of Write's loops, *)
(* Seek, SetSize and the destructor is a step of the plain file's Write,   *)
(* Seek, SetSize, Close or Fail, or none that can be seen.                 *)
THEOREM CacheIsPlainFile ==
  ASSUME Cache!ConstantsAssumption
  PROVE  Cache!Spec => Cache!Plain!Spec
<1>1. CacheIInv /\ CacheIInv' /\ [Cache!Next]_(Cache!vars) =>
        [Cache!Plain!Write \/ Cache!Plain!Seek \/ Cache!Plain!SetSize \/ Cache!Plain!Close \/ Cache!Plain!Fail]_<<
           CASE failed = "call" -> <<>>
             [] pc = "closed" /\ failed = "no" -> stream
             [] OTHER -> Cache!View, IF failed = "call" THEN 0 ELSE ring.virtPos, pc # "closed" /\ failed # "call">>
  BY NextSteps DEF PlainStep, Content, Position, IsOpen
<1> QED BY <1>1, InitIsPlain, CacheInvariant, PTL DEF Cache!Spec, Cache!Plain!Spec
==============================================================================
