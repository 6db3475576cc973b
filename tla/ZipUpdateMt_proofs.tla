-------------------------- MODULE ZipUpdateMt_proofs --------------------------
(***************************************************************************)
(* Proofs about Update2 with threads, for any items, number of threads,    *)
(* blocks and methods: the archive has one writer at a time, every block   *)
(* of memory is in one place and counted, an item that Update2 wrote while *)
(* its thread was running is whole, and the threads together produce what  *)
(* one thread would (SequentialUpdate).                                    *)
(***************************************************************************)
EXTENDS ZipUpdateMt, TLAPS, FiniteSetTheorems, SequenceTheorems

LEMMA ConstantProperties ==
  /\ N \in Nat /\ NumThreads \in Nat \ {0} /\ NumBlocks \in Nat \ {0}
  /\ MaxChunks \in Nat /\ NumMethods \in Nat \ {0} /\ 1 \in Threads
  /\ Items \subseteq Nat /\ Threads \subseteq Nat /\ Blocks \subseteq Nat
  /\ \A t \in Threads : t \in 0..NumThreads /\ t # 0
  /\ \A i \in Items : i \in 0..N /\ i # None /\ i + 1 \in 1..(N + 1)
  /\ IsFiniteSet(Blocks) /\ Cardinality(Blocks) = NumBlocks
  /\ IsFiniteSet(Threads) /\ Cardinality(Threads) = NumThreads
<1>1. /\ N \in Nat /\ NumThreads \in Nat \ {0} /\ NumBlocks \in Nat \ {0}
      /\ MaxChunks \in Nat /\ NumMethods \in Nat \ {0}
  BY ConstantsAssumption
<1>2. /\ IsFiniteSet(Blocks) /\ Cardinality(Blocks) = NumBlocks
      /\ IsFiniteSet(Threads) /\ Cardinality(Threads) = NumThreads
  BY <1>1, FS_Interval DEF Blocks, Threads
<1> QED
  BY <1>1, <1>2 DEF Items, Threads, Blocks, None

LEMMA OwnerCases ==
  /\ <<0, 0>> \in Owners /\ <<1, 0>> \in Owners
  /\ \A t \in Threads : <<2, t>> \in Owners
  /\ \A i \in Items : <<3, i>> \in Owners
  /\ \A o \in Owners : \/ o = <<0, 0>> \/ o = <<1, 0>>
                        \/ (\E t \in Threads : o = <<2, t>>)
                        \/ (\E i \in Items : o = <<3, i>>)
<1>1. /\ <<0, 0>> \in Owners /\ <<1, 0>> \in Owners
      /\ \A t \in Threads : <<2, t>> \in Owners
      /\ \A i \in Items : <<3, i>> \in Owners
  BY ZenonT(20) DEF Owners
<1>2. ASSUME NEW o \in Owners
      PROVE  \/ o = <<0, 0>> \/ o = <<1, 0>>
             \/ (\E t \in Threads : o = <<2, t>>)
             \/ (\E i \in Items : o = <<3, i>>)
  BY <1>2 DEF Owners
<1> QED
  BY <1>1, <1>2

(* The fields of the variables.                                            *)
LEMMA MainFacts ==
  ASSUME TypeOK
  PROVE  /\ main \in MainType /\ main.pc \in MainPcs
         /\ main.mtItemIndex \in Nat /\ main.mtItemIndex <= N + 1 /\ main.mtItemIndex >= 1
         /\ main.itemIndex \in Nat /\ main.itemIndex <= N + 1 /\ main.itemIndex >= 1
         /\ main.lastReal \in 0..N /\ main.threadIndices \in Seq(Threads)
         /\ main.thread \in 0..NumThreads /\ main.list \subseteq Blocks
         /\ main.next \in {"top", "header", "done"} /\ main.result \in Results
         /\ main.joining \in Nat /\ main.joining <= NumThreads + 1 /\ main.joining >= 1
<1>1. main \in MainType
  BY DEF TypeOK
<1>2. /\ main.mtItemIndex \in 1..(N + 1) /\ main.itemIndex \in 1..(N + 1)
      /\ main.joining \in 1..(NumThreads + 1)
  BY <1>1 DEF MainType
<1>3. /\ main.pc \in MainPcs
      /\ main.lastReal \in 0..N /\ main.threadIndices \in Seq(Threads)
      /\ main.thread \in 0..NumThreads /\ main.list \subseteq Blocks
      /\ main.next \in {"top", "header", "done"} /\ main.result \in Results
  BY <1>1 DEF MainType
<1> QED
  BY <1>1, <1>2, <1>3, ConstantProperties

LEMMA ThreadFacts ==
  ASSUME TypeOK, NEW t \in Threads
  PROVE  /\ th \in [Threads -> ThreadType] /\ th[t] \in ThreadType /\ th[t].pc \in ThreadPcs
         /\ th[t].compressEvent \in BOOLEAN /\ th[t].completedEvent \in BOOLEAN
         /\ th[t].exitThread \in BOOLEAN /\ th[t].stopEvent \in BOOLEAN
         /\ th[t].realEvent \in BOOLEAN /\ th[t].realMode \in BOOLEAN
         /\ th[t].unlockSent \in BOOLEAN /\ th[t].isFree \in BOOLEAN
         /\ th[t].item \in 0..N /\ th[t].blocks \in Seq(Blocks)
         /\ th[t].total \in 0..MaxChunks /\ th[t].pass \in 0..NumMethods
         /\ th[t].made \in 0..MaxChunks /\ th[t].region \in 0..N /\ th[t].result \in Results
<1>1. th \in [Threads -> ThreadType] /\ th[t] \in ThreadType
  BY DEF TypeOK
<1> QED
  BY <1>1 DEF ThreadType

LEMMA RefFacts ==
  ASSUME TypeOK, NEW i \in Items
  PROVE  /\ refs \in [Items -> RefType] /\ refs[i] \in RefType
         /\ refs[i].skip \in BOOLEAN /\ refs[i].defined \in BOOLEAN
         /\ refs[i].blocks \in Seq(Blocks) /\ refs[i].total \in 0..MaxChunks
         /\ refs[i].packSize \in 0..MaxChunks
<1>1. refs \in [Items -> RefType] /\ refs[i] \in RefType
  BY DEF TypeOK
<1> QED
  BY <1>1 DEF RefType

LEMMA StoreFacts ==
  ASSUME TypeOK
  PROVE  /\ pool \in PoolType /\ pool.free \subseteq Blocks /\ pool.sem \in 0..NumBlocks
         /\ mem \in [Blocks -> Stored]
         /\ arc \in ArcType /\ arc.data \in [Items -> Seq(Stored)] /\ arc.pos \in 0..N
         /\ arc.order \in Seq(Items) /\ arc.packSize \in [Items -> 0..MaxChunks]
         /\ arc.lost \in 0..N
<1>1. pool \in PoolType /\ mem \in [Blocks -> Stored] /\ arc \in ArcType
  BY DEF TypeOK
<1> QED
  BY <1>1 DEF PoolType, ArcType

-----------------------------------------------------------------------------
(* The initial states.                                                     *)
LEMMA InitIInv == Init => IInv
<1> SUFFICES ASSUME Init PROVE IInv
  OBVIOUS
<1> USE ConstantProperties
<1>0. /\ main.pc = "top" /\ main.mtItemIndex = 1 /\ main.itemIndex = 1
      /\ main.threadIndices = <<>> /\ main.list = {} /\ main.next = "top" /\ main.joining = 1
      /\ \A t \in Threads : th[t] = IdleThread
      /\ \A i \in Items : /\ refs[i].blocks = <<>> /\ ~refs[i].skip /\ ~refs[i].defined
                          /\ refs[i].total = 0
      /\ pool.free = Blocks /\ pool.sem = NumBlocks
      /\ arc.pos = None /\ arc.order = <<>>
      /\ \A i \in Items : arc.data[i] = <<>> /\ arc.packSize[i] = 0
  BY DEF Init
<1>t. \A t \in Threads :
        /\ th[t].pc = "wait" /\ ~th[t].compressEvent /\ ~th[t].completedEvent
        /\ ~th[t].exitThread /\ ~th[t].stopEvent /\ ~th[t].realEvent /\ ~th[t].realMode
        /\ th[t].isFree /\ th[t].blocks = <<>> /\ th[t].result = "ok"
  BY <1>0 DEF IdleThread
<1>n. ~InFinalPhase /\ ~Finishing /\ ~AtStream /\ FirstItem = 1 /\ EndItem = 1
  BY <1>0 DEF InFinalPhase, Finishing, AtStream, FirstItem, EndItem
<1>1. TypeOK
  <2>1. main \in MainType
    BY DEF Init, MainType, MainPcs, Results, None
  <2>2. th \in [Threads -> ThreadType]
    BY DEF Init, IdleThread, ThreadType, ThreadPcs, Results, None
  <2>3. refs \in [Items -> RefType]
    BY DEF Init, RefType
  <2>4. pool \in PoolType
    BY DEF Init, PoolType
  <2>5. mem \in [Blocks -> Stored]
    BY DEF Init, Stored
  <2>6. arc \in ArcType
    BY DEF Init, ArcType, None
  <2> QED
    BY <2>1, <2>2, <2>3, <2>4, <2>5, <2>6 DEF TypeOK
<1>2. FrontIsNext
  <2>1. ~(AtFile /\ ~refs[main.itemIndex].defined)
    BY <1>0 DEF AtFile, AtItem, AtTop, CanDispatch
  <2> QED
    BY <1>0, <1>t, <2>1 DEF FrontIsNext, Range
<1>3. WriterOwnsFile
  BY <1>t DEF WriterOwnsFile
<1>4. PoolIsBalanced
  <2>1. \A t \in Threads : Range(th[t].blocks) = {}
    BY <1>t DEF Range
  <2>2. \A i \in Items : Range(refs[i].blocks) = {}
    BY <1>0 DEF Range
  <2>3. \A o \in Owners : BlocksOf(o) = IF o = <<0, 0>> THEN Blocks ELSE {}
    <3>1. \A t \in Threads : BlocksOf(<<2, t>>) = {}
      BY <2>1 DEF BlocksOf
    <3>2. \A i \in Items : BlocksOf(<<3, i>>) = {}
      BY <2>2 DEF BlocksOf
    <3>3. BlocksOf(<<0, 0>>) = Blocks /\ BlocksOf(<<1, 0>>) = {}
      BY <1>0 DEF BlocksOf
    <3> QED
      BY <3>1, <3>2, <3>3, OwnerCases
  <2>4. <<0, 0>> \in Owners
    BY DEF Owners
  <2>5. BlocksAreOwned
    <3>1. \A t \in Threads : IsInjective(th[t].blocks)
      BY <1>t DEF IsInjective
    <3>2. \A i \in Items : IsInjective(refs[i].blocks)
      <4>1. \A i \in Items : refs[i].blocks = <<>>
        BY <1>0
      <4> QED
        BY <4>1 DEF IsInjective
    <3> QED
      BY <2>3, <2>4, <3>1, <3>2 DEF BlocksAreOwned
  <2>6. Promised = {}
    BY <1>t DEF Promised
  <2>7. SemaphoreCounts
    BY <1>0, <2>6, FS_EmptySet DEF SemaphoreCounts
  <2> QED
    BY <1>0, <2>5, <2>7 DEF PoolIsBalanced
<1>5. \A t \in Threads : Lifecycle(t)
  <2>1. \A t \in Threads : ~(t < main.joining)
    BY <1>0 DEF Threads
  <2> QED
    BY <1>t, <1>n, <2>1 DEF Lifecycle
<1>6. PhasesOfEnd
  BY <1>0, <1>n DEF PhasesOfEnd
<1>7. ItemsHaveThreads /\ MainFits
  BY <1>0, <1>t, <1>n DEF ItemsHaveThreads, MainFits
<1>8. FileIsGranted /\ ItemsInOrder
  BY <1>0, <1>t, <1>n DEF FileIsGranted, ItemsInOrder, Granted
<1>9. StreamsFit
  BY <1>0, <1>t, <1>n DEF StreamsFit, Drained
<1>10. ItemsFit
  BY <1>0 DEF ItemsFit, Items
<1>11. DataIsWhole
  <2>1. arc.lost = None
    BY DEF Init
  <2> QED
    BY <1>0, <2>1 DEF DataIsWhole, Range
<1> QED
  BY <1>1, <1>2, <1>3, <1>4, <1>5, <1>6, <1>7, <1>8, <1>9, <1>10, <1>11 DEF IInv

LEMMA SmallestElement ==
  ASSUME NEW S \in SUBSET Nat, S # {}
  PROVE  \E x \in S : \A y \in S : x <= y
<1>1. PICK x \in S : \A y \in S : ~(<<y, x>> \in OpToRel(<, Nat))
  BY NatLessThanWellFounded, WFMin
<1>2. \A y \in S : ~(y < x)
  BY <1>1 DEF OpToRel
<1> QED
  BY <1>2

LEMMA Names ==
  /\ "wait" \in ThreadPcs /\ "rewind" \in ThreadPcs /\ "encode" \in ThreadPcs
  /\ "fill" \in ThreadPcs /\ "block" \in ThreadPcs /\ "alloc" \in ThreadPcs
  /\ "flush" \in ThreadPcs /\ "free" \in ThreadPcs /\ "release" \in ThreadPcs
  /\ "direct" \in ThreadPcs /\ "report" \in ThreadPcs /\ "signal" \in ThreadPcs
  /\ "exited" \in ThreadPcs
  /\ "ok" \in Results /\ "fail" \in Results /\ "abort" \in Results
  /\ "top" \in MainPcs /\ "getstream" \in MainPcs /\ "skip" \in MainPcs
  /\ "stuck" \in MainPcs /\ "await" \in MainPcs /\ "drain" \in MainPcs
  /\ "header" \in MainPcs /\ "free" \in MainPcs /\ "release" \in MainPcs
  /\ "stop" \in MainPcs /\ "join" \in MainPcs /\ "done" \in MainPcs
BY DEF ThreadPcs, Results, MainPcs

-----------------------------------------------------------------------------
(* What the steps of a thread do, field by field.  A thread changes its    *)
(* own state, never which item it has or who it is for Update2.            *)
Alone(t) ==
  /\ main' = main /\ refs' = refs /\ th' \in [Threads -> ThreadType]
  /\ \A u \in Threads \ {t} : th'[u] = th[u]
  /\ th'[t].item = th[t].item /\ th'[t].isFree = th[t].isFree
  /\ th'[t].region = th[t].region /\ th'[t].unlockSent = th[t].unlockSent
  /\ th'[t].exitThread = th[t].exitThread
KeepsEvents(t) ==
  /\ th'[t].compressEvent = th[t].compressEvent
  /\ th'[t].completedEvent = th[t].completedEvent /\ th'[t].stopEvent = th[t].stopEvent
  /\ th'[t].realEvent = th[t].realEvent /\ th'[t].realMode = th[t].realMode
KeepsData(t) ==
  /\ th'[t].blocks = th[t].blocks /\ th'[t].total = th[t].total
  /\ th'[t].pass = th[t].pass /\ th'[t].made = th[t].made
KeepsResult(t) == th'[t].result = th[t].result
KeepsStore == pool' = pool /\ mem' = mem /\ arc' = arc

(* Only the data of one item in the file changes.                          *)
ChangesData(i) ==
  /\ arc' \in ArcType /\ arc'.pos = arc.pos /\ arc'.order = arc.order
  /\ arc'.packSize = arc.packSize /\ arc'.lost = arc.lost
  /\ \A j \in Items : j # i => arc'.data[j] = arc.data[j]

(* A thread at work has an item, which fits its stream; when it may write  *)
(* to the file, the file stands in that item.                              *)
LEMMA AtWork ==
  ASSUME IInv, NEW t \in Threads, th[t].pc \notin {"wait", "exited"}
  PROVE  ~th[t].isFree /\ th[t].item \in Items /\ StreamFits(t) /\ th[t].pass \in 1..NumMethods
<1>1. ~th[t].isFree
  BY DEF IInv, Lifecycle
<1>2. th[t].item \in Items /\ StreamFits(t)
  BY <1>1 DEF IInv, ItemsHaveThreads, StreamsFit
<1>3. th[t].pass # 0
  BY <1>2 DEF StreamFits
<1>4. th[t].pass \in 0..NumMethods
  BY ThreadFacts DEF IInv
<1> QED
  BY <1>1, <1>2, <1>3, <1>4, ConstantProperties

LEMMA AtFileItem ==
  ASSUME IInv, NEW t \in Threads, ~th[t].isFree, th[t].realMode
  PROVE  /\ arc.pos = th[t].item /\ th[t].region = th[t].item /\ th[t].item = main.itemIndex
         /\ arc.pos \in Items /\ arc.pos # None
<1>1. th[t].item \in Items
  BY DEF IInv, ItemsHaveThreads
<1>2. Granted(t)
  BY DEF IInv, FileIsGranted, Granted
<1> QED
  BY <1>1, <1>2, ConstantProperties DEF IInv, FileIsGranted

LEMMA ContentsType ==
  ASSUME TypeOK, NEW s \in Seq(Blocks), NEW n \in Nat, n <= Len(s)
  PROVE  /\ Contents(s, n) \in Seq(Stored) /\ Len(Contents(s, n)) = n
         /\ \A k \in 1..n : Contents(s, n)[k] = mem[s[k]]
<1>1. \A k \in 1..n : s[k] \in Blocks
  OBVIOUS
<1>2. mem \in [Blocks -> Stored]
  BY StoreFacts
<1>3. \A k \in 1..n : mem[s[k]] \in Stored
  BY <1>1, <1>2
<1> QED
  BY <1>3 DEF Contents

LEMMA AppendEffect ==
  ASSUME TypeOK, NEW chunks \in Seq(Stored), arc.pos \in Items, Append2File(chunks)
  PROVE  ChangesData(arc.pos) /\ arc'.data[arc.pos] = arc.data[arc.pos] \o chunks
<1>1. arc \in ArcType /\ arc.data \in [Items -> Seq(Stored)] /\ arc.pos # None
  BY StoreFacts, ConstantProperties
<1>2. arc' = [arc EXCEPT !.data[arc.pos] = arc.data[arc.pos] \o chunks]
  BY <1>1 DEF Append2File
<1>3. /\ arc'.pos = arc.pos /\ arc'.order = arc.order /\ arc'.packSize = arc.packSize
      /\ arc'.lost = arc.lost
      /\ arc'.data = [arc.data EXCEPT ![arc.pos] = arc.data[arc.pos] \o chunks]
  BY <1>1, <1>2 DEF ArcType
<1>4. arc.data[arc.pos] \o chunks \in Seq(Stored)
  BY <1>1, ConcatProperties
<1>5. arc' \in ArcType
  <2>1. arc'.data \in [Items -> Seq(Stored)]
    BY <1>1, <1>3, <1>4
  <2> QED
    BY <1>1, <1>2, <2>1 DEF ArcType
<1> QED
  BY <1>1, <1>3, <1>5 DEF ChangesData

LEMMA PrefixEffect ==
  ASSUME TypeOK, NEW chunks \in Seq(Stored), arc.pos \in Items, AppendPrefix(chunks)
  PROVE  ChangesData(arc.pos)
<1>1. PICK n \in 0..(Len(chunks) - 1) : Append2File(SubSeq(chunks, 1, n))
  BY DEF AppendPrefix
<1>2. SubSeq(chunks, 1, n) \in Seq(Stored)
  BY <1>1, SubSeqProperties
<1> QED
  BY <1>1, <1>2, AppendEffect

LEMMA WakeEffect ==
  ASSUME IInv, NEW t \in Threads, ThreadWake(t)
  PROVE  /\ Alone(t) /\ KeepsResult(t) /\ KeepsStore
         /\ th[t].pc = "wait" /\ th[t].compressEvent
         /\ th'[t].pc = IF th[t].exitThread THEN "exited" ELSE "rewind"
         /\ ~th'[t].compressEvent /\ th'[t].pass = 1
         /\ th'[t].completedEvent = th[t].completedEvent /\ th'[t].stopEvent = th[t].stopEvent
         /\ th'[t].realEvent = th[t].realEvent /\ th'[t].realMode = th[t].realMode
         /\ th'[t].blocks = th[t].blocks /\ th'[t].total = th[t].total
         /\ th'[t].made = th[t].made
<1>1. th \in [Threads -> ThreadType] /\ 1 \in 0..NumMethods
  BY ConstantProperties DEF IInv, TypeOK
<1>2. th' \in [Threads -> ThreadType]
  BY <1>1, Names DEF ThreadWake, ThreadType
<1> QED
  BY <1>1, <1>2 DEF ThreadWake, Alone, KeepsResult, KeepsStore, ThreadType

LEMMA RewindEffect ==
  ASSUME IInv, NEW t \in Threads, Rewind(t)
  PROVE  /\ Alone(t) /\ KeepsEvents(t) /\ KeepsResult(t) /\ pool' = pool /\ mem' = mem
         /\ th[t].pc = "rewind" /\ th'[t].pc = "encode"
         /\ th'[t].blocks = th[t].blocks /\ th'[t].pass = th[t].pass /\ th'[t].made = 0
         /\ th'[t].total = IF th[t].realMode THEN th[t].total ELSE 0
         /\ ~th[t].realMode => arc' = arc
         /\ th[t].realMode => ChangesData(th[t].item) /\ arc'.data[th[t].item] = <<>>
<1>1. th \in [Threads -> ThreadType] /\ 0 \in 0..MaxChunks
  BY ConstantProperties DEF IInv, TypeOK
<1>2. th' \in [Threads -> ThreadType]
  <2> DEFINE total == IF th[t].realMode THEN th[t].total ELSE 0
  <2>1. total \in 0..MaxChunks
    BY <1>1, ThreadFacts DEF IInv
  <2>2. th' = [th EXCEPT ![t].pc = "encode", ![t].made = 0, ![t].total = total]
    BY DEF Rewind
  <2> HIDE DEF total
  <2>3. "encode" \in ThreadPcs /\ th[t] \in ThreadType
    BY <1>1, Names
  <2>4. th'[t] \in ThreadType
    BY <1>1, <2>1, <2>2, <2>3 DEF ThreadType
  <2> QED
    BY <1>1, <2>2, <2>4
<1>3. th[t].pc = "rewind" /\ ~th[t].isFree
  BY AtWork DEF Rewind
<1>4. ASSUME th[t].realMode
      PROVE  ChangesData(th[t].item) /\ arc'.data[th[t].item] = <<>>
  <2>1. /\ arc.pos = th[t].item /\ th[t].region = th[t].item /\ th[t].item \in Items
    BY <1>3, <1>4, AtFileItem
  <2>2. arc' = [arc EXCEPT !.data[th[t].item] = <<>>, !.pos = th[t].item]
    BY <1>4, <2>1 DEF Rewind
  <2>3. arc \in ArcType /\ arc.data \in [Items -> Seq(Stored)] /\ arc.pos \in 0..N
    BY StoreFacts DEF IInv
  <2>4. /\ arc'.pos = arc.pos /\ arc'.order = arc.order /\ arc'.packSize = arc.packSize
        /\ arc'.lost = arc.lost
        /\ arc'.data = [arc.data EXCEPT ![th[t].item] = <<>>]
    BY <2>1, <2>2, <2>3 DEF ArcType
  <2>5. arc' \in ArcType
    <3>1. <<>> \in Seq(Stored)
      OBVIOUS
    <3>2. arc'.data \in [Items -> Seq(Stored)]
      BY <2>1, <2>3, <2>4, <3>1
    <3> QED
      BY <2>1, <2>2, <2>3, <3>2 DEF ArcType
  <2> QED
    BY <2>1, <2>3, <2>4, <2>5 DEF ChangesData
<1>5. /\ Alone(t) /\ KeepsEvents(t) /\ KeepsResult(t) /\ pool' = pool /\ mem' = mem
      /\ th'[t].pc = "encode"
      /\ th'[t].blocks = th[t].blocks /\ th'[t].pass = th[t].pass /\ th'[t].made = 0
      /\ th'[t].total = IF th[t].realMode THEN th[t].total ELSE 0
      /\ ~th[t].realMode => arc' = arc
  BY <1>1, <1>2 DEF Rewind, Alone, KeepsEvents, KeepsResult, ThreadType
<1> QED
  BY <1>3, <1>4, <1>5

LEMMA FillEffect ==
  ASSUME IInv, NEW t \in Threads, Fill(t)
  PROVE  /\ Alone(t) /\ KeepsEvents(t) /\ KeepsResult(t) /\ pool' = pool /\ arc' = arc
         /\ th[t].pc \in {"fill", "encode"} /\ th'[t].pc = "encode" /\ ~th[t].realMode
         /\ th[t].made + 1 \in 1..Len(th[t].blocks) /\ th[t].made < MaxChunks
         /\ th'[t].blocks = th[t].blocks /\ th'[t].pass = th[t].pass
         /\ th'[t].made = th[t].made + 1 /\ th'[t].total = th[t].made + 1
         /\ mem' \in [Blocks -> Stored]
         /\ mem' = [mem EXCEPT ![th[t].blocks[th[t].made + 1]] = Chunk(t)]
<1> DEFINE k == th[t].made + 1
<1>1. /\ th \in [Threads -> ThreadType] /\ th[t].made \in Nat /\ th[t].total = th[t].made
      /\ th[t].blocks \in Seq(Blocks) /\ th[t].made < MaxChunks
      /\ th[t].pc \in {"fill", "encode"} /\ ~th[t].realMode /\ k <= Len(th[t].blocks)
  <2>1. th[t].pc \in {"fill", "encode"} /\ ~th[t].realMode /\ k <= Len(th[t].blocks)
    BY DEF Fill, Encoding
  <2>2. StreamFits(t)
    BY <2>1, AtWork
  <2>3. th[t].made < MaxChunks
    BY <2>1, <2>2 DEF Fill, Encoding, StreamFits
  <2>4. th[t].total = th[t].made
    BY <2>1, <2>2 DEF StreamFits, InMemory
  <2>5. th[t].made \in 0..MaxChunks /\ th[t].blocks \in Seq(Blocks) /\ th \in [Threads -> ThreadType]
    BY ThreadFacts DEF IInv
  <2> QED
    BY <2>1, <2>3, <2>4, <2>5, ConstantProperties
<1>2. k \in 0..MaxChunks /\ k \in 1..Len(th[t].blocks) /\ k > th[t].total
  BY <1>1, ConstantProperties
<1>3. th' = [th EXCEPT ![t].made = k, ![t].total = k, ![t].pc = "encode"]
  BY <1>2 DEF Fill
<1>4. th' \in [Threads -> ThreadType]
  <2>1. "encode" \in ThreadPcs /\ th[t] \in ThreadType
    BY <1>1, <1>2, <1>3, Names
  <2>2. th'[t] \in ThreadType
    BY <1>1, <1>2, <1>3, <2>1 DEF ThreadType
  <2> QED
    BY <1>1, <1>2, <1>3, <2>2
<1>5. mem' = [mem EXCEPT ![th[t].blocks[k]] = Chunk(t)]
  BY DEF Fill
<1>6. mem' \in [Blocks -> Stored]
  <2>1. Chunk(t) \in Stored
    <3>1. th[t].item \in Items /\ th[t].pass \in 1..NumMethods /\ k \in 1..MaxChunks
      BY <1>1, <1>2, AtWork
    <3> QED
      BY <3>1 DEF Chunk, Stored, Chunks
  <2>2. mem \in [Blocks -> Stored]
    BY StoreFacts DEF IInv
  <2> QED
    BY <1>5, <2>1, <2>2
<1>7. Alone(t) /\ KeepsEvents(t) /\ KeepsResult(t) /\ pool' = pool /\ arc' = arc
  BY <1>1, <1>3, <1>4 DEF Fill, Alone, KeepsEvents, KeepsResult, ThreadType
<1>8. /\ th'[t].pc = "encode" /\ th'[t].blocks = th[t].blocks /\ th'[t].pass = th[t].pass
      /\ th'[t].made = k /\ th'[t].total = k
  BY <1>1, <1>3, <1>4 DEF ThreadType
<1> QED
  BY <1>1, <1>2, <1>5, <1>6, <1>7, <1>8

LEMMA NeedBlockEffect ==
  ASSUME IInv, NEW t \in Threads, NeedBlock(t)
  PROVE  /\ Alone(t) /\ KeepsEvents(t) /\ KeepsResult(t) /\ KeepsData(t) /\ KeepsStore
         /\ th[t].pc = "encode" /\ th'[t].pc = "block" /\ ~th[t].realMode
         /\ th[t].made < MaxChunks /\ th[t].made = Len(th[t].blocks)
<1>1. th \in [Threads -> ThreadType]
  BY DEF IInv, TypeOK
<1>2. th' = [th EXCEPT ![t].pc = "block"]
  BY DEF NeedBlock, Goto
<1>3. th' \in [Threads -> ThreadType]
  <2>1. "block" \in ThreadPcs /\ th[t] \in ThreadType
    BY <1>1, <1>2, Names
  <2>2. th'[t] \in ThreadType
    BY <1>1, <1>2, <2>1 DEF ThreadType
  <2> QED
    BY <1>1, <1>2, <2>2
<1>4. Alone(t) /\ KeepsEvents(t) /\ KeepsResult(t) /\ KeepsData(t) /\ KeepsStore
  BY <1>1, <1>2, <1>3 DEF NeedBlock, Alone, KeepsEvents, KeepsResult, KeepsData, KeepsStore, ThreadType
<1> QED
  BY <1>1, <1>2, <1>4 DEF NeedBlock, Encoding

LEMMA WaitBlockEffect ==
  ASSUME IInv, NEW t \in Threads, WaitBlock(t)
  PROVE  /\ Alone(t) /\ KeepsData(t) /\ mem' = mem /\ arc' = arc /\ th[t].pc = "block"
         /\ th'[t].compressEvent = th[t].compressEvent
         /\ th'[t].completedEvent = th[t].completedEvent
         /\ \/ /\ th[t].stopEvent /\ ~th'[t].stopEvent /\ th'[t].realEvent = th[t].realEvent
               /\ th'[t].realMode = th[t].realMode
               /\ th'[t].result = "abort" /\ th'[t].pc = "signal" /\ pool' = pool
            \/ /\ th[t].realEvent /\ ~th'[t].realEvent /\ th'[t].realMode
               /\ th'[t].stopEvent = th[t].stopEvent
               /\ KeepsResult(t) /\ th'[t].pc = "flush" /\ pool' = pool
            \/ /\ pool.sem > 0 /\ pool' = [pool EXCEPT !.sem = @ - 1]
               /\ KeepsEvents(t) /\ KeepsResult(t) /\ th'[t].pc = "alloc"
<1>1. th \in [Threads -> ThreadType] /\ th[t].pc = "block" /\ mem' = mem /\ arc' = arc
      /\ main' = main /\ refs' = refs
  BY DEF IInv, TypeOK, WaitBlock
<1>2. CASE /\ th[t].stopEvent /\ pool' = pool
           /\ th' = [th EXCEPT ![t].stopEvent = FALSE, ![t].result = "abort", ![t].pc = "signal"]
  <2>1. th' \in [Threads -> ThreadType]
    <3>1. "signal" \in ThreadPcs /\ "abort" \in Results /\ th[t] \in ThreadType
      BY <1>1, <1>2, Names
    <3>2. th'[t] \in ThreadType
      BY <1>1, <1>2, <3>1 DEF ThreadType
    <3> QED
      BY <1>1, <1>2, <3>2
  <2> QED
    BY <1>1, <1>2, <2>1 DEF Alone, KeepsData, ThreadType
<1>3. CASE /\ th[t].realEvent /\ pool' = pool
           /\ th' = [th EXCEPT ![t].realEvent = FALSE, ![t].realMode = TRUE, ![t].pc = "flush"]
  <2>1. th' \in [Threads -> ThreadType]
    <3>1. "flush" \in ThreadPcs /\ th[t] \in ThreadType
      BY <1>1, <1>3, Names
    <3>2. th'[t] \in ThreadType
      BY <1>1, <1>3, <3>1 DEF ThreadType
    <3> QED
      BY <1>1, <1>3, <3>2
  <2> QED
    BY <1>1, <1>3, <2>1 DEF Alone, KeepsData, KeepsResult, ThreadType
<1>4. CASE /\ pool.sem > 0 /\ pool' = [pool EXCEPT !.sem = @ - 1]
           /\ th' = [th EXCEPT ![t].pc = "alloc"]
  <2>1. th' \in [Threads -> ThreadType]
    <3>1. "alloc" \in ThreadPcs /\ th[t] \in ThreadType
      BY <1>1, <1>4, Names
    <3>2. th'[t] \in ThreadType
      BY <1>1, <1>4, <3>1 DEF ThreadType
    <3> QED
      BY <1>1, <1>4, <3>2
  <2> QED
    BY <1>1, <1>4, <2>1 DEF Alone, KeepsData, KeepsResult, KeepsEvents, ThreadType
<1> QED
  BY <1>1, <1>2, <1>3, <1>4 DEF WaitBlock, Goto

(* There is a block for a thread that the semaphore let through.           *)
LEMMA BlockPromised ==
  ASSUME IInv
  PROVE  /\ IsFiniteSet(pool.free) /\ IsFiniteSet(Promised)
         /\ Cardinality(pool.free) \in Nat /\ Cardinality(Promised) \in Nat /\ pool.sem \in Nat
         /\ Cardinality(pool.free) <= NumBlocks
         /\ Promised # {} => Cardinality(Promised) >= 1
         /\ \A t \in Threads : th[t].pc \in {"alloc", "release"} =>
              /\ Cardinality(Promised) >= 1
              /\ pool.sem + 1 <= Cardinality(pool.free) /\ pool.free # {}
         /\ main.pc = "release" => pool.sem + 1 <= Cardinality(pool.free)
         /\ pool.sem <= Cardinality(pool.free)
<1>1. IsFiniteSet(pool.free) /\ Cardinality(pool.free) <= NumBlocks
  <2>1. pool.free \in SUBSET Blocks
    BY StoreFacts DEF IInv
  <2> QED
    BY <2>1, ConstantProperties, FS_Subset
<1>2. IsFiniteSet(Promised)
  <2>1. Promised \in SUBSET Threads
    BY DEF Promised
  <2> QED
    BY <2>1, ConstantProperties, FS_Subset
<1>3. Cardinality(pool.free) \in Nat /\ Cardinality(Promised) \in Nat /\ pool.sem \in Nat
  BY <1>1, <1>2, FS_CardinalityType, StoreFacts, ConstantProperties DEF IInv
<1>4. Promised # {} => Cardinality(Promised) >= 1
  BY <1>2, <1>3, FS_EmptySet
<1>5. SemaphoreCounts
  BY DEF IInv, PoolIsBalanced
<1>6. ASSUME NEW t \in Threads, th[t].pc \in {"alloc", "release"}
      PROVE  /\ Cardinality(Promised) >= 1
             /\ pool.sem + 1 <= Cardinality(pool.free) /\ pool.free # {}
  <2>1. Promised # {}
    BY <1>6 DEF Promised
  <2>2. pool.sem + 1 <= Cardinality(pool.free)
    BY <1>3, <1>4, <1>5, <2>1 DEF SemaphoreCounts
  <2> QED
    BY <1>3, <1>4, <2>1, <2>2, FS_EmptySet
<1>7. /\ main.pc = "release" => pool.sem + 1 <= Cardinality(pool.free)
      /\ pool.sem <= Cardinality(pool.free)
  BY <1>3, <1>5 DEF SemaphoreCounts
<1> QED
  BY <1>1, <1>2, <1>3, <1>4, <1>6, <1>7

LEMMA AllocateEffect ==
  ASSUME IInv, NEW t \in Threads, AllocateBlock(t)
  PROVE  /\ Alone(t) /\ KeepsEvents(t) /\ KeepsResult(t) /\ mem' = mem /\ arc' = arc
         /\ th[t].pc = "alloc" /\ th'[t].pc = "fill"
         /\ th'[t].total = th[t].total /\ th'[t].pass = th[t].pass /\ th'[t].made = th[t].made
         /\ \E b \in pool.free : /\ pool' = [pool EXCEPT !.free = @ \ {b}]
                                 /\ th'[t].blocks = Append(th[t].blocks, b)
<1> DEFINE b == CHOOSE x \in pool.free : \A y \in pool.free : x <= y
<1>1. th \in [Threads -> ThreadType] /\ th[t].pc = "alloc" /\ th[t].blocks \in Seq(Blocks)
  BY ThreadFacts DEF IInv, AllocateBlock
<1>2. pool.free # {} /\ pool.free \subseteq Blocks /\ pool.free \subseteq Nat
  BY <1>1, BlockPromised, StoreFacts, ConstantProperties DEF IInv
<1>3. b \in pool.free
  <2>1. \E x \in pool.free : \A y \in pool.free : x <= y
    BY <1>2, SmallestElement
  <2> QED
    BY <2>1
<1>4. /\ pool' = [pool EXCEPT !.free = @ \ {b}] /\ mem' = mem /\ arc' = arc
      /\ th' = [th EXCEPT ![t].blocks = Append(@, b), ![t].pc = "fill"]
      /\ main' = main /\ refs' = refs
  BY <1>2 DEF AllocateBlock
<1> HIDE DEF b
<1> DEFINE s == Append(th[t].blocks, b)
<1>5. s \in Seq(Blocks) /\ th' = [th EXCEPT ![t].blocks = s, ![t].pc = "fill"]
  BY <1>1, <1>2, <1>3, <1>4
<1> HIDE DEF s
<1>6. th' \in [Threads -> ThreadType]
  <2>1. "fill" \in ThreadPcs /\ th[t] \in ThreadType
    BY <1>1, <1>5, Names
  <2>2. th'[t] \in ThreadType
    BY <1>1, <1>5, <2>1 DEF ThreadType
  <2> QED
    BY <1>1, <1>5, <2>2
<1>7. /\ Alone(t) /\ KeepsEvents(t) /\ KeepsResult(t)
      /\ th'[t].pc = "fill" /\ th'[t].blocks = Append(th[t].blocks, b)
      /\ th'[t].total = th[t].total /\ th'[t].pass = th[t].pass /\ th'[t].made = th[t].made
  BY <1>1, <1>4, <1>5, <1>6 DEF Alone, KeepsEvents, KeepsResult, ThreadType, s
<1> QED
  BY <1>1, <1>3, <1>4, <1>7

LEMMA FlushEffect ==
  ASSUME IInv, NEW t \in Threads, Flush(t)
  PROVE  /\ Alone(t) /\ KeepsEvents(t) /\ KeepsData(t) /\ pool' = pool /\ mem' = mem
         /\ th[t].pc = "flush" /\ th[t].realMode /\ ChangesData(th[t].item)
         /\ \/ /\ th'[t].pc = "free" /\ KeepsResult(t)
               /\ arc'.data[th[t].item] = arc.data[th[t].item] \o Contents(th[t].blocks, th[t].total)
            \/ FileFaults /\ th'[t].result = "fail" /\ th'[t].pc = "signal"
<1> DEFINE chunks == Contents(th[t].blocks, th[t].total)
<1>1. th \in [Threads -> ThreadType] /\ th[t].pc = "flush" /\ pool' = pool /\ mem' = mem
      /\ main' = main /\ refs' = refs
  BY DEF IInv, TypeOK, Flush
<1>2. ~th[t].isFree /\ th[t].realMode
  BY <1>1, AtWork DEF StreamFits
<1>3. arc.pos = th[t].item /\ arc.pos \in Items
  BY <1>2, AtFileItem
<1>4. chunks \in Seq(Stored)
  <2>1. th[t].total <= Len(th[t].blocks)
    BY <1>1, AtWork DEF StreamFits, InMemory
  <2>2. th[t].total \in 0..MaxChunks /\ th[t].blocks \in Seq(Blocks)
    BY ThreadFacts DEF IInv
  <2>3. th[t].total \in Nat
    BY <2>2, ConstantProperties
  <2> QED
    BY <2>1, <2>2, <2>3, ContentsType DEF IInv
<1> HIDE DEF chunks
<1>5. CASE Append2File(chunks) /\ th' = [th EXCEPT ![t].pc = "free"]
  <2>1. th' \in [Threads -> ThreadType]
    <3>1. "free" \in ThreadPcs /\ th[t] \in ThreadType
      BY <1>1, <1>5, Names
    <3>2. th'[t] \in ThreadType
      BY <1>1, <1>5, <3>1 DEF ThreadType
    <3> QED
      BY <1>1, <1>5, <3>2
  <2>2. Alone(t) /\ KeepsEvents(t) /\ KeepsData(t) /\ KeepsResult(t) /\ th'[t].pc = "free"
    BY <1>1, <1>5, <2>1 DEF Alone, KeepsEvents, KeepsData, KeepsResult, ThreadType
  <2>3. ChangesData(th[t].item) /\ arc'.data[th[t].item] = arc.data[th[t].item] \o chunks
    BY <1>3, <1>4, <1>5, AppendEffect DEF IInv
  <2> QED
    BY <1>1, <1>2, <2>2, <2>3 DEF chunks
<1>6. CASE /\ FileFaults /\ AppendPrefix(chunks)
           /\ th' = [th EXCEPT ![t].result = "fail", ![t].pc = "signal"]
  <2>1. th' \in [Threads -> ThreadType]
    <3>1. "signal" \in ThreadPcs /\ "fail" \in Results /\ th[t] \in ThreadType
      BY <1>1, <1>6, Names
    <3>2. th'[t] \in ThreadType
      BY <1>1, <1>6, <3>1 DEF ThreadType
    <3> QED
      BY <1>1, <1>6, <3>2
  <2>2. Alone(t) /\ KeepsEvents(t) /\ KeepsData(t) /\ th'[t].result = "fail" /\ th'[t].pc = "signal"
    BY <1>1, <1>6, <2>1 DEF Alone, KeepsEvents, KeepsData, ThreadType
  <2>3. ChangesData(th[t].item)
    BY <1>3, <1>4, <1>6, PrefixEffect DEF IInv
  <2> QED
    BY <1>1, <1>2, <1>6, <2>2, <2>3
<1> QED
  BY <1>5, <1>6 DEF Flush, Goto, chunks

LEMMA FreeBlockEffect ==
  ASSUME IInv, NEW t \in Threads, FreeBlock(t)
  PROVE  /\ Alone(t) /\ KeepsEvents(t) /\ KeepsResult(t) /\ arc' = arc
         /\ th[t].pc = "free" /\ th'[t].pc = "release"
         /\ th'[t].total = th[t].total /\ th'[t].pass = th[t].pass /\ th'[t].made = th[t].made
         /\ th[t].blocks # <<>> /\ Last(th[t].blocks) \in Blocks
         /\ th'[t].blocks = Front(th[t].blocks)
         /\ pool' = [pool EXCEPT !.free = @ \cup {Last(th[t].blocks)}]
         /\ mem' \in [Blocks -> Stored]
         /\ mem' = [mem EXCEPT ![Last(th[t].blocks)] = Erased]
<1>1. /\ th \in [Threads -> ThreadType] /\ th[t].blocks \in Seq(Blocks) /\ th[t].blocks # <<>>
      /\ mem \in [Blocks -> Stored]
  BY ThreadFacts, StoreFacts DEF IInv, FreeBlock
<1>2. Last(th[t].blocks) \in Blocks
  BY <1>1 DEF Last
<1> DEFINE s == Front(th[t].blocks)
<1>3. s \in Seq(Blocks)
  <2>1. Len(th[t].blocks) \in Nat /\ Len(th[t].blocks) # 0
    BY <1>1
  <2>2. SubSeq(th[t].blocks, 1, Len(th[t].blocks) - 1) \in Seq(Blocks)
    BY <1>1, <2>1, SubSeqProperties
  <2> QED
    BY <2>2 DEF Front
<1>4. th' = [th EXCEPT ![t].blocks = s, ![t].pc = "release"]
  BY DEF FreeBlock
<1>5. mem' \in [Blocks -> Stored]
  BY <1>1, <1>2 DEF FreeBlock, Stored
<1> HIDE DEF s
<1>6. th' \in [Threads -> ThreadType]
  <2>1. "release" \in ThreadPcs /\ th[t] \in ThreadType
    BY <1>1, <1>3, <1>4, Names
  <2>2. th'[t] \in ThreadType
    BY <1>1, <1>3, <1>4, <2>1 DEF ThreadType
  <2> QED
    BY <1>1, <1>3, <1>4, <2>2
<1>7. /\ Alone(t) /\ KeepsEvents(t) /\ KeepsResult(t)
      /\ th'[t].pc = "release" /\ th'[t].blocks = s
      /\ th'[t].total = th[t].total /\ th'[t].pass = th[t].pass /\ th'[t].made = th[t].made
  BY <1>1, <1>4, <1>6 DEF FreeBlock, Alone, KeepsEvents, KeepsResult, ThreadType
<1> QED
  BY <1>1, <1>2, <1>5, <1>7 DEF FreeBlock, s

LEMMA ReleaseEffect ==
  ASSUME IInv, NEW t \in Threads, ReleaseBlock(t)
  PROVE  /\ Alone(t) /\ KeepsEvents(t) /\ KeepsResult(t) /\ KeepsData(t) /\ mem' = mem /\ arc' = arc
         /\ th[t].pc = "release" /\ th'[t].pc = "free"
         /\ pool.sem + 1 <= NumBlocks /\ pool' = [pool EXCEPT !.sem = pool.sem + 1]
<1>1. th \in [Threads -> ThreadType] /\ th[t].pc = "release"
  BY DEF IInv, TypeOK, ReleaseBlock
<1>2. pool.sem \in Nat /\ pool.sem + 1 <= NumBlocks
  BY <1>1, BlockPromised, ConstantProperties
<1>3. th' = [th EXCEPT ![t].pc = "free"] /\ pool' = [pool EXCEPT !.sem = pool.sem + 1]
  BY <1>2, ConstantProperties DEF ReleaseBlock, Goto, Released
<1>4. th' \in [Threads -> ThreadType]
  <2>1. "free" \in ThreadPcs /\ th[t] \in ThreadType
    BY <1>1, <1>3, Names
  <2>2. th'[t] \in ThreadType
    BY <1>1, <1>3, <2>1 DEF ThreadType
  <2> QED
    BY <1>1, <1>3, <2>2
<1>5. Alone(t) /\ KeepsEvents(t) /\ KeepsResult(t) /\ KeepsData(t) /\ th'[t].pc = "free"
  BY <1>1, <1>3, <1>4 DEF ReleaseBlock, Alone, KeepsEvents, KeepsResult, KeepsData, ThreadType
<1> QED
  BY <1>1, <1>2, <1>3, <1>5 DEF ReleaseBlock

LEMMA FreeDoneEffect ==
  ASSUME IInv, NEW t \in Threads, FreeDone(t)
  PROVE  /\ Alone(t) /\ KeepsEvents(t) /\ KeepsResult(t) /\ KeepsStore
         /\ th[t].pc = "free" /\ th'[t].pc = "direct" /\ th[t].blocks = <<>>
         /\ th'[t].total = 0
         /\ th'[t].blocks = <<>> /\ th'[t].pass = th[t].pass /\ th'[t].made = th[t].made
<1>1. th \in [Threads -> ThreadType] /\ 0 \in 0..MaxChunks
  BY ConstantProperties DEF IInv, TypeOK
<1>2. th' = [th EXCEPT ![t].total = 0, ![t].pc = "direct"] /\ th[t].pc = "free"
      /\ th[t].blocks = <<>>
  BY DEF FreeDone
<1>3. th' \in [Threads -> ThreadType]
  <2>1. "direct" \in ThreadPcs /\ th[t] \in ThreadType
    BY <1>1, <1>2, Names
  <2>2. th'[t] \in ThreadType
    BY <1>1, <1>2, <2>1 DEF ThreadType
  <2> QED
    BY <1>1, <1>2, <2>2
<1> QED
  BY <1>1, <1>2, <1>3 DEF FreeDone, Alone, KeepsEvents, KeepsResult, KeepsStore, ThreadType

LEMMA DirectEffect ==
  ASSUME IInv, NEW t \in Threads, DirectWrite(t)
  PROVE  /\ Alone(t) /\ KeepsEvents(t) /\ pool' = pool /\ mem' = mem
         /\ th[t].pc \in {"direct", "encode"} /\ th[t].realMode
         /\ th'[t].blocks = th[t].blocks /\ th'[t].pass = th[t].pass
         /\ th'[t].total = th[t].total /\ th[t].made \in Nat
         /\ \/ /\ th'[t].pc = "encode" /\ KeepsResult(t) /\ th'[t].made = th[t].made + 1
               /\ ChangesData(th[t].item)
               /\ arc'.data[th[t].item] = Append(arc.data[th[t].item], Chunk(t))
            \/ /\ FileFaults /\ th'[t].result = "fail" /\ th'[t].pc = "signal"
               /\ th'[t].made = th[t].made /\ arc' = arc
<1>1. /\ th \in [Threads -> ThreadType] /\ pool' = pool /\ mem' = mem
      /\ main' = main /\ refs' = refs /\ th[t].pc \in {"direct", "encode"}
  BY DEF IInv, TypeOK, DirectWrite, Encoding
<1>2. th[t].realMode /\ th[t].made < MaxChunks
  BY <1>1, AtWork DEF StreamFits, DirectWrite, Encoding
<1>3. th[t].made \in Nat /\ th[t].made + 1 \in 0..MaxChunks /\ th[t].made + 1 \in 1..MaxChunks
  <2>1. th[t].made \in 0..MaxChunks
    BY ThreadFacts DEF IInv
  <2> QED
    BY <1>2, <2>1, ConstantProperties
<1>4. arc.pos = th[t].item /\ arc.pos \in Items
  BY <1>1, <1>2, AtWork, AtFileItem
<1>5. Chunk(t) \in Stored
  BY <1>1, <1>3, <1>4, AtWork DEF Chunk, Stored, Chunks
<1>6. CASE /\ Append2File(<<Chunk(t)>>)
           /\ th' = [th EXCEPT ![t].made = th[t].made + 1, ![t].pc = "encode"]
  <2>1. th' \in [Threads -> ThreadType]
    <3>1. "encode" \in ThreadPcs /\ th[t] \in ThreadType
      BY <1>1, <1>3, <1>6, Names
    <3>2. th'[t] \in ThreadType
      BY <1>1, <1>3, <1>6, <3>1 DEF ThreadType
    <3> QED
      BY <1>1, <1>3, <1>6, <3>2
  <2>2. /\ Alone(t) /\ KeepsEvents(t) /\ KeepsResult(t) /\ th'[t].pc = "encode"
        /\ th'[t].blocks = th[t].blocks /\ th'[t].pass = th[t].pass
        /\ th'[t].total = th[t].total /\ th'[t].made = th[t].made + 1
    BY <1>1, <1>6, <2>1 DEF Alone, KeepsEvents, KeepsResult, ThreadType
  <2>3. ChangesData(th[t].item) /\ arc'.data[th[t].item] = arc.data[th[t].item] \o <<Chunk(t)>>
    <3>1. <<Chunk(t)>> \in Seq(Stored)
      BY <1>5
    <3> QED
      BY <1>4, <1>6, <3>1, AppendEffect DEF IInv
  <2>4. arc.data[th[t].item] \o <<Chunk(t)>> = Append(arc.data[th[t].item], Chunk(t))
    <3>1. arc.data[th[t].item] \in Seq(Stored)
      BY <1>4, StoreFacts DEF IInv
    <3> QED
      BY <1>5, <3>1, AppendIsConcat
  <2> QED
    BY <1>1, <1>2, <1>3, <2>2, <2>3, <2>4
<1>7. CASE /\ FileFaults /\ arc' = arc
           /\ th' = [th EXCEPT ![t].result = "fail", ![t].pc = "signal"]
  <2>1. th' \in [Threads -> ThreadType]
    <3>1. "signal" \in ThreadPcs /\ "fail" \in Results /\ th[t] \in ThreadType
      BY <1>1, <1>7, Names
    <3>2. th'[t] \in ThreadType
      BY <1>1, <1>7, <3>1 DEF ThreadType
    <3> QED
      BY <1>1, <1>7, <3>2
  <2>2. /\ Alone(t) /\ KeepsEvents(t) /\ KeepsData(t) /\ th'[t].pc = "signal"
        /\ th'[t].result = "fail"
    BY <1>1, <1>7, <2>1 DEF Alone, KeepsEvents, KeepsData, ThreadType
  <2> QED
    BY <1>1, <1>2, <1>3, <1>7, <2>2 DEF KeepsData
<1> QED
  BY <1>6, <1>7 DEF DirectWrite

LEMMA EndPassEffect ==
  ASSUME IInv, NEW t \in Threads, EndPass(t)
  PROVE  /\ Alone(t) /\ KeepsEvents(t) /\ KeepsStore /\ th[t].pc = "encode"
         /\ th'[t].blocks = th[t].blocks /\ th'[t].total = th[t].total
         /\ th'[t].made = th[t].made
         /\ \/ /\ th'[t].pass = th[t].pass + 1 /\ th'[t].pass # 0 /\ th'[t].pc = "rewind"
               /\ KeepsResult(t)
            \/ th'[t].pass = th[t].pass /\ th'[t].pc = "report" /\ KeepsResult(t)
            \/ /\ EncoderFaults /\ th'[t].pass = th[t].pass /\ th'[t].result = "fail"
               /\ th'[t].pc = "signal"
<1>1. /\ th \in [Threads -> ThreadType] /\ th[t].pc = "encode" /\ KeepsStore
      /\ main' = main /\ refs' = refs
  BY DEF IInv, TypeOK, EndPass, KeepsStore
<1>2. th[t].pass \in 1..NumMethods
  BY <1>1, AtWork
<1>3. CASE th[t].pass < NumMethods /\ th' = [th EXCEPT ![t].pass = th[t].pass + 1, ![t].pc = "rewind"]
  <2>1. th[t].pass + 1 \in 0..NumMethods /\ th[t].pass + 1 # 0
    BY <1>2, <1>3, ConstantProperties
  <2>2. th' \in [Threads -> ThreadType]
    <3>1. "rewind" \in ThreadPcs /\ th[t] \in ThreadType
      BY <1>1, <1>3, <2>1, Names
    <3>2. th'[t] \in ThreadType
      BY <1>1, <1>3, <2>1, <3>1 DEF ThreadType
    <3> QED
      BY <1>1, <1>3, <2>1, <3>2
  <2> QED
    BY <1>1, <1>3, <2>1, <2>2 DEF Alone, KeepsEvents, KeepsResult, ThreadType
<1>4. CASE th' = [th EXCEPT ![t].pc = "report"]
  <2>1. th' \in [Threads -> ThreadType]
    <3>1. "report" \in ThreadPcs /\ th[t] \in ThreadType
      BY <1>1, <1>4, Names
    <3>2. th'[t] \in ThreadType
      BY <1>1, <1>4, <3>1 DEF ThreadType
    <3> QED
      BY <1>1, <1>4, <3>2
  <2> QED
    BY <1>1, <1>4, <2>1 DEF Alone, KeepsEvents, KeepsResult, ThreadType
<1>5. CASE EncoderFaults /\ th' = [th EXCEPT ![t].result = "fail", ![t].pc = "signal"]
  <2>1. th' \in [Threads -> ThreadType]
    <3>1. "signal" \in ThreadPcs /\ "fail" \in Results /\ th[t] \in ThreadType
      BY <1>1, <1>5, Names
    <3>2. th'[t] \in ThreadType
      BY <1>1, <1>5, <3>1 DEF ThreadType
    <3> QED
      BY <1>1, <1>5, <3>2
  <2> QED
    BY <1>1, <1>5, <2>1 DEF Alone, KeepsEvents, KeepsResult, ThreadType
<1> QED
  BY <1>3, <1>4, <1>5 DEF EndPass

LEMMA ReportEffect ==
  ASSUME IInv, NEW t \in Threads, Report(t)
  PROVE  /\ Alone(t) /\ KeepsEvents(t) /\ KeepsData(t) /\ KeepsStore
         /\ th[t].pc = "report" /\ th'[t].pc = "signal"
         /\ th'[t].result = "ok" \/ (EncoderFaults /\ th'[t].result = "abort")
<1>1. /\ th \in [Threads -> ThreadType] /\ th[t].pc = "report" /\ KeepsStore
      /\ main' = main /\ refs' = refs
  BY DEF IInv, TypeOK, Report, KeepsStore
<1>2. PICK r \in {"ok", "abort"} :
        /\ th' = [th EXCEPT ![t].result = r, ![t].pc = "signal"]
        /\ r = "ok" \/ EncoderFaults
  BY DEF Report
<1>3. th' \in [Threads -> ThreadType]
  <2>1. "signal" \in ThreadPcs /\ r \in Results /\ th[t] \in ThreadType
    BY <1>1, <1>2, Names
  <2>2. th'[t] \in ThreadType
    BY <1>1, <1>2, <2>1 DEF ThreadType
  <2> QED
    BY <1>1, <1>2, <2>2
<1> QED
  BY <1>1, <1>2, <1>3 DEF Alone, KeepsEvents, KeepsData, ThreadType

LEMMA SignalEffect ==
  ASSUME IInv, NEW t \in Threads, SignalCompletion(t)
  PROVE  /\ Alone(t) /\ KeepsResult(t) /\ KeepsData(t) /\ KeepsStore
         /\ th[t].pc = "signal" /\ th'[t].pc = "wait" /\ th'[t].completedEvent
         /\ th'[t].compressEvent = th[t].compressEvent /\ th'[t].stopEvent = th[t].stopEvent
         /\ th'[t].realEvent = th[t].realEvent /\ th'[t].realMode = th[t].realMode
<1>1. th \in [Threads -> ThreadType] /\ th[t].pc = "signal"
  BY DEF IInv, TypeOK, SignalCompletion
<1>2. th' = [th EXCEPT ![t].completedEvent = TRUE, ![t].pc = "wait"]
  BY DEF SignalCompletion
<1>3. th' \in [Threads -> ThreadType]
  <2>1. "wait" \in ThreadPcs /\ th[t] \in ThreadType
    BY <1>1, <1>2, Names
  <2>2. th'[t] \in ThreadType
    BY <1>1, <1>2, <2>1 DEF ThreadType
  <2> QED
    BY <1>1, <1>2, <2>2
<1> QED
  BY <1>1, <1>2, <1>3 DEF SignalCompletion, Alone, KeepsResult, KeepsData, KeepsStore, ThreadType

-----------------------------------------------------------------------------
(* What follows from the other parts of the invariant in one state.        *)
ListFits ==
  ~InFinalPhase =>
    /\ \A j, k \in 1..Len(main.threadIndices) :
         j < k => th[main.threadIndices[j]].item < th[main.threadIndices[k]].item
    /\ \A t \in Threads : (t \in Range(main.threadIndices)) = ~th[t].isFree

LEMMA OneWriter == ItemsHaveThreads /\ FileIsGranted => WriterOwnsFile
<1> SUFFICES ASSUME ItemsHaveThreads, FileIsGranted PROVE WriterOwnsFile
  OBVIOUS
<1>1. \A t \in Threads : th[t].realMode /\ ~th[t].isFree => Granted(t)
  BY DEF FileIsGranted, Granted
<1>2. \A t, u \in Threads : Granted(t) /\ Granted(u) => t = u
  BY DEF ItemsHaveThreads, FileIsGranted, Running, Granted
<1> QED
  BY <1>1, <1>2 DEF FileIsGranted, WriterOwnsFile

LEMMA FrontFits == TypeOK /\ ListFits /\ ItemsHaveThreads /\ MainFits => FrontIsNext
<1> SUFFICES ASSUME TypeOK, ListFits, ItemsHaveThreads, MainFits, ~InFinalPhase,
                    (AtFile /\ ~refs[main.itemIndex].defined) \/ main.pc = "await"
             PROVE  /\ main.threadIndices # <<>>
                    /\ th[main.threadIndices[1]].item = main.itemIndex
  BY DEF FrontIsNext, ListFits
<1> DEFINE ti == main.threadIndices
<1>1. ti \in Seq(Threads) /\ main.itemIndex \in Nat /\ main.mtItemIndex \in Nat /\ N \in Nat
  BY MainFacts, ConstantProperties
<1>2. CASE main.pc = "await"
  BY <1>2 DEF MainFits
<1>3. CASE AtFile /\ ~refs[main.itemIndex].defined
  <2>1. /\ main.pc = "top" /\ main.itemIndex <= N /\ ~refs[main.itemIndex].skip
        /\ Kind[main.itemIndex] = "new" /\ ~refs[main.itemIndex].defined
        /\ ~(Len(ti) < NumThreads /\ main.mtItemIndex <= N)
    BY <1>3 DEF AtFile, AtItem, AtTop, CanDispatch
  <2>2. FirstItem = main.itemIndex /\ EndItem = main.mtItemIndex
    BY <2>1 DEF FirstItem, EndItem, Finishing, AtStream
  <2>3. main.itemIndex <= main.mtItemIndex
    BY <2>2 DEF ItemsHaveThreads
  <2>4. main.itemIndex < main.mtItemIndex
    <3>1. SUFFICES ASSUME main.itemIndex = main.mtItemIndex PROVE FALSE
      BY <1>1, <2>3
    <3>2. Len(ti) >= NumThreads /\ NumThreads \in Nat \ {0} /\ Len(ti) \in Nat
      BY <1>1, <2>1, <3>1, ConstantProperties
    <3>3. 1 \in 1..Len(ti) /\ ti[1] \in Threads /\ ti[1] \in Range(ti)
      BY <1>1, <3>2 DEF Range
    <3>4. ~th[ti[1]].isFree
      BY <3>3 DEF ListFits
    <3>5. th[ti[1]].item \in FirstItem..(EndItem - 1)
      BY <3>3, <3>4 DEF ItemsHaveThreads
    <3> QED
      BY <1>1, <2>2, <3>1, <3>5
  <2>5. main.itemIndex \in FirstItem..(EndItem - 1)
    BY <1>1, <2>2, <2>4
  <2>6. PICK t \in Threads : ~th[t].isFree /\ th[t].item = main.itemIndex
    BY <2>1, <2>5 DEF ItemsHaveThreads, Running
  <2>7. PICK k \in 1..Len(ti) : ti[k] = t
    <3>1. t \in Range(ti)
      BY <2>6 DEF ListFits
    <3> QED
      BY <3>1, <1>1 DEF Range
  <2>8. 1 \in 1..Len(ti) /\ ti[1] \in Threads /\ ti[1] \in Range(ti) /\ ti # <<>>
    BY <1>1, <2>7 DEF Range
  <2>9. ~th[ti[1]].isFree
    BY <2>8 DEF ListFits
  <2>10. th[ti[1]].item \in FirstItem..(EndItem - 1)
    BY <2>8, <2>9 DEF ItemsHaveThreads
  <2>11. th[ti[1]].item >= main.itemIndex /\ th[ti[1]].item \in Nat
    BY <1>1, <2>2, <2>10
  <2>12. k = 1 \/ th[ti[1]].item < th[ti[k]].item
    BY <1>1, <2>7, <2>8 DEF ListFits
  <2> QED
    BY <1>1, <2>6, <2>7, <2>8, <2>11, <2>12
<1> QED
  BY <1>2, <1>3

-----------------------------------------------------------------------------
(* A step of one thread leaves what Update2 relies on alone, so only the   *)
(* thread's own part of the invariant and the blocks remain to be shown.   *)
ThreadKeeps(t) ==
  /\ Alone(t) /\ th[t].pc # "exited" /\ (th[t].pc = "wait" => th[t].compressEvent)
  /\ th'[t].realEvent \/ th'[t].realMode => th[t].realEvent \/ th[t].realMode
  /\ arc' \in ArcType /\ arc'.pos = arc.pos /\ arc'.order = arc.order
  /\ arc'.packSize = arc.packSize /\ arc'.lost = arc.lost
  /\ \A i \in Items : arc'.data[i] # arc.data[i] =>
       i = th[t].item /\ th[t].realMode /\ ~th[t].isFree
  /\ pool' \in PoolType /\ mem' \in [Blocks -> Stored]
  /\ \A b \in Blocks : mem'[b] # mem[b] => b \in Range(th[t].blocks)

LEMMA FreeThreadsRest ==
  ASSUME IInv, NEW t \in Threads, ThreadKeeps(t), ~InFinalPhase
  PROVE  ~th[t].isFree /\ (Finishing => t # main.thread)
<1>1. ~th[t].isFree
  BY DEF IInv, ThreadKeeps, Lifecycle
<1>2. Finishing => th[main.thread].isFree
  BY DEF IInv, MainFits
<1> QED
  BY <1>1, <1>2

LEMMA SamePlace ==
  ASSUME NEW t \in Threads, ThreadKeeps(t)
  PROVE  /\ main' = main /\ refs' = refs
         /\ InFinalPhase' = InFinalPhase /\ Finishing' = Finishing /\ AtStream' = AtStream
         /\ FirstItem' = FirstItem /\ EndItem' = EndItem
         /\ AtFile' = AtFile
         /\ \A u \in Threads : /\ th'[u].isFree = th[u].isFree /\ th'[u].item = th[u].item
                               /\ th'[u].region = th[u].region
                               /\ th'[u].unlockSent = th[u].unlockSent
                               /\ th'[u].exitThread = th[u].exitThread
                               /\ Drained(u)' = Drained(u) /\ Granted(u)' = Granted(u)
                               /\ u # t => th'[u] = th[u]
         /\ \A u \in Threads, i \in Items : Running(u, i)' = Running(u, i)
<1>1. /\ main' = main /\ refs' = refs
      /\ \A u \in Threads : /\ th'[u].isFree = th[u].isFree /\ th'[u].item = th[u].item
                            /\ th'[u].region = th[u].region
                            /\ th'[u].unlockSent = th[u].unlockSent
                            /\ th'[u].exitThread = th[u].exitThread
                            /\ u # t => th'[u] = th[u]
  BY DEF ThreadKeeps, Alone
<1>2. /\ InFinalPhase' = InFinalPhase /\ Finishing' = Finishing /\ AtStream' = AtStream
  BY <1>1 DEF InFinalPhase, Finishing, AtStream
<1>3. FirstItem' = FirstItem /\ EndItem' = EndItem
  BY <1>1, <1>2 DEF FirstItem, EndItem
<1>4. AtFile' = AtFile
  BY <1>1 DEF AtFile, AtItem, AtTop, CanDispatch
<1>5. \A u \in Threads : Drained(u)' = Drained(u) /\ Granted(u)' = Granted(u)
  BY <1>1 DEF Drained, Granted
<1>6. \A u \in Threads, i \in Items : Running(u, i)' = Running(u, i)
  BY <1>1 DEF Running
<1> QED
  BY <1>1, <1>2, <1>3, <1>4, <1>5, <1>6

(* Blocks of different owners are different.                               *)
LEMMA OwnBlocks ==
  ASSUME BlocksAreOwned, TypeOK
  PROVE  /\ \A t \in Threads : Range(th[t].blocks) \subseteq Blocks
         /\ \A i \in Items : Range(refs[i].blocks) \subseteq Blocks
         /\ \A t, u \in Threads : t # u => Range(th[t].blocks) \cap Range(th[u].blocks) = {}
         /\ \A t \in Threads, i \in Items :
              Range(th[t].blocks) \cap Range(refs[i].blocks) = {}
         /\ \A i, j \in Items : i # j => Range(refs[i].blocks) \cap Range(refs[j].blocks) = {}
         /\ \A t \in Threads : Range(th[t].blocks) \cap pool.free = {}
         /\ \A t \in Threads : Range(th[t].blocks) \cap main.list = {}
         /\ \A i \in Items : Range(refs[i].blocks) \cap pool.free = {}
         /\ \A i \in Items : Range(refs[i].blocks) \cap main.list = {}
         /\ pool.free \cap main.list = {}
<1>1. \A s \in Seq(Blocks) : Range(s) \subseteq Blocks
  BY DEF Range
<1>2. /\ \A t \in Threads : BlocksOf(<<2, t>>) = Range(th[t].blocks)
      /\ \A i \in Items : BlocksOf(<<3, i>>) = Range(refs[i].blocks)
      /\ BlocksOf(<<0, 0>>) = pool.free /\ BlocksOf(<<1, 0>>) = main.list
  BY DEF BlocksOf
<1>3. \A o, p \in Owners : o # p => BlocksOf(o) \cap BlocksOf(p) = {}
  BY DEF BlocksAreOwned
<1>4. \A t, u \in Threads : t # u => <<2, t>> # <<2, u>>
  OBVIOUS
<1>5. \A t \in Threads, i \in Items : /\ <<2, t>> # <<3, i>> /\ <<2, t>> # <<0, 0>>
                                      /\ <<2, t>> # <<1, 0>> /\ <<3, i>> # <<0, 0>>
                                      /\ <<3, i>> # <<1, 0>>
  OBVIOUS
<1>6. \A i, j \in Items : i # j => <<3, i>> # <<3, j>>
  OBVIOUS
<1>7. /\ \A t \in Threads : Range(th[t].blocks) \cap pool.free = {}
      /\ \A t \in Threads : Range(th[t].blocks) \cap main.list = {}
  <2>1. \A t \in Threads : <<2, t>> # <<0, 0>> /\ <<2, t>> # <<1, 0>>
    OBVIOUS
  <2> QED
    BY <1>2, <1>3, <2>1, OwnerCases
<1>8. \A t, u \in Threads : t # u => Range(th[t].blocks) \cap Range(th[u].blocks) = {}
  BY <1>2, <1>3, <1>4, OwnerCases
<1>9. \A t \in Threads, i \in Items :
              Range(th[t].blocks) \cap Range(refs[i].blocks) = {}
  BY <1>2, <1>3, <1>5, OwnerCases
<1>10. \A i, j \in Items : i # j => Range(refs[i].blocks) \cap Range(refs[j].blocks) = {}
  BY <1>2, <1>3, <1>6, OwnerCases
<1>11. /\ \A i \in Items : Range(refs[i].blocks) \cap pool.free = {}
       /\ \A i \in Items : Range(refs[i].blocks) \cap main.list = {}
       /\ pool.free \cap main.list = {}
  BY <1>2, <1>3, <1>5, OwnerCases, ConstantProperties
<1>12. /\ \A t \in Threads : Range(th[t].blocks) \subseteq Blocks
       /\ \A i \in Items : Range(refs[i].blocks) \subseteq Blocks
  BY <1>1, ThreadFacts, RefFacts
<1> QED
  BY <1>7, <1>8, <1>9, <1>10, <1>11, <1>12

LEMMA WrittenItems ==
  ASSUME IInv, NEW i \in Range(arc.order)
  PROVE  i \in Items /\ i < main.itemIndex /\ i # main.itemIndex
<1>1. arc.order \in Seq(Items) /\ main.itemIndex \in Nat
  BY StoreFacts, MainFacts DEF IInv
<1>2. PICK k \in 1..Len(arc.order) : i = arc.order[k]
  BY <1>1 DEF Range
<1>3. i \in Items /\ i < main.itemIndex
  BY <1>1, <1>2 DEF IInv, ItemsInOrder
<1> QED
  BY <1>1, <1>3

(* No write went unnoticed in this step.                                   *)
LEMMA DataStaysWhole ==
  ASSUME IInv, arc'.lost = arc.lost, Range(arc.order) \subseteq Range(arc'.order),
         \A i \in Items : refs[i].defined => refs'[i].defined,
         \A i \in Range(arc.order) : Written(i) => Written(i)',
         \A i \in Range(arc'.order) : i \notin Range(arc.order) => Written(i)'
  PROVE  DataIsWhole'
<1>1. arc.lost # None => arc.lost \in Range(arc.order) /\ refs[arc.lost].defined
  BY DEF IInv, DataIsWhole
<1>2. arc.lost = None => \A i \in Range(arc.order) : Written(i)
  BY DEF IInv, DataIsWhole
<1>3. arc.lost # None => arc'.lost \in Range(arc'.order) /\ refs'[arc'.lost].defined
  BY <1>1, WrittenItems
<1>4. arc.lost = None => \A i \in Range(arc'.order) : Written(i)'
  BY <1>2
<1> QED
  BY <1>3, <1>4 DEF DataIsWhole

LEMMA ThreadFrame ==
  ASSUME IInv, NEW t \in Threads, ThreadKeeps(t)
  PROVE  /\ TypeOK' /\ FrontIsNext' /\ WriterOwnsFile' /\ PhasesOfEnd'
         /\ ItemsHaveThreads' /\ MainFits' /\ FileIsGranted' /\ ItemsInOrder'
         /\ DataIsWhole'
<1> USE SamePlace
<1>1. TypeOK'
  BY DEF IInv, TypeOK, ThreadKeeps, Alone
<1>2. PhasesOfEnd'
  <2>1. main.next # "done"
    <3>1. SUFFICES ASSUME main.next = "done" PROVE FALSE
      OBVIOUS
    <3>2. main.joining = NumThreads + 1
      BY <3>1 DEF IInv, PhasesOfEnd, InFinalPhase
    <3>3. t < main.joining
      BY <3>2, ConstantProperties DEF Threads
    <3> QED
      BY <3>3 DEF IInv, Lifecycle, ThreadKeeps
  <2> QED
    BY <2>1 DEF IInv, PhasesOfEnd
<1>3. ItemsHaveThreads'
  <2>1. /\ \A u \in Threads : ~th'[u].isFree => th'[u].item \in Items
        /\ \A u, v \in Threads : ~th'[u].isFree /\ Running(v, th[u].item)' => u = v
    BY DEF IInv, ItemsHaveThreads
  <2>2. ASSUME ~InFinalPhase
        PROVE  /\ main'.itemIndex <= EndItem'
               /\ \A u \in Threads : ~th'[u].isFree =>
                    /\ th'[u].item \in FirstItem'..(EndItem' - 1) /\ Kind[th'[u].item] = "new"
                    /\ ~refs'[th'[u].item].skip /\ ~refs'[th'[u].item].defined
    BY <2>2 DEF IInv, ItemsHaveThreads
  <2>3. ASSUME ~InFinalPhase, NEW i \in FirstItem..(EndItem - 1), Kind[i] = "new"
        PROVE  refs[i].skip \/ refs[i].defined \/ \E u \in Threads : Running(u, i)'
    BY <2>3 DEF IInv, ItemsHaveThreads, Running
  <2>4. ASSUME ~InFinalPhase, NEW i \in Items
        PROVE  /\ refs[i].skip \/ refs[i].defined => Kind[i] = "new" /\ i < EndItem
               /\ refs[i].skip => MaySkip /\ ~refs[i].defined
    BY <2>4 DEF IInv, ItemsHaveThreads
  <2> QED
    BY <2>1, <2>2, <2>3, <2>4 DEF ItemsHaveThreads, Running
<1>4. MainFits'
  <2>1. main.pc = "await" => main.threadIndices[1] \in Threads
    <3>1. main.threadIndices \in Seq(Threads)
      BY MainFacts DEF IInv
    <3> QED
      BY <3>1 DEF IInv, MainFits
  <2>2. arc'.pos = arc.pos
    BY DEF ThreadKeeps
  <2> QED
    BY <2>1, <2>2 DEF IInv, MainFits
<1>5. FileIsGranted'
  <2>1. arc'.pos = arc.pos
    BY DEF ThreadKeeps
  <2>2. \A u \in Threads : th'[u].realEvent \/ th'[u].realMode => th'[u].unlockSent
    <3>1. \A u \in Threads : th[u].realEvent \/ th[u].realMode => th[u].unlockSent
      BY DEF IInv, FileIsGranted
    <3> QED
      BY <3>1 DEF ThreadKeeps, Alone
  <2> QED
    BY <2>1, <2>2 DEF IInv, FileIsGranted
<1>6. ItemsInOrder'
  BY DEF IInv, ItemsInOrder, ThreadKeeps, Alone
<1>7. DataIsWhole'
  <2>1. SUFFICES ASSUME NEW i \in Range(arc.order), Written(i) PROVE Written(i)'
    BY DataStaysWhole DEF ThreadKeeps, Alone
  <2>2. i \in Items /\ i < main.itemIndex
    BY <2>1, WrittenItems
  <2>3. arc'.data[i] = arc.data[i]
    <3>1. SUFFICES ASSUME i = th[t].item, th[t].realMode, ~th[t].isFree PROVE FALSE
      BY <2>2 DEF ThreadKeeps
    <3>2. i = main.itemIndex
      BY <3>1, AtFileItem
    <3> QED
      BY <2>2, <3>2, MainFacts DEF IInv
  <2> QED
    BY <2>1, <2>3 DEF Written, ThreadKeeps
<1>8. WriterOwnsFile'
  <2>1. ItemsHaveThreads' /\ FileIsGranted' => WriterOwnsFile'
    BY OneWriter, PTL
  <2> QED
    BY <1>3, <1>5, <2>1
<1>9. FrontIsNext'
  <2>1. main.threadIndices \in Seq(Threads)
    BY MainFacts DEF IInv
  <2>2. \A k \in 1..Len(main.threadIndices) : main.threadIndices[k] \in Threads
    BY <2>1
  <2>3. ASSUME ~InFinalPhase'
        PROVE  /\ \A j, k \in 1..Len(main.threadIndices) :
                    j < k => th'[main.threadIndices[j]].item < th'[main.threadIndices[k]].item
               /\ \A u \in Threads : (u \in Range(main.threadIndices)) = ~th'[u].isFree
    BY <2>2, <2>3 DEF IInv, FrontIsNext
  <2>4. ListFits'
    BY <2>3 DEF ListFits
  <2>5. TypeOK' /\ ListFits' /\ ItemsHaveThreads' /\ MainFits' => FrontIsNext'
    BY FrontFits, PTL
  <2> QED
    BY <1>1, <1>3, <1>4, <2>4, <2>5
<1> QED
  BY <1>1, <1>2, <1>3, <1>4, <1>5, <1>6, <1>7, <1>8, <1>9

LEMMA StreamsFrame ==
  ASSUME IInv, NEW t \in Threads, ThreadKeeps(t),
         ~th[t].isFree /\ th'[t].pc # "exited" => StreamFits(t)'
  PROVE  StreamsFit' /\ ItemsFit'
<1> USE SamePlace
<1>0. TypeOK /\ BlocksAreOwned
  BY DEF IInv, PoolIsBalanced
<1>1. ASSUME NEW u \in Threads, u # t
      PROVE  \A k \in 1..Len(th[u].blocks) : mem'[th[u].blocks[k]] = mem[th[u].blocks[k]]
  <2>1. th[u].blocks \in Seq(Blocks)
    BY <1>0, ThreadFacts
  <2>2. SUFFICES ASSUME NEW k \in 1..Len(th[u].blocks)
                 PROVE  mem'[th[u].blocks[k]] = mem[th[u].blocks[k]]
    OBVIOUS
  <2>3. th[u].blocks[k] \in Range(th[u].blocks) /\ th[u].blocks[k] \in Blocks
    BY <2>1, <2>2 DEF Range
  <2>4. th[u].blocks[k] \notin Range(th[t].blocks)
    BY <1>0, <1>1, <2>3, OwnBlocks
  <2> QED
    BY <2>3, <2>4 DEF ThreadKeeps
<1>2. ASSUME NEW i \in Items
      PROVE  \A k \in 1..Len(refs[i].blocks) : mem'[refs[i].blocks[k]] = mem[refs[i].blocks[k]]
  <2>1. refs[i].blocks \in Seq(Blocks)
    BY <1>0, RefFacts
  <2>2. SUFFICES ASSUME NEW k \in 1..Len(refs[i].blocks)
                 PROVE  mem'[refs[i].blocks[k]] = mem[refs[i].blocks[k]]
    OBVIOUS
  <2>3. refs[i].blocks[k] \in Range(refs[i].blocks) /\ refs[i].blocks[k] \in Blocks
    BY <2>1, <2>2 DEF Range
  <2>4. refs[i].blocks[k] \notin Range(th[t].blocks)
    BY <1>0, <2>3, OwnBlocks
  <2> QED
    BY <2>3, <2>4 DEF ThreadKeeps
<1>3. ASSUME NEW i \in Items, th[t].realMode, ~th[t].isFree, i = th[t].item
      PROVE  i = main.itemIndex /\ ~Finishing /\ arc.pos # None
  <2>1. i = main.itemIndex /\ arc.pos # None
    BY <1>3, AtFileItem
  <2>2. SUFFICES ASSUME Finishing PROVE FALSE
    BY <2>1
  <2>3. ~InFinalPhase
    BY <2>2 DEF Finishing, InFinalPhase
  <2>4. th[t].item \in FirstItem..(EndItem - 1)
    BY <1>3, <2>3 DEF IInv, ItemsHaveThreads
  <2>5. FirstItem = main.itemIndex + 1 /\ main.itemIndex \in Nat
    BY <1>0, <2>2, MainFacts DEF FirstItem
  <2> QED
    BY <1>3, <2>1, <2>4, <2>5
<1>4. ASSUME NEW u \in Threads, ~th[u].isFree, u # t PROVE arc'.data[th[u].item] = arc.data[th[u].item]
  <2>1. th[u].item \in Items
    BY <1>4 DEF IInv, ItemsHaveThreads
  <2>2. ~th[t].isFree => th[u].item # th[t].item
    BY <1>4 DEF IInv, ItemsHaveThreads, Running
  <2> QED
    BY <2>1, <2>2 DEF ThreadKeeps
<1>5. ASSUME NEW u \in Threads, Finishing, u = main.thread
      PROVE  u # t /\ th[u].item \in Items /\ arc'.data[th[u].item] = arc.data[th[u].item]
  <2>1. ~InFinalPhase
    BY <1>5 DEF Finishing, InFinalPhase
  <2>2. u # t
    BY <1>5, <2>1, FreeThreadsRest
  <2>3. th[u].item = main.itemIndex /\ arc.pos = main.itemIndex /\ main.itemIndex \in Items
    <3>1. main.itemIndex < main.mtItemIndex /\ main.itemIndex \in Nat
          /\ main.itemIndex >= 1 /\ main.mtItemIndex \in Nat /\ main.mtItemIndex <= N + 1
      BY <1>0, <1>5, MainFacts DEF IInv, MainFits
    <3> QED
      BY <1>5, <3>1, ConstantProperties DEF IInv, MainFits, Items
  <2> QED
    BY <1>3, <1>5, <2>2, <2>3 DEF ThreadKeeps
<1>6. ASSUME NEW u \in Threads, u # t, ~th[u].isFree \/ Drained(u), th[u].pc # "exited"
      PROVE  StreamFits(u)'
  <2>1. StreamFits(u)
    BY <1>6 DEF IInv, StreamsFit
  <2>2. th'[u] = th[u]
    BY <1>6
  <2>3. arc'.data[th[u].item] = arc.data[th[u].item]
    BY <1>4, <1>5, <1>6 DEF Drained, Finishing
  <2>4. th[u].total \in 0..MaxChunks /\ Len(th[u].blocks) \in Nat
    BY <1>0, ThreadFacts
  <2>5. th[u].total <= Len(th[u].blocks) =>
          \A k \in 1..th[u].total : mem'[th[u].blocks[k]] = mem[th[u].blocks[k]]
    BY <1>1, <1>6, <2>4, ConstantProperties
  <2>6. InMemory(u) => InMemory(u)'
    <3>1. SUFFICES ASSUME InMemory(u) PROVE InMemory(u)'
      OBVIOUS
    <3>2. HoldPass(th[u].blocks, th[u].item, th[u].pass, th[u].total) =>
            HoldPass(th[u].blocks, th[u].item, th[u].pass, th[u].total)'
      BY <2>2, <2>5, <3>1, SMTT(30) DEF InMemory, HoldPass
    <3> QED
      BY <2>2, <2>3, <3>1, <3>2 DEF InMemory
  <2>7. (InFile(u) => InFile(u)') /\ (Emptied(u) => Emptied(u)')
    BY <2>2, <2>3 DEF InFile, PassData, Emptied
  <2> QED
    BY <2>1, <2>2, <2>6, <2>7 DEF StreamFits
<1>7. StreamsFit'
  <2>1. ASSUME NEW u \in Threads, ~th[u].isFree \/ Drained(u), th'[u].pc # "exited"
        PROVE  StreamFits(u)'
    <3>1. CASE u # t
      BY <1>6, <2>1, <3>1
    <3>2. CASE u = t
      <4>1. ~Drained(t)
        BY <1>5 DEF Drained, Finishing
      <4> QED
        BY <2>1, <3>2, <4>1
    <3> QED
      BY <3>1, <3>2
  <2>2. ASSUME ~InFinalPhase, NEW u \in Threads, th[u].isFree, ~Drained(u)
        PROVE  th'[u].blocks = <<>>
    <3>1. u # t
      BY <2>2, FreeThreadsRest
    <3> QED
      BY <2>2, <3>1 DEF IInv, StreamsFit
  <2>3. main.pc = "drain" => main.thread \in Threads /\ th'[main.thread].result = "ok"
    BY <1>5 DEF IInv, StreamsFit, Finishing, MainFits
  <2>4. ASSUME Finishing, main.pc # "drain"
        PROVE  InFile(main.thread)' /\ th'[main.thread].pass # 0
    <3>1. main.thread \in Threads
      BY <2>4 DEF IInv, MainFits
    <3>2. th'[main.thread] = th[main.thread]
          /\ arc'.data[th[main.thread].item] = arc.data[th[main.thread].item]
      BY <1>5, <2>4, <3>1
    <3>3. InFile(main.thread) /\ th[main.thread].pass # 0
      BY <2>4 DEF IInv, StreamsFit
    <3>4. main' = main
      OBVIOUS
    <3> QED
      BY <3>2, <3>3, <3>4 DEF InFile, PassData
  <2> QED
    BY <2>1, <2>2, <2>3, <2>4 DEF StreamsFit
<1>8. ItemsFit'
  <2>1. \A i \in main.itemIndex..N : i \in Items /\ i >= main.itemIndex
    BY <1>0, MainFacts DEF Items
  <2>2. ASSUME ~InFinalPhase, NEW i \in main.itemIndex..N, refs[i].defined
        PROVE  /\ refs[i].packSize = refs[i].total
               /\ \E m \in 1..NumMethods : HoldPass(refs[i].blocks, i, m, refs[i].total)'
    <3>1. PICK m \in 1..NumMethods : HoldPass(refs[i].blocks, i, m, refs[i].total)
      BY <2>2 DEF IInv, ItemsFit
    <3>2. refs[i].total \in 0..MaxChunks /\ Len(refs[i].blocks) \in Nat
      BY <1>0, <2>1, <2>2, RefFacts
    <3>3. refs[i].total <= Len(refs[i].blocks) =>
            \A k \in 1..refs[i].total : mem'[refs[i].blocks[k]] = mem[refs[i].blocks[k]]
      BY <1>2, <2>1, <2>2, <3>2, ConstantProperties
    <3>4. HoldPass(refs[i].blocks, i, m, refs[i].total)'
      BY <3>1, <3>3 DEF HoldPass
    <3> QED
      BY <2>2, <3>4 DEF IInv, ItemsFit
  <2>3. ASSUME NEW i \in main.itemIndex..N
        PROVE  /\ arc'.packSize[i] = 0
               /\ i > main.itemIndex \/ (arc'.pos = None /\ ~InFinalPhase) => arc'.data[i] = <<>>
    <3>1. i \in Items /\ main.itemIndex \in Nat
      BY <1>0, <2>1, <2>3, MainFacts
    <3>2. arc'.packSize = arc.packSize /\ arc'.pos = arc.pos
      BY DEF ThreadKeeps
    <3>3. i > main.itemIndex \/ arc.pos = None => arc'.data[i] = arc.data[i]
      BY <1>3, <3>1 DEF ThreadKeeps
    <3> QED
      BY <2>3, <3>2, <3>3 DEF IInv, ItemsFit
  <2>4. \A i \in Items : ~refs[i].defined => refs[i].blocks = <<>>
    BY DEF IInv, ItemsFit
  <2> QED
    BY <2>2, <2>3, <2>4 DEF ItemsFit
<1> QED
  BY <1>7, <1>8

LEMMA ThreadInvariant ==
  ASSUME IInv, NEW t \in Threads, ThreadKeeps(t), Lifecycle(t)',
         ~th[t].isFree /\ th'[t].pc # "exited" => StreamFits(t)',
         BlocksAreOwned', SemaphoreCounts'
  PROVE  IInv'
<1> USE SamePlace
<1>1. \A u \in Threads : Lifecycle(u)'
  BY DEF IInv, Lifecycle
<1>2. PoolIsBalanced'
  <2>1. main.pc # "done"
    <3>1. SUFFICES ASSUME main.pc = "done" PROVE FALSE
      OBVIOUS
    <3>2. main.joining = NumThreads + 1
      BY <3>1 DEF IInv, PhasesOfEnd, InFinalPhase
    <3>3. t < main.joining
      BY <3>2, ConstantProperties DEF Threads
    <3> QED
      BY <3>3 DEF IInv, Lifecycle, ThreadKeeps
  <2> QED
    BY <2>1 DEF PoolIsBalanced
<1> QED
  BY <1>1, <1>2, ThreadFrame, StreamsFrame DEF IInv

(* Where the blocks are.                                                   *)
LEMMA OwnersHave ==
  /\ BlocksOf(<<0, 0>>) = pool.free /\ BlocksOf(<<1, 0>>) = main.list
  /\ \A t \in Threads : BlocksOf(<<2, t>>) = Range(th[t].blocks)
  /\ \A i \in Items : BlocksOf(<<3, i>>) = Range(refs[i].blocks)
  /\ BlocksOf(<<0, 0>>)' = pool'.free /\ BlocksOf(<<1, 0>>)' = main'.list
  /\ \A t \in Threads : BlocksOf(<<2, t>>)' = Range(th'[t].blocks)
  /\ \A i \in Items : BlocksOf(<<3, i>>)' = Range(refs'[i].blocks)
BY DEF BlocksOf

LEMMA SameOwners ==
  ASSUME BlocksAreOwned, pool'.free = pool.free, main'.list = main.list,
         \A t \in Threads : th'[t].blocks = th[t].blocks,
         \A i \in Items : refs'[i].blocks = refs[i].blocks
  PROVE  BlocksAreOwned'
<1>1. ASSUME NEW o \in Owners PROVE BlocksOf(o)' = BlocksOf(o)
  <2>1. \A t \in Threads : BlocksOf(<<2, t>>)' = BlocksOf(<<2, t>>)
    BY OwnersHave
  <2>2. \A i \in Items : BlocksOf(<<3, i>>)' = BlocksOf(<<3, i>>)
    BY OwnersHave
  <2>3. BlocksOf(<<0, 0>>)' = BlocksOf(<<0, 0>>) /\ BlocksOf(<<1, 0>>)' = BlocksOf(<<1, 0>>)
    BY OwnersHave
  <2> QED
    BY <2>1, <2>2, <2>3, OwnerCases
<1> QED
  BY <1>1 DEF BlocksAreOwned, IsInjective

LEMMA MoveBlocks ==
  ASSUME BlocksAreOwned, NEW x \in Owners, NEW y \in Owners, x # y,
         NEW B, B \subseteq BlocksOf(x),
         BlocksOf(x)' = BlocksOf(x) \ B, BlocksOf(y)' = BlocksOf(y) \cup B,
         \A o \in Owners : o # x /\ o # y => BlocksOf(o)' = BlocksOf(o),
         \A t \in Threads : IsInjective(th'[t].blocks),
         \A i \in Items : IsInjective(refs'[i].blocks)
  PROVE  BlocksAreOwned'
<1>1. /\ \A o, p \in Owners : o # p => BlocksOf(o) \cap BlocksOf(p) = {}
      /\ \A b \in Blocks : \E o \in Owners : b \in BlocksOf(o)
  BY DEF BlocksAreOwned
<1>2. ASSUME NEW o \in Owners, NEW p \in Owners, o # p
      PROVE  BlocksOf(o)' \cap BlocksOf(p)' = {}
  <2>1. \A q \in Owners : BlocksOf(q)' = IF q = x THEN BlocksOf(q) \ B
                                         ELSE IF q = y THEN BlocksOf(q) \cup B ELSE BlocksOf(q)
    OBVIOUS
  <2> QED
    BY <1>1, <1>2, <2>1
<1>3. ASSUME NEW b \in Blocks PROVE \E o \in Owners : b \in BlocksOf(o)'
  <2>1. PICK o \in Owners : b \in BlocksOf(o)
    BY <1>1
  <2> QED
    BY <2>1
<1> QED
  BY <1>2, <1>3 DEF BlocksAreOwned

LEMMA PromisedChange ==
  ASSUME NEW t \in Threads, \A u \in Threads : u # t => th'[u].pc = th[u].pc
  PROVE  /\ (th'[t].pc \in {"alloc", "release"} <=> th[t].pc \in {"alloc", "release"})
              => Promised' = Promised
         /\ th'[t].pc \in {"alloc", "release"} /\ th[t].pc \notin {"alloc", "release"}
              => Cardinality(Promised') = Cardinality(Promised) + 1
         /\ th'[t].pc \notin {"alloc", "release"} /\ th[t].pc \in {"alloc", "release"}
              => Cardinality(Promised') = Cardinality(Promised) - 1
<1>1. IsFiniteSet(Promised)
  <2>1. Promised \in SUBSET Threads
    BY DEF Promised
  <2> QED
    BY <2>1, ConstantProperties, FS_Subset
<1>2. ASSUME th'[t].pc \in {"alloc", "release"} <=> th[t].pc \in {"alloc", "release"}
      PROVE  Promised' = Promised
  BY <1>2 DEF Promised
<1>3. ASSUME th'[t].pc \in {"alloc", "release"}, th[t].pc \notin {"alloc", "release"}
      PROVE  Cardinality(Promised') = Cardinality(Promised) + 1
  <2>1. Promised' = Promised \cup {t} /\ t \notin Promised
    BY <1>3 DEF Promised
  <2> QED
    BY <1>1, <2>1, FS_AddElement
<1>4. ASSUME th'[t].pc \notin {"alloc", "release"}, th[t].pc \in {"alloc", "release"}
      PROVE  Cardinality(Promised') = Cardinality(Promised) - 1
  <2>1. Promised' = Promised \ {t} /\ t \in Promised
    BY <1>4 DEF Promised
  <2> QED
    BY <1>1, <2>1, FS_RemoveElement
<1> QED
  BY <1>2, <1>3, <1>4

LEMMA SamePool ==
  ASSUME IInv, NEW t \in Threads, Alone(t), pool' = pool, th'[t].blocks = th[t].blocks,
         th[t].pc \notin {"alloc", "release"}, th'[t].pc \notin {"alloc", "release"}
  PROVE  BlocksAreOwned' /\ SemaphoreCounts'
<1>1. main' = main /\ refs' = refs /\ \A u \in Threads : u # t => th'[u] = th[u]
  BY DEF Alone
<1>2. Promised' = Promised
  BY <1>1, PromisedChange
<1>3. BlocksAreOwned'
  <2>1. BlocksAreOwned
    BY DEF IInv, PoolIsBalanced
  <2> QED
    BY <1>1, <2>1, SameOwners
<1> QED
  BY <1>1, <1>2, <1>3 DEF IInv, PoolIsBalanced, SemaphoreCounts

(* A thread that goes on working keeps its place in the life of a thread.  *)
LEMMA StillAtWork ==
  ASSUME IInv, NEW t \in Threads, Alone(t),
         th[t].pc \notin {"wait", "exited"}, th'[t].pc \notin {"wait", "exited"},
         th'[t].compressEvent = th[t].compressEvent,
         th'[t].completedEvent = th[t].completedEvent,
         th'[t].stopEvent => th[t].stopEvent,
         th'[t].result # "ok" =>
           th[t].result # "ok" \/ th[t].stopEvent \/ EncoderFaults \/ FileFaults
  PROVE  Lifecycle(t)'
<1>1. Lifecycle(t) /\ ~th[t].isFree
  BY AtWork DEF IInv
<1>2. main' = main /\ InFinalPhase' = InFinalPhase /\ th'[t].isFree = th[t].isFree
      /\ th'[t].exitThread = th[t].exitThread
  BY DEF Alone, InFinalPhase
<1> QED
  BY <1>1, <1>2 DEF Lifecycle

(* A thread that leaves the pool, the memory and the file alone.           *)
LEMMA KeepsStoreFits ==
  ASSUME IInv, NEW t \in Threads, KeepsStore, Alone(t),
         th[t].pc # "exited", th[t].pc = "wait" => th[t].compressEvent,
         th'[t].realEvent \/ th'[t].realMode => th[t].realEvent \/ th[t].realMode
  PROVE  ThreadKeeps(t)
BY StoreFacts DEF IInv, KeepsStore, ThreadKeeps

LEMMA StreamFacts ==
  ASSUME IInv, NEW t \in Threads, th[t].pc \notin {"wait", "exited"}
  PROVE  /\ StreamFits(t) /\ ~th[t].isFree /\ th[t].item \in Items
         /\ th[t].pass \in 1..NumMethods /\ th[t].pass # 0
         /\ th[t].made \in Nat /\ th[t].total \in Nat /\ Len(th[t].blocks) \in Nat
         /\ th[t].blocks \in Seq(Blocks)
         /\ ~(th[t].compressEvent /\ ~th[t].exitThread)
<1>1. /\ StreamFits(t) /\ ~th[t].isFree /\ th[t].item \in Items
      /\ th[t].pass \in 1..NumMethods
  BY AtWork
<1>2. th[t].made \in 0..MaxChunks /\ th[t].total \in 0..MaxChunks /\ th[t].blocks \in Seq(Blocks)
  BY ThreadFacts DEF IInv
<1> QED
  BY <1>1, <1>2, ConstantProperties DEF StreamFits

LEMMA WakeKeeps ==
  ASSUME IInv, NEW t \in Threads, ThreadWake(t) PROVE IInv'
<1>1. /\ Alone(t) /\ KeepsResult(t) /\ KeepsStore
      /\ th[t].pc = "wait" /\ th[t].compressEvent
      /\ th'[t].pc = IF th[t].exitThread THEN "exited" ELSE "rewind"
      /\ ~th'[t].compressEvent /\ th'[t].pass = 1
      /\ th'[t].completedEvent = th[t].completedEvent /\ th'[t].stopEvent = th[t].stopEvent
      /\ th'[t].realEvent = th[t].realEvent /\ th'[t].realMode = th[t].realMode
      /\ th'[t].blocks = th[t].blocks /\ th'[t].total = th[t].total
      /\ th'[t].made = th[t].made
  BY WakeEffect
<1>2. ThreadKeeps(t)
  BY <1>1, KeepsStoreFits
<1>3. Lifecycle(t)'
  <2>1. Lifecycle(t)
    BY DEF IInv
  <2>2. main' = main /\ InFinalPhase' = InFinalPhase /\ th'[t].isFree = th[t].isFree
        /\ th'[t].exitThread = th[t].exitThread
    BY <1>1 DEF Alone, InFinalPhase
  <2> QED
    BY <1>1, <2>1, <2>2 DEF Lifecycle, KeepsResult
<1>4. ASSUME ~th[t].isFree, th'[t].pc # "exited" PROVE StreamFits(t)'
  <2>1. StreamFits(t) /\ ~th[t].exitThread /\ th'[t].pc = "rewind"
    BY <1>1, <1>4 DEF IInv, StreamsFit
  <2>2. ~th[t].realMode
    BY <1>1, <2>1 DEF StreamFits
  <2>3. InMemory(t)
    BY <2>1, <2>2 DEF StreamFits
  <2>4. InMemory(t)'
    BY <1>1, <2>1, <2>3 DEF InMemory, Alone, KeepsStore
  <2> QED
    BY <1>1, <2>1, <2>2, <2>4 DEF StreamFits
<1>5. BlocksAreOwned' /\ SemaphoreCounts'
  BY <1>1, SamePool DEF KeepsStore
<1> QED
  BY <1>2, <1>3, <1>4, <1>5, ThreadInvariant

LEMMA RewindKeeps ==
  ASSUME IInv, NEW t \in Threads, Rewind(t) PROVE IInv'
<1>1. /\ Alone(t) /\ KeepsEvents(t) /\ KeepsResult(t) /\ pool' = pool /\ mem' = mem
      /\ th[t].pc = "rewind" /\ th'[t].pc = "encode"
      /\ th'[t].blocks = th[t].blocks /\ th'[t].pass = th[t].pass /\ th'[t].made = 0
      /\ th'[t].total = IF th[t].realMode THEN th[t].total ELSE 0
      /\ ~th[t].realMode => arc' = arc
      /\ th[t].realMode => ChangesData(th[t].item) /\ arc'.data[th[t].item] = <<>>
  BY RewindEffect
<1>2. /\ StreamFits(t) /\ ~th[t].isFree /\ th[t].item \in Items
      /\ th[t].pass # 0 /\ Len(th[t].blocks) \in Nat
      /\ ~(th[t].compressEvent /\ ~th[t].exitThread)
  BY <1>1, StreamFacts
<1>3. ThreadKeeps(t)
  <2>1. pool' \in PoolType /\ mem' \in [Blocks -> Stored]
    BY <1>1, StoreFacts DEF IInv
  <2>2. /\ arc' \in ArcType /\ arc'.pos = arc.pos /\ arc'.order = arc.order
        /\ arc'.packSize = arc.packSize /\ arc'.lost = arc.lost
        /\ \A i \in Items : arc'.data[i] # arc.data[i] => i = th[t].item /\ th[t].realMode
    BY <1>1, StoreFacts DEF IInv, ChangesData
  <2> QED
    BY <1>1, <1>2, <2>1, <2>2 DEF ThreadKeeps, KeepsEvents
<1>4. Lifecycle(t)'
  BY <1>1, StillAtWork DEF KeepsEvents, KeepsResult
<1>5. StreamFits(t)'
  <2>1. th'[t].item = th[t].item /\ th'[t].realMode = th[t].realMode
        /\ th'[t].compressEvent = th[t].compressEvent /\ th'[t].exitThread = th[t].exitThread
    BY <1>1 DEF Alone, KeepsEvents
  <2>2. CASE ~th[t].realMode
    <3>1. InMemory(t)
      BY <1>2, <2>2 DEF StreamFits
    <3>2. InMemory(t)'
      BY <1>1, <1>2, <2>1, <2>2, <3>1 DEF InMemory, HoldPass
    <3> QED
      BY <1>1, <1>2, <2>1, <2>2, <3>2 DEF StreamFits
  <2>3. CASE th[t].realMode
    <3>1. Emptied(t)'
      BY <1>1, <1>2, <2>3 DEF StreamFits, Emptied
    <3>2. InFile(t)'
      BY <1>1, <2>1, <2>3 DEF InFile, PassData
    <3> QED
      BY <1>1, <1>2, <2>1, <2>3, <3>1, <3>2 DEF StreamFits
  <2> QED
    BY <2>2, <2>3
<1>6. BlocksAreOwned' /\ SemaphoreCounts'
  BY <1>1, SamePool
<1> QED
  BY <1>3, <1>4, <1>5, <1>6, ThreadInvariant

LEMMA FillKeeps ==
  ASSUME IInv, NEW t \in Threads, Fill(t) PROVE IInv'
<1> DEFINE k == th[t].made + 1
           b == th[t].blocks[k]
<1>1. /\ Alone(t) /\ KeepsEvents(t) /\ KeepsResult(t) /\ pool' = pool /\ arc' = arc
      /\ th[t].pc \in {"fill", "encode"} /\ th'[t].pc = "encode" /\ ~th[t].realMode
      /\ k \in 1..Len(th[t].blocks) /\ th[t].made < MaxChunks
      /\ th'[t].blocks = th[t].blocks /\ th'[t].pass = th[t].pass
      /\ th'[t].made = k /\ th'[t].total = k
      /\ mem' \in [Blocks -> Stored] /\ mem' = [mem EXCEPT ![b] = Chunk(t)]
  BY FillEffect
<1>2. /\ StreamFits(t) /\ ~th[t].isFree /\ th[t].item \in Items
      /\ th[t].pass # 0 /\ th[t].made \in Nat /\ Len(th[t].blocks) \in Nat
      /\ th[t].blocks \in Seq(Blocks) /\ ~(th[t].compressEvent /\ ~th[t].exitThread)
  BY <1>1, StreamFacts
<1>3. b \in Blocks /\ b \in Range(th[t].blocks)
  BY <1>1, <1>2 DEF Range
<1>4. mem \in [Blocks -> Stored]
  BY StoreFacts DEF IInv
<1>5. ThreadKeeps(t)
  <2>1. \A c \in Blocks : mem'[c] # mem[c] => c \in Range(th[t].blocks)
    BY <1>1, <1>3, <1>4
  <2> QED
    BY <1>1, <2>1, StoreFacts DEF IInv, ThreadKeeps, KeepsEvents
<1>6. Lifecycle(t)'
  BY <1>1, StillAtWork DEF KeepsEvents, KeepsResult
<1>7. StreamFits(t)'
  <2>1. th'[t].item = th[t].item /\ th'[t].realMode = th[t].realMode
        /\ th'[t].compressEvent = th[t].compressEvent /\ th'[t].exitThread = th[t].exitThread
    BY <1>1 DEF Alone, KeepsEvents
  <2>2. InMemory(t) /\ th[t].made = th[t].total
        /\ HoldPass(th[t].blocks, th[t].item, th[t].pass, th[t].made)
    BY <1>1, <1>2 DEF StreamFits, InMemory
  <2>3. \A j \in 1..k : mem'[th[t].blocks[j]] = <<th[t].item, th[t].pass, j>>
    <3>1. SUFFICES ASSUME NEW j \in 1..k
                   PROVE  mem'[th[t].blocks[j]] = <<th[t].item, th[t].pass, j>>
      OBVIOUS
    <3>2. CASE j = k
      BY <1>1, <1>3, <1>4, <3>2 DEF Chunk
    <3>3. CASE j # k
      <4>1. j \in 1..th[t].made /\ j \in 1..Len(th[t].blocks)
        BY <1>1, <1>2, <3>1, <3>3
      <4>2. th[t].blocks[j] # b /\ th[t].blocks[j] \in Blocks
        <5>1. IsInjective(th[t].blocks)
          BY DEF IInv, PoolIsBalanced, BlocksAreOwned
        <5> QED
          BY <1>1, <1>2, <3>3, <4>1, <5>1 DEF IsInjective
      <4>3. mem[th[t].blocks[j]] = <<th[t].item, th[t].pass, j>>
        BY <2>2, <4>1 DEF HoldPass
      <4> QED
        BY <1>1, <1>3, <1>4, <4>2, <4>3
    <3> QED
      BY <3>2, <3>3
  <2>4. InMemory(t)'
    BY <1>1, <1>2, <2>1, <2>2, <2>3 DEF InMemory, HoldPass
  <2> QED
    BY <1>1, <1>2, <2>1, <2>4 DEF StreamFits
<1>8. BlocksAreOwned' /\ SemaphoreCounts'
  BY <1>1, SamePool
<1> QED
  BY <1>5, <1>6, <1>7, <1>8, ThreadInvariant

LEMMA NeedBlockKeeps ==
  ASSUME IInv, NEW t \in Threads, NeedBlock(t) PROVE IInv'
<1>1. /\ Alone(t) /\ KeepsEvents(t) /\ KeepsResult(t) /\ KeepsData(t) /\ KeepsStore
      /\ th[t].pc = "encode" /\ th'[t].pc = "block" /\ ~th[t].realMode
      /\ th[t].made < MaxChunks /\ th[t].made = Len(th[t].blocks)
  BY NeedBlockEffect
<1>2. /\ StreamFits(t) /\ ~th[t].isFree /\ th[t].pass # 0
      /\ ~(th[t].compressEvent /\ ~th[t].exitThread)
  BY <1>1, StreamFacts
<1>3. ThreadKeeps(t)
  BY <1>1, KeepsStoreFits DEF KeepsEvents
<1>4. Lifecycle(t)'
  BY <1>1, StillAtWork DEF KeepsEvents, KeepsResult
<1>5. StreamFits(t)'
  <2>1. InMemory(t)
    BY <1>1, <1>2 DEF StreamFits
  <2>2. InMemory(t)'
    BY <1>1, <2>1 DEF InMemory, HoldPass, Alone, KeepsData, KeepsStore
  <2> QED
    BY <1>1, <1>2, <2>2 DEF StreamFits, Alone, KeepsEvents, KeepsData
<1>6. BlocksAreOwned' /\ SemaphoreCounts'
  BY <1>1, SamePool DEF KeepsStore, KeepsData
<1> QED
  BY <1>3, <1>4, <1>5, <1>6, ThreadInvariant

LEMMA WaitBlockKeeps ==
  ASSUME IInv, NEW t \in Threads, WaitBlock(t) PROVE IInv'
<1>1. /\ Alone(t) /\ KeepsData(t) /\ mem' = mem /\ arc' = arc /\ th[t].pc = "block"
      /\ th'[t].compressEvent = th[t].compressEvent
      /\ th'[t].completedEvent = th[t].completedEvent
  BY WaitBlockEffect
<1>2. /\ StreamFits(t) /\ ~th[t].isFree /\ th[t].pass # 0
      /\ ~(th[t].compressEvent /\ ~th[t].exitThread)
  BY <1>1, StreamFacts
<1>3. /\ ~th[t].realMode /\ th[t].made < MaxChunks /\ th[t].made = Len(th[t].blocks)
      /\ InMemory(t)
  BY <1>1, <1>2 DEF StreamFits
<1>4. th'[t].pc # "rewind" => InMemory(t)'
  BY <1>1, <1>3 DEF InMemory, HoldPass, Alone, KeepsData
<1>5. /\ arc' \in ArcType /\ mem' \in [Blocks -> Stored] /\ pool \in PoolType
      /\ mem \in [Blocks -> Stored]
  BY <1>1, StoreFacts DEF IInv
<1>6. CASE /\ th[t].stopEvent /\ ~th'[t].stopEvent /\ th'[t].realEvent = th[t].realEvent
           /\ th'[t].realMode = th[t].realMode
           /\ th'[t].result = "abort" /\ th'[t].pc = "signal" /\ pool' = pool
  <2>1. ThreadKeeps(t)
    BY <1>1, <1>5, <1>6 DEF ThreadKeeps
  <2>2. Lifecycle(t)'
    BY <1>1, <1>6, StillAtWork
  <2>3. StreamFits(t)'
    BY <1>1, <1>2, <1>3, <1>4, <1>6 DEF StreamFits, Alone, KeepsData
  <2>4. BlocksAreOwned' /\ SemaphoreCounts'
    BY <1>1, <1>6, SamePool DEF KeepsData
  <2> QED
    BY <2>1, <2>2, <2>3, <2>4, ThreadInvariant
<1>7. CASE /\ th[t].realEvent /\ ~th'[t].realEvent /\ th'[t].realMode
           /\ th'[t].stopEvent = th[t].stopEvent
           /\ KeepsResult(t) /\ th'[t].pc = "flush" /\ pool' = pool
  <2>1. ThreadKeeps(t)
    BY <1>1, <1>5, <1>7 DEF ThreadKeeps
  <2>2. Lifecycle(t)'
    BY <1>1, <1>7, StillAtWork DEF KeepsResult
  <2>3. StreamFits(t)'
    BY <1>1, <1>2, <1>3, <1>4, <1>7 DEF StreamFits, Alone, KeepsData
  <2>4. BlocksAreOwned' /\ SemaphoreCounts'
    BY <1>1, <1>7, SamePool DEF KeepsData
  <2> QED
    BY <2>1, <2>2, <2>3, <2>4, ThreadInvariant
<1>8. CASE /\ pool.sem > 0 /\ pool' = [pool EXCEPT !.sem = @ - 1]
           /\ KeepsEvents(t) /\ KeepsResult(t) /\ th'[t].pc = "alloc"
  <2>1. pool' \in PoolType /\ pool'.free = pool.free /\ pool'.sem = pool.sem - 1 /\ pool.sem \in Nat
    BY <1>5, <1>8, ConstantProperties DEF PoolType
  <2>2. ThreadKeeps(t)
    BY <1>1, <1>5, <1>8, <2>1 DEF ThreadKeeps, KeepsEvents
  <2>3. Lifecycle(t)'
    BY <1>1, <1>8, StillAtWork DEF KeepsEvents, KeepsResult
  <2>4. StreamFits(t)'
    BY <1>1, <1>2, <1>3, <1>4, <1>8 DEF StreamFits, Alone, KeepsData, KeepsEvents
  <2>5. /\ main' = main /\ refs' = refs /\ (\A u \in Threads : u # t => th'[u] = th[u])
        /\ \A u \in Threads : th'[u].blocks = th[u].blocks
    BY <1>1 DEF Alone, KeepsData
  <2>6. BlocksAreOwned'
    <3>1. BlocksAreOwned
      BY DEF IInv, PoolIsBalanced
    <3> QED
      BY <2>1, <2>5, <3>1, SameOwners
  <2>7. SemaphoreCounts'
    <3>1. Cardinality(Promised') = Cardinality(Promised) + 1
      BY <1>1, <1>8, <2>5, PromisedChange
    <3>2. SemaphoreCounts
      BY DEF IInv, PoolIsBalanced
    <3> QED
      BY <2>1, <2>5, <3>1, <3>2, BlockPromised DEF SemaphoreCounts
  <2> QED
    BY <2>2, <2>3, <2>4, <2>6, <2>7, ThreadInvariant
<1> QED
  BY <1>6, <1>7, <1>8, WaitBlockEffect

(* Adding a block at the end of a sequence, and taking the last one away.  *)
LEMMA AddBlock ==
  ASSUME NEW s \in Seq(Blocks), NEW b \in Blocks
  PROVE  /\ Append(s, b) \in Seq(Blocks) /\ Range(Append(s, b)) = Range(s) \cup {b}
         /\ Len(Append(s, b)) = Len(s) + 1
         /\ \A k \in 1..Len(s) : Append(s, b)[k] = s[k]
         /\ IsInjective(s) /\ b \notin Range(s) => IsInjective(Append(s, b))
<1> DEFINE r == Append(s, b)
<1>1. /\ r \in Seq(Blocks) /\ Len(r) = Len(s) + 1 /\ Len(s) \in Nat /\ r[Len(s) + 1] = b
      /\ \A k \in 1..Len(s) : r[k] = s[k]
  BY AppendProperties
<1>2. DOMAIN r = 1..(Len(s) + 1) /\ DOMAIN s = 1..Len(s)
  BY <1>1
<1>3. 1..(Len(s) + 1) = (1..Len(s)) \cup {Len(s) + 1}
  BY <1>1
<1> HIDE DEF r
<1>4. Range(r) = Range(s) \cup {b}
  BY <1>1, <1>2, <1>3 DEF Range
<1>5. ASSUME IsInjective(s), b \notin Range(s) PROVE IsInjective(r)
  BY <1>1, <1>2, <1>3, <1>5 DEF IsInjective, Range
<1> QED
  BY <1>1, <1>4, <1>5 DEF r

LEMMA TakeLast ==
  ASSUME NEW s \in Seq(Blocks), s # <<>>, IsInjective(s)
  PROVE  /\ Last(s) \in Range(s) /\ Range(Front(s)) = Range(s) \ {Last(s)}
         /\ IsInjective(Front(s))
<1>1. /\ Len(s) \in Nat \ {0} /\ DOMAIN s = 1..Len(s) /\ Last(s) = s[Len(s)]
      /\ Front(s) = SubSeq(s, 1, Len(s) - 1)
  BY DEF Last, Front
<1>2. /\ DOMAIN Front(s) = 1..(Len(s) - 1)
      /\ \A k \in 1..(Len(s) - 1) : Front(s)[k] = s[k]
  BY <1>1
<1>3. 1..Len(s) = (1..(Len(s) - 1)) \cup {Len(s)} /\ Len(s) \notin 1..(Len(s) - 1)
  BY <1>1
<1>4. \A k \in 1..(Len(s) - 1) : s[k] # s[Len(s)]
  BY <1>1, <1>3 DEF IsInjective
<1>5. Range(Front(s)) = Range(s) \ {Last(s)} /\ Last(s) \in Range(s)
  BY <1>1, <1>2, <1>3, <1>4 DEF Range
<1>6. IsInjective(Front(s))
  BY <1>1, <1>2, <1>3 DEF IsInjective
<1> QED
  BY <1>5, <1>6

LEMMA AllocateKeeps ==
  ASSUME IInv, NEW t \in Threads, AllocateBlock(t) PROVE IInv'
<1>1. /\ Alone(t) /\ KeepsEvents(t) /\ KeepsResult(t) /\ mem' = mem /\ arc' = arc
      /\ th[t].pc = "alloc" /\ th'[t].pc = "fill"
      /\ th'[t].total = th[t].total /\ th'[t].pass = th[t].pass /\ th'[t].made = th[t].made
  BY AllocateEffect
<1>2. PICK b \in pool.free : /\ pool' = [pool EXCEPT !.free = @ \ {b}]
                             /\ th'[t].blocks = Append(th[t].blocks, b)
  BY AllocateEffect
<1>3. /\ StreamFits(t) /\ ~th[t].isFree /\ th[t].pass # 0
      /\ th[t].made \in Nat /\ th[t].total \in Nat /\ Len(th[t].blocks) \in Nat
      /\ th[t].blocks \in Seq(Blocks) /\ ~(th[t].compressEvent /\ ~th[t].exitThread)
  BY <1>1, StreamFacts
<1>4. /\ ~th[t].realMode /\ th[t].made < MaxChunks /\ th[t].made = Len(th[t].blocks)
      /\ InMemory(t)
  BY <1>1, <1>3 DEF StreamFits
<1>5. /\ pool \in PoolType /\ pool.free \subseteq Blocks /\ b \in Blocks
      /\ arc' \in ArcType /\ mem' \in [Blocks -> Stored]
  BY <1>1, StoreFacts DEF IInv
<1>6. pool' \in PoolType /\ pool'.free = pool.free \ {b} /\ pool'.sem = pool.sem
  BY <1>2, <1>5 DEF PoolType
<1>7. ThreadKeeps(t)
  BY <1>1, <1>5, <1>6 DEF ThreadKeeps, KeepsEvents
<1>8. Lifecycle(t)'
  BY <1>1, StillAtWork DEF KeepsEvents, KeepsResult
<1>9. /\ Range(th'[t].blocks) = Range(th[t].blocks) \cup {b}
      /\ Len(th'[t].blocks) = Len(th[t].blocks) + 1
      /\ \A k \in 1..Len(th[t].blocks) : th'[t].blocks[k] = th[t].blocks[k]
      /\ IsInjective(th[t].blocks) /\ b \notin Range(th[t].blocks) => IsInjective(th'[t].blocks)
  BY <1>2, <1>3, <1>5, AddBlock
<1>10. StreamFits(t)'
  <2>1. InMemory(t)'
    <3>1. /\ th[t].made = th[t].total /\ th[t].total = Len(th[t].blocks)
          /\ HoldPass(th[t].blocks, th[t].item, th[t].pass, th[t].total)
          /\ arc.data[th[t].item] = <<>> /\ th'[t].item = th[t].item
      BY <1>1, <1>4 DEF InMemory, Alone
    <3>2. \A k \in 1..th[t].total : mem'[th'[t].blocks[k]] = <<th[t].item, th[t].pass, k>>
      BY <1>1, <1>9, <3>1 DEF HoldPass
    <3>3. th'[t].total <= Len(th'[t].blocks)
      BY <1>1, <1>3, <1>9, <3>1
    <3>4. HoldPass(th[t].blocks, th[t].item, th[t].pass, th[t].total)'
      BY <1>1, <3>1, <3>2, <3>3 DEF HoldPass
    <3> QED
      BY <1>1, <3>1, <3>3, <3>4 DEF InMemory
  <2> QED
    BY <1>1, <1>3, <1>4, <1>9, <2>1 DEF StreamFits, Alone, KeepsEvents
<1>11. /\ main' = main /\ refs' = refs /\ \A u \in Threads : u # t => th'[u] = th[u]
  BY <1>1 DEF Alone
<1>12. BlocksAreOwned /\ SemaphoreCounts
  BY DEF IInv, PoolIsBalanced
<1>13. BlocksAreOwned'
  <2>1. <<0, 0>> \in Owners /\ <<2, t>> \in Owners /\ <<0, 0>> # <<2, t>>
    BY OwnerCases
  <2>2. b \notin Range(th[t].blocks)
    BY <1>12, OwnBlocks DEF IInv
  <2>3. /\ BlocksOf(<<0, 0>>) = pool.free /\ BlocksOf(<<0, 0>>)' = pool'.free
        /\ BlocksOf(<<2, t>>) = Range(th[t].blocks) /\ BlocksOf(<<2, t>>)' = Range(th'[t].blocks)
    BY OwnersHave
  <2>4. \A o \in Owners : o # <<0, 0>> /\ o # <<2, t>> => BlocksOf(o)' = BlocksOf(o)
    <3>1. \A u \in Threads : <<2, u>> # <<2, t>> => BlocksOf(<<2, u>>)' = BlocksOf(<<2, u>>)
      BY <1>11, OwnersHave
    <3>2. \A i \in Items : BlocksOf(<<3, i>>)' = BlocksOf(<<3, i>>)
      BY <1>11, OwnersHave
    <3>3. BlocksOf(<<1, 0>>)' = BlocksOf(<<1, 0>>)
      BY <1>11, OwnersHave
    <3> QED
      BY <3>1, <3>2, <3>3, OwnerCases
  <2>5. /\ \A u \in Threads : IsInjective(th'[u].blocks)
        /\ \A i \in Items : IsInjective(refs'[i].blocks)
    BY <1>9, <1>11, <1>12, <2>2 DEF BlocksAreOwned
  <2>6. /\ {b} \subseteq BlocksOf(<<0, 0>>)
        /\ BlocksOf(<<0, 0>>)' = BlocksOf(<<0, 0>>) \ {b}
        /\ BlocksOf(<<2, t>>)' = BlocksOf(<<2, t>>) \cup {b}
    BY <1>6, <1>9, <2>3
  <2> QED
    BY <1>12, <2>1, <2>4, <2>5, <2>6, MoveBlocks
<1>14. SemaphoreCounts'
  <2>1. Cardinality(Promised') = Cardinality(Promised) - 1
    BY <1>1, <1>11, PromisedChange
  <2>2. Cardinality(pool'.free) = Cardinality(pool.free) - 1
    <3>1. IsFiniteSet(pool.free) /\ b \in pool.free
      BY BlockPromised
    <3> QED
      BY <1>6, <3>1, FS_RemoveElement
  <2> QED
    BY <1>6, <1>11, <1>12, <2>1, <2>2, BlockPromised DEF SemaphoreCounts
<1> QED
  BY <1>7, <1>8, <1>10, <1>13, <1>14, ThreadInvariant

LEMMA FlushKeeps ==
  ASSUME IInv, NEW t \in Threads, Flush(t) PROVE IInv'
<1> DEFINE i == th[t].item
<1>1. /\ Alone(t) /\ KeepsEvents(t) /\ KeepsData(t) /\ pool' = pool /\ mem' = mem
      /\ th[t].pc = "flush" /\ th[t].realMode /\ ChangesData(i)
      /\ \/ /\ th'[t].pc = "free" /\ KeepsResult(t)
            /\ arc'.data[i] = arc.data[i] \o Contents(th[t].blocks, th[t].total)
         \/ FileFaults /\ th'[t].result = "fail" /\ th'[t].pc = "signal"
  BY FlushEffect
<1>2. /\ StreamFits(t) /\ ~th[t].isFree /\ i \in Items /\ th[t].pass # 0
      /\ th[t].made \in Nat /\ th[t].total \in Nat /\ th[t].blocks \in Seq(Blocks)
      /\ ~(th[t].compressEvent /\ ~th[t].exitThread)
  BY <1>1, StreamFacts
<1>3. th[t].made < MaxChunks /\ InMemory(t)
  BY <1>1, <1>2 DEF StreamFits
<1>4. ThreadKeeps(t)
  BY <1>1, <1>2, StoreFacts DEF IInv, ThreadKeeps, KeepsEvents, ChangesData
<1>5. Lifecycle(t)'
  BY <1>1, StillAtWork DEF KeepsEvents, KeepsResult
<1>6. BlocksAreOwned' /\ SemaphoreCounts'
  BY <1>1, SamePool DEF KeepsData
<1>7. /\ th'[t].realMode = th[t].realMode /\ th'[t].item = i
      /\ th'[t].compressEvent = th[t].compressEvent /\ th'[t].exitThread = th[t].exitThread
      /\ th'[t].made = th[t].made /\ th'[t].pass = th[t].pass
  BY <1>1 DEF Alone, KeepsEvents, KeepsData
<1>8. CASE /\ th'[t].pc = "free"
           /\ arc'.data[i] = arc.data[i] \o Contents(th[t].blocks, th[t].total)
  <2> DEFINE c == Contents(th[t].blocks, th[t].total)
  <2>1. /\ arc.data[i] = <<>> /\ th[t].made = th[t].total
        /\ th[t].total <= Len(th[t].blocks)
        /\ HoldPass(th[t].blocks, i, th[t].pass, th[t].total)
    BY <1>1, <1>3 DEF InMemory
  <2>2. c \in Seq(Stored)
    BY <1>2, <2>1, ContentsType DEF IInv
  <2>3. <<>> \o c = c
    BY <2>2
  <2>4. c = PassData(i, th[t].pass, th[t].made)
    BY <2>1 DEF Contents, PassData, HoldPass
  <2>5. InFile(t)'
    BY <1>7, <1>8, <2>1, <2>3, <2>4 DEF InFile, PassData
  <2>6. StreamFits(t)'
    BY <1>1, <1>2, <1>3, <1>7, <1>8, <2>5 DEF StreamFits
  <2> QED
    BY <1>4, <1>5, <1>6, <2>6, ThreadInvariant
<1>9. CASE FileFaults /\ th'[t].result = "fail" /\ th'[t].pc = "signal"
  <2>1. StreamFits(t)'
    BY <1>1, <1>2, <1>3, <1>7, <1>9 DEF StreamFits
  <2> QED
    BY <1>4, <1>5, <1>6, <2>1, ThreadInvariant
<1> QED
  BY <1>1, <1>8, <1>9

LEMMA FreeBlockKeeps ==
  ASSUME IInv, NEW t \in Threads, FreeBlock(t) PROVE IInv'
<1>1. /\ Alone(t) /\ KeepsEvents(t) /\ KeepsResult(t) /\ arc' = arc
      /\ th[t].pc = "free" /\ th'[t].pc = "release"
      /\ th'[t].total = th[t].total /\ th'[t].pass = th[t].pass /\ th'[t].made = th[t].made
      /\ th[t].blocks # <<>> /\ Last(th[t].blocks) \in Blocks
      /\ th'[t].blocks = Front(th[t].blocks)
      /\ pool' = [pool EXCEPT !.free = @ \cup {Last(th[t].blocks)}]
      /\ mem' \in [Blocks -> Stored]
      /\ mem' = [mem EXCEPT ![Last(th[t].blocks)] = Erased]
  BY FreeBlockEffect
<1>2. /\ StreamFits(t) /\ ~th[t].isFree /\ th[t].pass # 0 /\ th[t].blocks \in Seq(Blocks)
      /\ ~(th[t].compressEvent /\ ~th[t].exitThread)
  BY <1>1, StreamFacts
<1>3. BlocksAreOwned /\ SemaphoreCounts /\ IsInjective(th[t].blocks)
  BY DEF IInv, PoolIsBalanced, BlocksAreOwned
<1> DEFINE b == Last(th[t].blocks)
<1>4. /\ b \in Range(th[t].blocks) /\ Range(th'[t].blocks) = Range(th[t].blocks) \ {b}
      /\ IsInjective(th'[t].blocks) /\ b \in Blocks
  BY <1>1, <1>2, <1>3, TakeLast
<1>5. pool \in PoolType /\ mem \in [Blocks -> Stored] /\ arc' \in ArcType
  BY <1>1, StoreFacts DEF IInv
<1>6. pool' \in PoolType /\ pool'.free = pool.free \cup {b} /\ pool'.sem = pool.sem
  BY <1>1, <1>5 DEF PoolType
<1>7. \A c \in Blocks : mem'[c] # mem[c] => c \in Range(th[t].blocks)
  BY <1>1, <1>4, <1>5
<1> HIDE DEF b
<1>8. ThreadKeeps(t)
  BY <1>1, <1>5, <1>6, <1>7 DEF ThreadKeeps, KeepsEvents
<1>9. Lifecycle(t)'
  BY <1>1, StillAtWork DEF KeepsEvents, KeepsResult
<1>10. StreamFits(t)'
  <2>1. th[t].made < MaxChunks /\ th[t].realMode /\ InFile(t)
    BY <1>1, <1>2 DEF StreamFits
  <2>2. InFile(t)'
    BY <1>1, <2>1 DEF InFile, PassData, Alone
  <2> QED
    BY <1>1, <1>2, <2>1, <2>2 DEF StreamFits, Alone, KeepsEvents
<1>11. /\ main' = main /\ refs' = refs /\ \A u \in Threads : u # t => th'[u] = th[u]
  BY <1>1 DEF Alone
<1>12. b \notin pool.free
  BY <1>3, <1>4, OwnBlocks DEF IInv
<1>13. BlocksAreOwned'
  <2>1. <<2, t>> \in Owners /\ <<0, 0>> \in Owners /\ <<2, t>> # <<0, 0>>
    BY OwnerCases
  <2>2. /\ BlocksOf(<<0, 0>>) = pool.free /\ BlocksOf(<<0, 0>>)' = pool'.free
        /\ BlocksOf(<<2, t>>) = Range(th[t].blocks) /\ BlocksOf(<<2, t>>)' = Range(th'[t].blocks)
    BY OwnersHave
  <2>3. \A o \in Owners : o # <<0, 0>> /\ o # <<2, t>> => BlocksOf(o)' = BlocksOf(o)
    <3>1. \A u \in Threads : <<2, u>> # <<2, t>> => BlocksOf(<<2, u>>)' = BlocksOf(<<2, u>>)
      BY <1>11, OwnersHave
    <3>2. \A i \in Items : BlocksOf(<<3, i>>)' = BlocksOf(<<3, i>>)
      BY <1>11, OwnersHave
    <3>3. BlocksOf(<<1, 0>>)' = BlocksOf(<<1, 0>>)
      BY <1>11, OwnersHave
    <3> QED
      BY <3>1, <3>2, <3>3, OwnerCases
  <2>4. /\ \A u \in Threads : IsInjective(th'[u].blocks)
        /\ \A i \in Items : IsInjective(refs'[i].blocks)
    BY <1>3, <1>4, <1>11 DEF BlocksAreOwned
  <2>5. /\ {b} \subseteq BlocksOf(<<2, t>>)
        /\ BlocksOf(<<2, t>>)' = BlocksOf(<<2, t>>) \ {b}
        /\ BlocksOf(<<0, 0>>)' = BlocksOf(<<0, 0>>) \cup {b}
    BY <1>4, <1>6, <2>2
  <2> QED
    BY <1>3, <2>1, <2>3, <2>4, <2>5, MoveBlocks
<1>14. SemaphoreCounts'
  <2>1. Cardinality(Promised') = Cardinality(Promised) + 1
    BY <1>1, <1>11, PromisedChange
  <2>2. Cardinality(pool'.free) = Cardinality(pool.free) + 1
    <3>1. IsFiniteSet(pool.free)
      BY BlockPromised
    <3> QED
      BY <1>6, <1>12, <3>1, FS_AddElement
  <2> QED
    BY <1>3, <1>6, <1>11, <2>1, <2>2, BlockPromised DEF SemaphoreCounts
<1> QED
  BY <1>8, <1>9, <1>10, <1>13, <1>14, ThreadInvariant

LEMMA ReleaseKeeps ==
  ASSUME IInv, NEW t \in Threads, ReleaseBlock(t) PROVE IInv'
<1>1. /\ Alone(t) /\ KeepsEvents(t) /\ KeepsResult(t) /\ KeepsData(t) /\ mem' = mem /\ arc' = arc
      /\ th[t].pc = "release" /\ th'[t].pc = "free"
      /\ pool.sem + 1 <= NumBlocks /\ pool' = [pool EXCEPT !.sem = pool.sem + 1]
  BY ReleaseEffect
<1>2. /\ StreamFits(t) /\ ~th[t].isFree /\ th[t].pass # 0
      /\ ~(th[t].compressEvent /\ ~th[t].exitThread)
  BY <1>1, StreamFacts
<1>3. pool \in PoolType /\ mem' \in [Blocks -> Stored] /\ arc' \in ArcType
  BY <1>1, StoreFacts DEF IInv
<1>4. /\ pool' \in PoolType /\ pool'.free = pool.free /\ pool'.sem = pool.sem + 1
      /\ pool.sem \in Nat
  BY <1>1, <1>3, ConstantProperties DEF PoolType
<1>5. ThreadKeeps(t)
  BY <1>1, <1>3, <1>4 DEF ThreadKeeps, KeepsEvents
<1>6. Lifecycle(t)'
  BY <1>1, StillAtWork DEF KeepsEvents, KeepsResult
<1>7. StreamFits(t)'
  <2>1. th[t].made < MaxChunks /\ th[t].realMode /\ InFile(t)
    BY <1>1, <1>2 DEF StreamFits
  <2>2. InFile(t)'
    BY <1>1, <2>1 DEF InFile, PassData, Alone, KeepsData
  <2> QED
    BY <1>1, <1>2, <2>1, <2>2 DEF StreamFits, Alone, KeepsEvents, KeepsData
<1>8. /\ main' = main /\ refs' = refs /\ (\A u \in Threads : u # t => th'[u] = th[u])
      /\ \A u \in Threads : th'[u].blocks = th[u].blocks
  BY <1>1 DEF Alone, KeepsData
<1>9. BlocksAreOwned /\ SemaphoreCounts
  BY DEF IInv, PoolIsBalanced
<1>10. BlocksAreOwned'
  BY <1>4, <1>8, <1>9, SameOwners
<1>11. SemaphoreCounts'
  <2>1. Cardinality(Promised') = Cardinality(Promised) - 1
    BY <1>1, <1>8, PromisedChange
  <2> QED
    BY <1>4, <1>8, <1>9, <2>1, BlockPromised DEF SemaphoreCounts
<1> QED
  BY <1>5, <1>6, <1>7, <1>10, <1>11, ThreadInvariant

LEMMA FreeDoneKeeps ==
  ASSUME IInv, NEW t \in Threads, FreeDone(t) PROVE IInv'
<1>1. /\ Alone(t) /\ KeepsEvents(t) /\ KeepsResult(t) /\ KeepsStore
      /\ th[t].pc = "free" /\ th'[t].pc = "direct" /\ th[t].blocks = <<>>
      /\ th'[t].total = 0
      /\ th'[t].blocks = <<>> /\ th'[t].pass = th[t].pass /\ th'[t].made = th[t].made
  BY FreeDoneEffect
<1>2. /\ StreamFits(t) /\ ~th[t].isFree /\ th[t].pass # 0
      /\ ~(th[t].compressEvent /\ ~th[t].exitThread)
  BY <1>1, StreamFacts
<1>3. ThreadKeeps(t)
  BY <1>1, KeepsStoreFits DEF KeepsEvents
<1>4. Lifecycle(t)'
  BY <1>1, StillAtWork DEF KeepsEvents, KeepsResult
<1>5. StreamFits(t)'
  <2>1. th[t].made < MaxChunks /\ th[t].realMode /\ InFile(t)
    BY <1>1, <1>2 DEF StreamFits
  <2>2. InFile(t)' /\ Emptied(t)'
    BY <1>1, <2>1 DEF InFile, PassData, Alone, KeepsStore, Emptied
  <2> QED
    BY <1>1, <1>2, <2>1, <2>2 DEF StreamFits, Alone, KeepsEvents
<1>6. BlocksAreOwned' /\ SemaphoreCounts'
  BY <1>1, SamePool DEF KeepsStore
<1> QED
  BY <1>3, <1>4, <1>5, <1>6, ThreadInvariant

LEMMA DirectKeeps ==
  ASSUME IInv, NEW t \in Threads, DirectWrite(t) PROVE IInv'
<1> DEFINE i == th[t].item
<1>1. /\ Alone(t) /\ KeepsEvents(t) /\ pool' = pool /\ mem' = mem
      /\ th[t].pc \in {"direct", "encode"} /\ th[t].realMode
      /\ th'[t].blocks = th[t].blocks /\ th'[t].pass = th[t].pass
      /\ th'[t].total = th[t].total /\ th[t].made \in Nat
      /\ \/ /\ th'[t].pc = "encode" /\ KeepsResult(t) /\ th'[t].made = th[t].made + 1
            /\ ChangesData(i) /\ arc'.data[i] = Append(arc.data[i], Chunk(t))
         \/ /\ FileFaults /\ th'[t].result = "fail" /\ th'[t].pc = "signal"
            /\ th'[t].made = th[t].made /\ arc' = arc
  BY DirectEffect
<1>2. /\ StreamFits(t) /\ ~th[t].isFree /\ i \in Items /\ th[t].pass # 0
      /\ ~(th[t].compressEvent /\ ~th[t].exitThread)
  BY <1>1, StreamFacts
<1>3. Emptied(t) /\ InFile(t)
  BY <1>1, <1>2 DEF StreamFits
<1>4. ThreadKeeps(t)
  BY <1>1, <1>2, StoreFacts DEF IInv, ThreadKeeps, KeepsEvents, ChangesData
<1>5. BlocksAreOwned' /\ SemaphoreCounts'
  BY <1>1, SamePool
<1>6. Lifecycle(t)'
  BY <1>1, StillAtWork DEF KeepsEvents, KeepsResult
<1>7. /\ th'[t].realMode = th[t].realMode /\ th'[t].item = i
      /\ th'[t].compressEvent = th[t].compressEvent /\ th'[t].exitThread = th[t].exitThread
  BY <1>1 DEF Alone, KeepsEvents
<1>8. StreamFits(t)'
  <2>1. CASE /\ th'[t].pc = "encode" /\ th'[t].made = th[t].made + 1
             /\ arc'.data[i] = Append(arc.data[i], Chunk(t))
    <3> DEFINE m == th[t].pass
               n == th[t].made
    <3>1. Append(PassData(i, m, n), <<i, m, n + 1>>) = PassData(i, m, n + 1)
      BY <1>1 DEF PassData
    <3>2. InFile(t)'
      BY <1>1, <1>3, <1>7, <2>1, <3>1 DEF InFile, Chunk, PassData
    <3>3. Emptied(t)'
      BY <1>1, <1>3 DEF Emptied
    <3> QED
      BY <1>1, <1>2, <1>7, <2>1, <3>2, <3>3 DEF StreamFits
  <2>2. CASE th'[t].result = "fail" /\ th'[t].pc = "signal"
    BY <1>1, <1>2, <1>7, <2>2 DEF StreamFits
  <2> QED
    BY <1>1, <2>1, <2>2
<1> QED
  BY <1>4, <1>5, <1>6, <1>8, ThreadInvariant

(* The stream of a thread that goes from one place of Compress to another. *)
LEMMA SameStream ==
  ASSUME NEW t \in Threads, KeepsStore, Alone(t), th'[t].realMode = th[t].realMode,
         th'[t].blocks = th[t].blocks, th'[t].total = th[t].total, th'[t].made = th[t].made
  PROVE  /\ Emptied(t) => Emptied(t)'
         /\ th'[t].pass = th[t].pass /\ InFile(t) => InFile(t)'
         /\ InMemory(t) /\ (th'[t].pc = "rewind" \/ (th'[t].pass = th[t].pass /\ th[t].pc # "rewind"))
              => InMemory(t)'
<1>1. /\ th'[t].item = th[t].item /\ arc' = arc /\ mem' = mem
  BY DEF Alone, KeepsStore
<1>2. Emptied(t) => Emptied(t)'
  BY DEF Emptied
<1>3. th'[t].pass = th[t].pass /\ InFile(t) => InFile(t)'
  BY <1>1 DEF InFile, PassData
<1>4. ASSUME InMemory(t), th'[t].pc = "rewind" \/ (th'[t].pass = th[t].pass /\ th[t].pc # "rewind")
      PROVE  InMemory(t)'
  BY <1>1, <1>4 DEF InMemory, HoldPass
<1> QED
  BY <1>2, <1>3, <1>4

LEMMA EndPassKeeps ==
  ASSUME IInv, NEW t \in Threads, EndPass(t) PROVE IInv'
<1>1. /\ Alone(t) /\ KeepsEvents(t) /\ KeepsStore /\ th[t].pc = "encode"
      /\ th'[t].blocks = th[t].blocks /\ th'[t].total = th[t].total
      /\ th'[t].made = th[t].made
      /\ \/ /\ th'[t].pass = th[t].pass + 1 /\ th'[t].pass # 0 /\ th'[t].pc = "rewind"
            /\ KeepsResult(t)
         \/ th'[t].pass = th[t].pass /\ th'[t].pc = "report" /\ KeepsResult(t)
         \/ /\ EncoderFaults /\ th'[t].pass = th[t].pass /\ th'[t].result = "fail"
            /\ th'[t].pc = "signal"
  BY EndPassEffect
<1>2. /\ StreamFits(t) /\ ~th[t].isFree /\ th[t].pass # 0
      /\ ~(th[t].compressEvent /\ ~th[t].exitThread)
  BY <1>1, StreamFacts
<1>3. ThreadKeeps(t)
  BY <1>1, KeepsStoreFits DEF KeepsEvents
<1>4. Lifecycle(t)'
  BY <1>1, StillAtWork DEF KeepsEvents, KeepsResult
<1>5. BlocksAreOwned' /\ SemaphoreCounts'
  BY <1>1, SamePool DEF KeepsStore
<1>6. /\ th'[t].realMode = th[t].realMode
      /\ th'[t].compressEvent = th[t].compressEvent /\ th'[t].exitThread = th[t].exitThread
  BY <1>1 DEF Alone, KeepsEvents
<1>7. /\ ~th[t].realMode => InMemory(t)
      /\ th[t].realMode => Emptied(t) /\ InFile(t)
  BY <1>1, <1>2 DEF StreamFits
<1>8. /\ ~th[t].realMode => InMemory(t)'
      /\ th[t].realMode => Emptied(t)'
      /\ th[t].realMode /\ th'[t].pass = th[t].pass => InFile(t)'
  BY <1>1, <1>6, <1>7, SameStream
<1>9. StreamFits(t)'
  BY <1>1, <1>2, <1>6, <1>8 DEF StreamFits
<1> QED
  BY <1>3, <1>4, <1>5, <1>9, ThreadInvariant

LEMMA ReportKeeps ==
  ASSUME IInv, NEW t \in Threads, Report(t) PROVE IInv'
<1>1. /\ Alone(t) /\ KeepsEvents(t) /\ KeepsData(t) /\ KeepsStore
      /\ th[t].pc = "report" /\ th'[t].pc = "signal"
      /\ th'[t].result = "ok" \/ (EncoderFaults /\ th'[t].result = "abort")
  BY ReportEffect
<1>2. /\ StreamFits(t) /\ ~th[t].isFree /\ th[t].pass # 0
      /\ ~(th[t].compressEvent /\ ~th[t].exitThread)
  BY <1>1, StreamFacts
<1>3. ThreadKeeps(t)
  BY <1>1, KeepsStoreFits DEF KeepsEvents
<1>4. Lifecycle(t)'
  BY <1>1, StillAtWork DEF KeepsEvents
<1>5. BlocksAreOwned' /\ SemaphoreCounts'
  BY <1>1, SamePool DEF KeepsStore, KeepsData
<1>6. /\ th'[t].realMode = th[t].realMode /\ th'[t].pass = th[t].pass
      /\ th'[t].compressEvent = th[t].compressEvent /\ th'[t].exitThread = th[t].exitThread
  BY <1>1 DEF Alone, KeepsEvents, KeepsData
<1>7. /\ ~th[t].realMode => InMemory(t)
      /\ th[t].realMode => Emptied(t) /\ InFile(t)
  BY <1>1, <1>2 DEF StreamFits
<1>8. /\ ~th[t].realMode => InMemory(t)'
      /\ th[t].realMode => Emptied(t)' /\ InFile(t)'
  BY <1>1, <1>6, <1>7, SameStream DEF KeepsData
<1>9. StreamFits(t)'
  BY <1>1, <1>2, <1>6, <1>8 DEF StreamFits
<1> QED
  BY <1>3, <1>4, <1>5, <1>9, ThreadInvariant

LEMMA SignalKeeps ==
  ASSUME IInv, NEW t \in Threads, SignalCompletion(t) PROVE IInv'
<1>1. /\ Alone(t) /\ KeepsResult(t) /\ KeepsData(t) /\ KeepsStore
      /\ th[t].pc = "signal" /\ th'[t].pc = "wait" /\ th'[t].completedEvent
      /\ th'[t].compressEvent = th[t].compressEvent /\ th'[t].stopEvent = th[t].stopEvent
      /\ th'[t].realEvent = th[t].realEvent /\ th'[t].realMode = th[t].realMode
  BY SignalEffect
<1>2. /\ StreamFits(t) /\ ~th[t].isFree /\ th[t].pass # 0
      /\ ~(th[t].compressEvent /\ ~th[t].exitThread)
  BY <1>1, StreamFacts
<1>3. ThreadKeeps(t)
  BY <1>1, KeepsStoreFits
<1>4. /\ th'[t].exitThread = th[t].exitThread /\ th'[t].isFree = th[t].isFree
      /\ th'[t].pass = th[t].pass /\ th'[t].result = th[t].result
      /\ main' = main /\ InFinalPhase' = InFinalPhase
  BY <1>1 DEF Alone, KeepsData, KeepsResult, InFinalPhase
<1>5. Lifecycle(t)'
  <2>1. Lifecycle(t)
    BY DEF IInv
  <2>2. ~InFinalPhase => ~th[t].compressEvent
    BY <1>2, <2>1 DEF Lifecycle
  <2> QED
    BY <1>1, <1>2, <1>4, <2>1, <2>2 DEF Lifecycle
<1>6. BlocksAreOwned' /\ SemaphoreCounts'
  BY <1>1, SamePool DEF KeepsStore, KeepsData
<1>7. /\ ~th[t].realMode => InMemory(t)
      /\ th[t].realMode /\ th[t].result = "ok" => Emptied(t) /\ InFile(t)
  BY <1>1, <1>2 DEF StreamFits
<1>8. /\ ~th[t].realMode => InMemory(t)'
      /\ th[t].realMode /\ th[t].result = "ok" => Emptied(t)' /\ InFile(t)'
  BY <1>1, <1>4, <1>7, SameStream DEF KeepsData
<1>9. StreamFits(t)'
  BY <1>1, <1>2, <1>4, <1>8 DEF StreamFits
<1> QED
  BY <1>3, <1>5, <1>6, <1>9, ThreadInvariant

LEMMA ThreadStepKeeps ==
  ASSUME IInv, NEW t \in Threads, ThreadStep(t) PROVE IInv'
BY WakeKeeps, RewindKeeps, FillKeeps, NeedBlockKeeps, WaitBlockKeeps, AllocateKeeps,
   FlushKeeps, FreeBlockKeeps, ReleaseKeeps, FreeDoneKeeps, DirectKeeps, EndPassKeeps,
   ReportKeeps, SignalKeeps DEF ThreadStep

-----------------------------------------------------------------------------
(* The calling thread.                                                     *)
LEMMA PartsFit ==
  (/\ TypeOK /\ ListFits /\ PoolIsBalanced
   /\ (\A t \in Threads : Lifecycle(t)) /\ PhasesOfEnd
   /\ ItemsHaveThreads /\ MainFits /\ FileIsGranted /\ ItemsInOrder
   /\ StreamsFit /\ ItemsFit /\ DataIsWhole)
  => IInv
<1> SUFFICES ASSUME TypeOK, ListFits, PoolIsBalanced, \A t \in Threads : Lifecycle(t),
                    PhasesOfEnd, ItemsHaveThreads, MainFits, FileIsGranted, ItemsInOrder,
                    StreamsFit, ItemsFit, DataIsWhole
             PROVE  IInv
  OBVIOUS
<1>1. WriterOwnsFile
  BY OneWriter
<1>2. FrontIsNext
  BY FrontFits
<1> QED
  BY <1>1, <1>2 DEF IInv

LEMMA PartsFitNext ==
  ASSUME TypeOK', ListFits', PoolIsBalanced', \A t \in Threads : Lifecycle(t)', PhasesOfEnd',
         ItemsHaveThreads', MainFits', FileIsGranted', ItemsInOrder', StreamsFit', ItemsFit',
         DataIsWhole'
  PROVE  IInv'
<1>1. (/\ TypeOK /\ ListFits /\ PoolIsBalanced
       /\ (\A t \in Threads : Lifecycle(t)) /\ PhasesOfEnd
       /\ ItemsHaveThreads /\ MainFits /\ FileIsGranted /\ ItemsInOrder
       /\ StreamsFit /\ ItemsFit /\ DataIsWhole)'
      => IInv'
  BY PartsFit, PTL
<1> QED
  BY <1>1

LEMMA Parts ==
  ASSUME IInv
  PROVE  /\ TypeOK /\ ListFits /\ PoolIsBalanced /\ BlocksAreOwned /\ SemaphoreCounts
         /\ (\A t \in Threads : Lifecycle(t)) /\ PhasesOfEnd
         /\ ItemsHaveThreads /\ MainFits /\ FileIsGranted /\ ItemsInOrder
         /\ StreamsFit /\ ItemsFit /\ DataIsWhole
<1>1. ListFits
  BY DEF IInv, FrontIsNext, ListFits
<1> QED
  BY <1>1 DEF IInv, PoolIsBalanced

(* Everything the streams hold, when neither they nor the data change.     *)
LEMMA SameStreams ==
  ASSUME th' = th, mem' = mem, arc'.data = arc.data
  PROVE  \A t \in Threads : /\ StreamFits(t)' <=> StreamFits(t)
                            /\ InFile(t)' <=> InFile(t)
BY DEF StreamFits, InFile, InMemory, Emptied, HoldPass, PassData

LEMMA SameItems ==
  ASSUME IInv, refs' = refs, mem' = mem, arc'.data = arc.data, arc'.packSize = arc.packSize,
         main'.itemIndex \in Nat, main'.itemIndex >= main.itemIndex,
         InFinalPhase => InFinalPhase',
         main'.itemIndex = main.itemIndex /\ arc'.pos = None /\ ~InFinalPhase' => arc.pos = None
  PROVE  ItemsFit'
<1>1. /\ main.itemIndex \in Nat /\ N \in Nat
      /\ \A i \in main'.itemIndex..N : i \in main.itemIndex..N /\ i >= main'.itemIndex
  BY MainFacts, Parts, ConstantProperties
<1>2. ASSUME ~InFinalPhase', NEW i \in main'.itemIndex..N, refs[i].defined
      PROVE  /\ refs[i].packSize = refs[i].total
             /\ \E m \in 1..NumMethods : HoldPass(refs[i].blocks, i, m, refs[i].total)'
  <2>1. /\ refs[i].packSize = refs[i].total
        /\ \E m \in 1..NumMethods : HoldPass(refs[i].blocks, i, m, refs[i].total)
    BY <1>1, <1>2, Parts DEF ItemsFit
  <2>2. PICK m \in 1..NumMethods : HoldPass(refs[i].blocks, i, m, refs[i].total)
    BY <2>1
  <2>3. HoldPass(refs[i].blocks, i, m, refs[i].total)'
    BY <2>2 DEF HoldPass
  <2> QED
    BY <2>1, <2>3
<1>3. ASSUME NEW i \in main'.itemIndex..N
      PROVE  /\ arc'.packSize[i] = 0
             /\ i > main'.itemIndex \/ (arc'.pos = None /\ ~InFinalPhase') => arc'.data[i] = <<>>
  <2>1. /\ arc.packSize[i] = 0
        /\ i > main.itemIndex \/ (arc.pos = None /\ ~InFinalPhase) => arc.data[i] = <<>>
    BY <1>1, Parts DEF ItemsFit
  <2> QED
    BY <1>1, <2>1
<1>4. \A i \in Items : ~refs[i].defined => refs[i].blocks = <<>>
  BY Parts DEF ItemsFit
<1> QED
  BY <1>2, <1>3, <1>4 DEF ItemsFit

LEMMA SameLives ==
  ASSUME IInv, th' = th, main'.joining = main.joining, InFinalPhase => InFinalPhase'
  PROVE  \A t \in Threads : Lifecycle(t)'
BY DEF IInv, Lifecycle

LEMMA PoolStays ==
  ASSUME IInv, pool' = pool, main'.list = main.list,
         main.pc # "release", main'.pc \notin {"release", "done"},
         \A t \in Threads : th'[t].blocks = th[t].blocks /\ th'[t].pc = th[t].pc,
         \A i \in Items : refs'[i].blocks = refs[i].blocks
  PROVE  PoolIsBalanced'
<1>1. BlocksAreOwned'
  BY Parts, SameOwners
<1>2. Promised' = Promised
  BY DEF Promised
<1>3. SemaphoreCounts'
  BY <1>2, Parts DEF SemaphoreCounts
<1> QED
  BY <1>1, <1>3 DEF PoolIsBalanced

(* Update2 ends early or goes through its last block: what remains to be   *)
(* joined and freed is as it was.                                          *)
GoesToEnd ==
  /\ main' \in MainType /\ main'.pc = "stop" /\ main'.itemIndex = main.itemIndex
  /\ main'.lastReal = main.lastReal /\ main'.list = main.list
  /\ main'.joining = main.joining /\ main'.next = main.next
  /\ refs' = refs /\ pool' = pool /\ mem' = mem
  /\ th' \in [Threads -> ThreadType]
  /\ \A t \in Threads :
       /\ th'[t].pc = th[t].pc /\ th'[t].compressEvent = th[t].compressEvent
       /\ th'[t].exitThread = th[t].exitThread /\ th'[t].realEvent = th[t].realEvent
       /\ th'[t].realMode = th[t].realMode /\ th'[t].unlockSent = th[t].unlockSent
       /\ th'[t].item = th[t].item /\ th'[t].blocks = th[t].blocks
       /\ th'[t].total = th[t].total /\ th'[t].pass = th[t].pass
       /\ th'[t].made = th[t].made /\ th'[t].region = th[t].region
       /\ th'[t].result = th[t].result
       /\ th'[t].isFree => th[t].isFree \/ (th[t].pc = "wait" /\ ~th[t].compressEvent)
       /\ th[t].isFree => th'[t].isFree
  /\ arc' \in ArcType /\ arc'.order = arc.order /\ arc'.packSize = arc.packSize
  /\ arc'.lost = arc.lost
  /\ \/ arc'.pos = arc.pos
     \/ arc'.pos = None /\ \A t \in Threads : ~Granted(t)
  /\ \A i \in Items : arc'.data[i] # arc.data[i] => i = main.itemIndex /\ Finishing

LEMMA FinishedItem ==
  ASSUME IInv, Finishing
  PROVE  /\ ~InFinalPhase /\ FirstItem = main.itemIndex + 1
         /\ main.itemIndex \in Items /\ main.itemIndex \in Nat
         /\ \A t \in Threads : ~th[t].isFree => th[t].item \in Items /\ th[t].item > main.itemIndex
         /\ \A t \in Threads : ~Granted(t)
<1>1. ~InFinalPhase /\ FirstItem = main.itemIndex + 1
  BY DEF Finishing, InFinalPhase, FirstItem
<1>2. main.itemIndex \in Items /\ main.itemIndex \in Nat
  <2>1. main.itemIndex < main.mtItemIndex /\ main.itemIndex \in Nat
        /\ main.itemIndex >= 1 /\ main.mtItemIndex \in Nat /\ main.mtItemIndex <= N + 1
    BY MainFacts DEF IInv, MainFits
  <2> QED
    BY <2>1, ConstantProperties DEF Items
<1>3. ASSUME NEW t \in Threads, ~th[t].isFree
      PROVE  th[t].item \in Items /\ th[t].item > main.itemIndex
  <2>1. th[t].item \in Items /\ th[t].item \in FirstItem..(EndItem - 1)
    BY <1>1, <1>3 DEF IInv, ItemsHaveThreads
  <2> QED
    BY <1>1, <1>2, <2>1
<1>4. ASSUME NEW t \in Threads, Granted(t) PROVE FALSE
  <2>1. th[t].item = main.itemIndex /\ ~th[t].isFree
    BY <1>4 DEF IInv, FileIsGranted, Granted
  <2> QED
    BY <1>2, <1>3, <2>1
<1> QED
  BY <1>1, <1>2, <1>3, <1>4

LEMMA EndKeeps ==
  ASSUME IInv, ~InFinalPhase, main.pc \notin {"free", "release"}, GoesToEnd PROVE IInv'
<1>1. InFinalPhase' /\ ~Finishing' /\ ~AtStream' /\ main'.pc = "stop"
  BY DEF GoesToEnd, InFinalPhase, Finishing, AtStream
<1>2. main.list = {} /\ main.joining = 1 /\ main.next # "done"
  BY Parts DEF PhasesOfEnd, InFinalPhase
<1>3. TypeOK'
  BY Parts DEF GoesToEnd, TypeOK
<1>4. ListFits'
  BY <1>1 DEF ListFits
<1>5. PoolIsBalanced'
  BY <1>1, PoolStays DEF GoesToEnd
<1>6. \A t \in Threads : Lifecycle(t)'
  <2>1. \A t \in Threads : ~(t < main'.joining)
    BY <1>2 DEF GoesToEnd, Threads
  <2> QED
    BY <1>1, <2>1, Parts DEF Lifecycle, GoesToEnd
<1>7. PhasesOfEnd'
  BY <1>1, <1>2 DEF PhasesOfEnd, GoesToEnd
<1>8. ItemsHaveThreads'
  BY <1>1, Parts DEF ItemsHaveThreads, GoesToEnd, Running
<1>9. MainFits'
  BY <1>1 DEF MainFits
<1>10. FileIsGranted'
  <2>1. \A t \in Threads : Granted(t)' => Granted(t)
    BY DEF GoesToEnd, Granted
  <2> QED
    BY <1>1, <2>1, Parts DEF FileIsGranted, GoesToEnd
<1>11. ItemsInOrder'
  BY Parts DEF ItemsInOrder, GoesToEnd
<1>12. StreamsFit'
  <2>1. ASSUME NEW t \in Threads, ~th'[t].isFree, th'[t].pc # "exited" PROVE StreamFits(t)'
    <3>1. ~th[t].isFree /\ th[t].pc # "exited"
      BY <2>1 DEF GoesToEnd
    <3>2. StreamFits(t) /\ th[t].item \in Items
      BY <3>1, Parts DEF StreamsFit, ItemsHaveThreads
    <3>3. arc'.data[th[t].item] = arc.data[th[t].item]
      <4>1. Finishing => th[t].item # main.itemIndex
        BY <3>1, FinishedItem
      <4> QED
        BY <3>2, <4>1 DEF GoesToEnd
    <3>4. mem' = mem
      BY DEF GoesToEnd
    <3>5. /\ th'[t].pc = th[t].pc /\ th'[t].item = th[t].item
          /\ th'[t].blocks = th[t].blocks /\ th'[t].total = th[t].total
          /\ th'[t].pass = th[t].pass /\ th'[t].made = th[t].made
      BY DEF GoesToEnd
    <3>6. InMemory(t) => InMemory(t)'
      BY <3>3, <3>4, <3>5 DEF InMemory, HoldPass
    <3>7. InFile(t) => InFile(t)'
      BY <3>3, <3>5 DEF InFile, PassData
    <3>8. Emptied(t) => Emptied(t)'
      BY <3>5 DEF Emptied
    <3> QED
      BY <3>2, <3>6, <3>7, <3>8 DEF GoesToEnd, StreamFits
  <2>2. \A t \in Threads : ~Drained(t)'
    BY <1>1 DEF Drained
  <2> QED
    BY <1>1, <2>1, <2>2 DEF StreamsFit
<1>13. ItemsFit'
  <2>1. /\ main'.itemIndex = main.itemIndex /\ main.itemIndex \in Nat
        /\ \A i \in main.itemIndex..N : i \in Items
    BY MainFacts, Parts DEF GoesToEnd, Items
  <2>2. ASSUME NEW i \in main.itemIndex..N
        PROVE  arc'.packSize[i] = 0 /\ (i > main.itemIndex => arc'.data[i] = <<>>)
    BY <2>1, <2>2, Parts DEF ItemsFit, GoesToEnd
  <2>3. \A i \in Items : ~refs'[i].defined => refs'[i].blocks = <<>>
    BY Parts DEF ItemsFit, GoesToEnd
  <2> QED
    BY <1>1, <2>1, <2>2, <2>3 DEF ItemsFit
<1>14. DataIsWhole'
  <2>1. SUFFICES ASSUME NEW i \in Range(arc.order), Written(i) PROVE Written(i)'
    BY DataStaysWhole DEF GoesToEnd
  <2>2. i \in Items /\ i < main.itemIndex
    BY <2>1, WrittenItems
  <2>3. arc'.data[i] = arc.data[i] /\ arc'.packSize = arc.packSize
    BY <2>2, MainFacts, Parts DEF GoesToEnd
  <2> QED
    BY <2>1, <2>3 DEF Written
<1> QED
  BY <1>3, <1>4, <1>5, <1>6, <1>7, <1>8, <1>9, <1>10, <1>11, <1>12, <1>13, <1>14, PartsFitNext

LEMMA StopFields ==
  ASSUME TypeOK, NEW r \in Results, Stop(r)
  PROVE  /\ main' \in MainType /\ main'.pc = "stop" /\ main'.itemIndex = main.itemIndex
         /\ main'.lastReal = main.lastReal /\ main'.list = main.list
         /\ main'.joining = main.joining /\ main'.next = main.next
<1>1. main \in MainType /\ main' = [main EXCEPT !.pc = "stop", !.result = r]
  BY DEF TypeOK, Stop
<1>2. "stop" \in MainPcs
  BY Names
<1> QED
  BY <1>1, <1>2 DEF MainType

LEMMA LeaveFile ==
  ASSUME TypeOK, arc' = [arc EXCEPT !.pos = None]
  PROVE  /\ arc' \in ArcType /\ arc'.pos = None /\ arc'.order = arc.order
         /\ arc'.packSize = arc.packSize /\ arc'.data = arc.data
         /\ arc'.lost = arc.lost
<1>1. arc \in ArcType /\ None \in 0..N
  BY ConstantProperties DEF TypeOK, None
<1> QED
  BY <1>1 DEF ArcType

LEMMA StopKeeps ==
  ASSUME IInv, ~InFinalPhase, main.pc \notin {"free", "release"}, NEW r \in Results, Stop(r),
         th' = th, refs' = refs, pool' = pool, mem' = mem,
         arc' = arc \/ (arc' = [arc EXCEPT !.pos = None] /\ \A t \in Threads : ~Granted(t))
  PROVE  IInv'
<1>1. TypeOK
  BY Parts
<1>2. /\ main' \in MainType /\ main'.pc = "stop" /\ main'.itemIndex = main.itemIndex
      /\ main'.lastReal = main.lastReal /\ main'.list = main.list
      /\ main'.joining = main.joining /\ main'.next = main.next
  BY <1>1, StopFields
<1>3. /\ arc' \in ArcType /\ arc'.order = arc.order /\ arc'.packSize = arc.packSize
      /\ arc'.data = arc.data /\ arc'.lost = arc.lost
      /\ arc'.pos = arc.pos \/ (arc'.pos = None /\ \A t \in Threads : ~Granted(t))
  BY <1>1, LeaveFile, StoreFacts
<1>4. th' \in [Threads -> ThreadType]
  BY <1>1 DEF TypeOK
<1>5. GoesToEnd
  BY <1>2, <1>3, <1>4 DEF GoesToEnd
<1> QED
  BY <1>5, EndKeeps

(* Where Update2 is with an item that no thread works at.                  *)
LEMMA AtItemBehind ==
  ASSUME IInv, AtItem
  PROVE  /\ main.pc = "top" /\ ~InFinalPhase /\ ~Finishing /\ ~AtStream
         /\ main.itemIndex \in Items /\ main.itemIndex \in Nat /\ main.mtItemIndex \in Nat
         /\ main.itemIndex < main.mtItemIndex
         /\ FirstItem = main.itemIndex /\ EndItem = main.mtItemIndex
<1> DEFINE ti == main.threadIndices
<1>1. /\ ti \in Seq(Threads) /\ main.itemIndex \in Nat /\ main.mtItemIndex \in Nat /\ N \in Nat
      /\ main.itemIndex >= 1
  BY MainFacts, ConstantProperties, Parts
<1>2. /\ main.pc = "top" /\ main.itemIndex <= N
      /\ ~(Len(ti) < NumThreads /\ main.mtItemIndex <= N)
  BY DEF AtItem, AtTop, CanDispatch
<1>3. ~InFinalPhase /\ ~Finishing /\ ~AtStream
  BY <1>2 DEF InFinalPhase, Finishing, AtStream
<1>4. FirstItem = main.itemIndex /\ EndItem = main.mtItemIndex
  BY <1>3 DEF FirstItem, EndItem
<1>5. main.itemIndex <= main.mtItemIndex
  BY <1>3, <1>4, Parts DEF ItemsHaveThreads
<1>6. SUFFICES ASSUME main.itemIndex = main.mtItemIndex PROVE FALSE
  BY <1>1, <1>2, <1>3, <1>4, <1>5, ConstantProperties DEF Items
<1>7. Len(ti) >= NumThreads /\ NumThreads \in Nat \ {0} /\ Len(ti) \in Nat
  BY <1>1, <1>2, <1>6, ConstantProperties
<1>8. 1 \in 1..Len(ti) /\ ti[1] \in Threads /\ ti[1] \in Range(ti)
  BY <1>1, <1>7 DEF Range
<1>9. ~th[ti[1]].isFree
  BY <1>3, <1>8, Parts DEF ListFits
<1>10. th[ti[1]].item \in FirstItem..(EndItem - 1)
  BY <1>3, <1>8, <1>9, Parts DEF ItemsHaveThreads
<1> QED
  BY <1>1, <1>4, <1>6, <1>10

(* Nobody writes to the file unless the item is a file that is not done.   *)
LEMMA NobodyGranted ==
  ASSUME IInv, AtItem,
         \/ refs[main.itemIndex].skip \/ refs[main.itemIndex].defined
         \/ Kind[main.itemIndex] # "new"
  PROVE  (\A t \in Threads : ~Granted(t)) /\ arc.pos = None
<1>1. ~InFinalPhase /\ ~Finishing
  BY AtItemBehind
<1>2. ASSUME NEW t \in Threads, Granted(t) PROVE FALSE
  <2>1. th[t].item = main.itemIndex /\ ~th[t].isFree
    BY <1>2, Parts DEF FileIsGranted, Granted
  <2> QED
    BY <1>1, <2>1, Parts DEF ItemsHaveThreads
<1> QED
  BY <1>1, <1>2, Parts DEF FileIsGranted

LEMMA PassOverKeeps == ASSUME IInv, PassOver PROVE IInv'
<1>1. /\ th' = th /\ refs' = refs /\ pool' = pool /\ mem' = mem /\ arc' = arc
      /\ main.pc = "top" /\ main.mtItemIndex <= N /\ Kind[main.mtItemIndex] # "new"
      /\ main' = [main EXCEPT !.mtItemIndex = main.mtItemIndex + 1]
  BY DEF PassOver, AtTop, CanDispatch
<1>2. /\ main \in MainType /\ main.mtItemIndex \in Nat /\ main.mtItemIndex + 1 \in 1..(N + 1)
      /\ main.itemIndex \in Nat
  BY <1>1, MainFacts, Parts, ConstantProperties
<1>3. /\ main' \in MainType /\ main'.pc = main.pc /\ main'.mtItemIndex = main.mtItemIndex + 1
      /\ main'.itemIndex = main.itemIndex /\ main'.lastReal = main.lastReal
      /\ main'.threadIndices = main.threadIndices /\ main'.thread = main.thread
      /\ main'.list = main.list /\ main'.next = main.next /\ main'.joining = main.joining
  BY <1>1, <1>2 DEF MainType
<1>4. /\ ~InFinalPhase /\ ~Finishing /\ ~AtStream
      /\ ~InFinalPhase' /\ ~Finishing' /\ ~AtStream'
  BY <1>1, <1>3 DEF InFinalPhase, Finishing, AtStream
<1>5. /\ FirstItem = main.itemIndex /\ FirstItem' = main.itemIndex
      /\ EndItem = main.mtItemIndex /\ EndItem' = main.mtItemIndex + 1
  BY <1>3, <1>4 DEF FirstItem, EndItem
<1>6. TypeOK'
  BY <1>1, <1>3, Parts DEF TypeOK
<1>7. ListFits'
  BY <1>1, <1>3, <1>4, Parts DEF ListFits
<1>8. PoolIsBalanced'
  BY <1>1, <1>3, PoolStays
<1>9. \A t \in Threads : Lifecycle(t)'
  BY <1>1, <1>3, <1>4, SameLives
<1>10. PhasesOfEnd'
  BY <1>1, <1>3, <1>4, Parts DEF PhasesOfEnd
<1>11. ItemsHaveThreads'
  <2>1. /\ \A t \in Threads : ~th'[t].isFree => th'[t].item \in Items
        /\ \A t, u \in Threads : ~th'[t].isFree /\ Running(u, th[t].item)' => t = u
    BY <1>1, Parts DEF ItemsHaveThreads, Running
  <2>2. main'.itemIndex <= EndItem'
    BY <1>2, <1>3, <1>4, <1>5, Parts DEF ItemsHaveThreads
  <2>3. ASSUME NEW t \in Threads, ~th[t].isFree
        PROVE  /\ th[t].item \in FirstItem'..(EndItem' - 1) /\ Kind[th[t].item] = "new"
               /\ ~refs[th[t].item].skip /\ ~refs[th[t].item].defined
    <3>1. /\ th[t].item \in FirstItem..(EndItem - 1) /\ Kind[th[t].item] = "new"
          /\ ~refs[th[t].item].skip /\ ~refs[th[t].item].defined
      BY <1>4, <2>3, Parts DEF ItemsHaveThreads
    <3> QED
      BY <1>2, <1>5, <3>1
  <2>4. ASSUME NEW i \in FirstItem'..(EndItem' - 1), Kind[i] = "new"
        PROVE  refs[i].skip \/ refs[i].defined \/ \E t \in Threads : Running(t, i)'
    <3>1. i \in FirstItem..(EndItem - 1)
      BY <1>1, <1>2, <1>5, <2>4
    <3> QED
      BY <1>1, <1>4, <2>4, <3>1, Parts DEF ItemsHaveThreads, Running
  <2>5. ASSUME NEW i \in Items
        PROVE  /\ refs[i].skip \/ refs[i].defined => Kind[i] = "new" /\ i < EndItem'
               /\ refs[i].skip => MaySkip /\ ~refs[i].defined
    BY <1>2, <1>4, <1>5, Parts, ConstantProperties DEF ItemsHaveThreads
  <2> QED
    BY <1>1, <2>1, <2>2, <2>3, <2>4, <2>5 DEF ItemsHaveThreads, Running
<1>12. MainFits'
  BY <1>1, <1>3, <1>4 DEF MainFits
<1>13. FileIsGranted'
  BY <1>1, <1>3, <1>4, Parts DEF FileIsGranted, Granted
<1>14. ItemsInOrder'
  BY <1>1, <1>3, Parts DEF ItemsInOrder
<1>15. StreamsFit'
  BY <1>1, <1>3, <1>4, Parts, SameStreams DEF StreamsFit, Drained
<1>16. ItemsFit'
  BY <1>1, <1>2, <1>3, <1>4, SameItems
<1>17. DataIsWhole'
  BY <1>1, Parts DEF DataIsWhole, Written
<1> QED
  BY <1>6, <1>7, <1>8, <1>9, <1>10, <1>11, <1>12, <1>13, <1>14, <1>15, <1>16, <1>17, PartsFitNext

(* LockMixer, GetStream with S_FALSE, and StickAtFile only change where    *)
(* Update2 is.                                                             *)
LEMMA ToStreamKeeps ==
  ASSUME IInv, ~InFinalPhase, ~Finishing, main.list = {}, main.pc # "release",
         main' \in MainType, main'.pc \in {"getstream", "skip", "stuck"},
         main'.itemIndex = main.itemIndex, main'.lastReal = main.lastReal,
         main'.threadIndices = main.threadIndices, main'.thread = main.thread,
         main'.list = main.list, main'.next = main.next, main'.joining = main.joining,
         EndItem' = EndItem, EndItem \in Items, Kind[EndItem] = "new", main.itemIndex <= N,
         Len(main.threadIndices) < NumThreads, main'.pc # "getstream" => MaySkip,
         th' = th, refs' = refs, pool' = pool, mem' = mem, arc' = arc
  PROVE  IInv'
<1>1. ~InFinalPhase' /\ ~Finishing' /\ AtStream' /\ main'.pc \notin {"drain", "await", "release", "done"}
  BY DEF InFinalPhase, Finishing, AtStream
<1>2. FirstItem = main.itemIndex /\ FirstItem' = main.itemIndex
  BY <1>1 DEF FirstItem
<1>3. main.pc \notin {"drain"}
  BY DEF Finishing
<1>6. TypeOK'
  BY Parts DEF TypeOK
<1>7. ListFits'
  BY <1>1, Parts DEF ListFits
<1>8. PoolIsBalanced'
  BY <1>1, PoolStays
<1>9. \A t \in Threads : Lifecycle(t)'
  BY <1>1, SameLives
<1>10. PhasesOfEnd'
  <2>1. main.next # "done"
    BY Parts DEF PhasesOfEnd, InFinalPhase
  <2> QED
    BY <1>1, <2>1, Parts DEF PhasesOfEnd
<1>11. ItemsHaveThreads'
  BY <1>1, <1>2, Parts DEF ItemsHaveThreads, Running
<1>12. MainFits'
  BY <1>1 DEF MainFits
<1>13. FileIsGranted'
  BY <1>1, Parts DEF FileIsGranted, Granted
<1>14. ItemsInOrder'
  BY Parts DEF ItemsInOrder
<1>15. StreamsFit'
  BY <1>1, <1>3, Parts, SameStreams DEF StreamsFit, Drained
<1>16. ItemsFit'
  BY <1>1, MainFacts, Parts, SameItems
<1>17. DataIsWhole'
  BY Parts DEF DataIsWhole, Written
<1> QED
  BY <1>6, <1>7, <1>8, <1>9, <1>10, <1>11, <1>12, <1>13, <1>14, <1>15, <1>16, <1>17, PartsFitNext

LEMMA LockMixerKeeps == ASSUME IInv, LockMixer PROVE IInv'
<1>1. /\ th' = th /\ refs' = refs /\ pool' = pool /\ mem' = mem /\ arc' = arc
      /\ main.pc = "top" /\ main.itemIndex <= N /\ main.mtItemIndex <= N
      /\ Kind[main.mtItemIndex] = "new" /\ Len(main.threadIndices) < NumThreads
      /\ main' = [main EXCEPT !.mtItemIndex = main.mtItemIndex + 1, !.pc = "getstream"]
  BY DEF LockMixer, AtTop, CanDispatch
<1>2. /\ main \in MainType /\ main.mtItemIndex \in Nat /\ main.mtItemIndex + 1 \in 1..(N + 1)
      /\ main.mtItemIndex \in Items /\ "getstream" \in MainPcs
  BY <1>1, MainFacts, Parts, ConstantProperties, Names DEF Items
<1>3. /\ main' \in MainType /\ main'.pc = "getstream" /\ main'.mtItemIndex = main.mtItemIndex + 1
      /\ main'.itemIndex = main.itemIndex /\ main'.lastReal = main.lastReal
      /\ main'.threadIndices = main.threadIndices /\ main'.thread = main.thread
      /\ main'.list = main.list /\ main'.next = main.next /\ main'.joining = main.joining
  BY <1>1, <1>2 DEF MainType
<1>4. ~InFinalPhase /\ ~Finishing /\ ~AtStream /\ main.list = {}
  BY <1>1, Parts DEF InFinalPhase, Finishing, AtStream, PhasesOfEnd
<1>5. EndItem' = EndItem /\ EndItem = main.mtItemIndex
  BY <1>2, <1>3, <1>4 DEF EndItem, AtStream
<1> QED
  BY <1>1, <1>2, <1>3, <1>4, <1>5, ToStreamKeeps

(* With the mixer locked.                                                  *)
LEMMA AtStreamFacts ==
  ASSUME IInv, AtStream
  PROVE  /\ ~InFinalPhase /\ ~Finishing /\ main.list = {} /\ main.pc # "release"
         /\ main.next # "done" /\ FirstItem = main.itemIndex
         /\ EndItem \in Items /\ EndItem \in Nat /\ EndItem = main.mtItemIndex - 1
         /\ Kind[EndItem] = "new" /\ main.itemIndex <= N /\ main.itemIndex <= EndItem
         /\ main.itemIndex \in Nat /\ main.mtItemIndex \in Nat /\ main.mtItemIndex = EndItem + 1
         /\ Len(main.threadIndices) < NumThreads
         /\ main.pc # "getstream" => MaySkip
         /\ ~refs[EndItem].skip /\ ~refs[EndItem].defined
<1>1. ~InFinalPhase /\ ~Finishing /\ main.list = {} /\ main.pc # "release"
  BY Parts DEF AtStream, InFinalPhase, Finishing, PhasesOfEnd
<1>2. main.next # "done" /\ FirstItem = main.itemIndex
  BY <1>1, Parts DEF AtStream, PhasesOfEnd, FirstItem
<1>3. /\ main.itemIndex \in Nat /\ main.mtItemIndex \in Nat /\ EndItem = main.mtItemIndex - 1
  BY MainFacts, Parts DEF EndItem
<1>4. /\ EndItem \in Items /\ Kind[EndItem] = "new" /\ main.itemIndex <= N
      /\ Len(main.threadIndices) < NumThreads /\ (main.pc # "getstream" => MaySkip)
      /\ main.itemIndex <= EndItem
  BY <1>1, Parts DEF MainFits, ItemsHaveThreads
<1>5. EndItem \in Nat /\ main.mtItemIndex = EndItem + 1
  BY <1>3, <1>4, ConstantProperties
<1>6. ~refs[EndItem].skip /\ ~refs[EndItem].defined
  BY <1>1, <1>4, <1>5, Parts, RefFacts DEF ItemsHaveThreads
<1> QED
  BY <1>1, <1>2, <1>3, <1>4, <1>5, <1>6

LEMMA NewPlace ==
  ASSUME TypeOK, NEW pc \in MainPcs, main' = [main EXCEPT !.pc = pc]
  PROVE  /\ main' \in MainType /\ main'.pc = pc /\ main'.mtItemIndex = main.mtItemIndex
         /\ main'.itemIndex = main.itemIndex /\ main'.lastReal = main.lastReal
         /\ main'.threadIndices = main.threadIndices /\ main'.thread = main.thread
         /\ main'.list = main.list /\ main'.next = main.next /\ main'.joining = main.joining
<1>1. main \in MainType
  BY DEF TypeOK
<1> QED
  BY <1>1 DEF MainType

LEMMA StayAtStream ==
  ASSUME IInv, AtStream, NEW pc \in {"skip", "stuck"}, main' = [main EXCEPT !.pc = pc], MaySkip,
         th' = th, refs' = refs, pool' = pool, mem' = mem, arc' = arc
  PROVE  IInv'
<1>1. /\ ~InFinalPhase /\ ~Finishing /\ main.list = {} /\ main.pc # "release"
      /\ EndItem \in Items /\ EndItem = main.mtItemIndex - 1
      /\ Kind[EndItem] = "new" /\ main.itemIndex <= N
      /\ Len(main.threadIndices) < NumThreads
  BY AtStreamFacts
<1>2. pc \in MainPcs /\ TypeOK
  BY Names, Parts
<1>3. /\ main' \in MainType /\ main'.pc = pc /\ main'.mtItemIndex = main.mtItemIndex
      /\ main'.itemIndex = main.itemIndex /\ main'.lastReal = main.lastReal
      /\ main'.threadIndices = main.threadIndices /\ main'.thread = main.thread
      /\ main'.list = main.list /\ main'.next = main.next /\ main'.joining = main.joining
  BY <1>2, NewPlace
<1>4. EndItem' = EndItem
  BY <1>1, <1>3 DEF EndItem, AtStream
<1> QED
  BY <1>1, <1>3, <1>4, ToStreamKeeps

LEMMA StickKeeps == ASSUME IInv, StickAtFile PROVE IInv'
<1>1. AtStream /\ main.pc = "skip"
  BY DEF StickAtFile, AtStream
<1>2. MaySkip
  BY <1>1, AtStreamFacts
<1> QED
  BY <1>1, <1>2, StayAtStream DEF StickAtFile

LEMMA SkipKeeps == ASSUME IInv, SkipFile PROVE IInv'
<1> DEFINE i == EndItem
<1>1. AtStream /\ main.pc = "skip" /\ th' = th /\ pool' = pool /\ mem' = mem /\ arc' = arc
  BY DEF SkipFile, AtStream
<1>2. /\ ~InFinalPhase /\ ~Finishing /\ main.list = {}
      /\ main.next # "done" /\ FirstItem = main.itemIndex
      /\ i \in Items /\ i \in Nat /\ i = main.mtItemIndex - 1 /\ Kind[i] = "new"
      /\ main.itemIndex <= i /\ main.itemIndex \in Nat /\ main.mtItemIndex = i + 1 /\ MaySkip
      /\ ~refs[i].skip /\ ~refs[i].defined
  BY <1>1, AtStreamFacts
<1>3. main.itemIndex >= 1 /\ N \in Nat /\ i <= N
  BY <1>2, MainFacts, Parts, ConstantProperties DEF Items
<1>4. CASE Stop("abort") /\ refs' = refs
  <2>1. "abort" \in Results
    BY Names
  <2> QED
    BY <1>1, <1>2, <1>4, <2>1, StopKeeps
<1>5. CASE /\ refs' = [refs EXCEPT ![main.mtItemIndex - 1].skip = TRUE]
           /\ main' = [main EXCEPT !.pc = "top"]
  <2>1. TypeOK /\ "top" \in MainPcs
    BY Parts, Names
  <2>2. /\ main' \in MainType /\ main'.pc = "top" /\ main'.mtItemIndex = main.mtItemIndex
        /\ main'.itemIndex = main.itemIndex /\ main'.lastReal = main.lastReal
        /\ main'.threadIndices = main.threadIndices /\ main'.thread = main.thread
        /\ main'.list = main.list /\ main'.next = main.next /\ main'.joining = main.joining
    BY <1>5, <2>1, NewPlace
  <2>3. refs \in [Items -> RefType] /\ refs' = [refs EXCEPT ![i].skip = TRUE]
    BY <1>2, <1>5, <2>1 DEF TypeOK
  <2>4. /\ refs' \in [Items -> RefType]
        /\ refs'[i].skip /\ \A j \in Items : j # i => refs'[j] = refs[j]
        /\ \A j \in Items : /\ refs'[j].defined = refs[j].defined
                            /\ refs'[j].blocks = refs[j].blocks
                            /\ refs'[j].total = refs[j].total
                            /\ refs'[j].packSize = refs[j].packSize
    BY <1>2, <2>3 DEF RefType
  <2>5. ~InFinalPhase' /\ ~Finishing' /\ ~AtStream' /\ FirstItem' = FirstItem /\ EndItem' = i + 1
    BY <1>2, <2>2 DEF InFinalPhase, Finishing, AtStream, FirstItem, EndItem
  <2>6. TypeOK'
    BY <1>1, <2>1, <2>2, <2>4 DEF TypeOK
  <2>7. ListFits'
    BY <1>1, <1>2, <2>2, Parts DEF ListFits
  <2>8. PoolIsBalanced'
    BY <1>1, <2>2, <2>4, PoolStays
  <2>9. \A t \in Threads : Lifecycle(t)'
    BY <1>1, <1>2, <2>2, SameLives
  <2>10. PhasesOfEnd'
    BY <1>2, <2>2, <2>5, Parts DEF PhasesOfEnd
  <2>11. ItemsHaveThreads'
    <3>1. /\ \A t \in Threads : ~th'[t].isFree => th'[t].item \in Items
          /\ \A t, u \in Threads : ~th'[t].isFree /\ Running(u, th[t].item)' => t = u
      BY <1>1, Parts DEF ItemsHaveThreads, Running
    <3>2. main'.itemIndex <= EndItem'
      BY <1>2, <2>2, <2>5
    <3>3. ASSUME NEW t \in Threads, ~th[t].isFree
          PROVE  /\ th[t].item \in FirstItem'..(EndItem' - 1) /\ Kind[th[t].item] = "new"
                 /\ ~refs'[th[t].item].skip /\ ~refs'[th[t].item].defined
      <4>1. /\ th[t].item \in FirstItem..(i - 1) /\ Kind[th[t].item] = "new"
            /\ ~refs[th[t].item].skip /\ ~refs[th[t].item].defined
            /\ th[t].item \in Items
        BY <1>2, <3>3, Parts DEF ItemsHaveThreads
      <4> QED
        BY <1>2, <2>4, <2>5, <4>1
    <3>4. ASSUME NEW j \in FirstItem'..(EndItem' - 1), Kind[j] = "new"
          PROVE  refs'[j].skip \/ refs'[j].defined \/ \E t \in Threads : Running(t, j)'
      <4>1. CASE j = i
        BY <2>4, <4>1
      <4>2. CASE j # i
        <5>1. j \in FirstItem..(i - 1) /\ j \in Items
          BY <1>2, <1>3, <2>5, <3>4, <4>2 DEF Items
        <5>2. refs[j].skip \/ refs[j].defined \/ \E t \in Threads : Running(t, j)
          BY <1>2, <3>4, <5>1, Parts DEF ItemsHaveThreads
        <5> QED
          BY <1>1, <2>4, <4>2, <5>1, <5>2 DEF Running
      <4> QED
        BY <4>1, <4>2
    <3>5. ASSUME NEW j \in Items
          PROVE  /\ refs'[j].skip \/ refs'[j].defined => Kind[j] = "new" /\ j < EndItem'
                 /\ refs'[j].skip => MaySkip /\ ~refs'[j].defined
      <4>1. CASE j = i
        <5>1. refs'[i].defined = refs[i].defined
          BY <1>2, <2>4
        <5>2. ~refs'[i].defined /\ i < i + 1
          BY <1>2, <5>1
        <5> QED
          BY <1>2, <2>5, <4>1, <5>2
      <4>2. CASE j # i
        <5>1. /\ refs[j].skip \/ refs[j].defined => Kind[j] = "new" /\ j < i
              /\ refs[j].skip => MaySkip /\ ~refs[j].defined
          BY <1>2, Parts DEF ItemsHaveThreads
        <5> QED
          BY <1>2, <2>4, <2>5, <4>2, <5>1, ConstantProperties
      <4> QED
        BY <4>1, <4>2
    <3> QED
      BY <1>1, <3>1, <3>2, <3>3, <3>4, <3>5 DEF ItemsHaveThreads, Running
  <2>12. MainFits'
    BY <2>2, <2>5 DEF MainFits
  <2>13. FileIsGranted'
    BY <1>1, <1>2, <2>2, Parts DEF FileIsGranted, Granted
  <2>14. ItemsInOrder'
    <3>1. \A j \in 1..(main.itemIndex - 1) : j \in Items /\ j # i
      BY <1>2, <1>3 DEF Items
    <3> QED
      BY <1>1, <2>2, <2>4, <3>1, Parts DEF ItemsInOrder
  <2>15. StreamsFit'
    BY <1>1, <1>2, <2>2, <2>5, Parts, SameStreams DEF StreamsFit, Drained, Finishing
  <2>16. ItemsFit'
    <3>1. \A j \in main.itemIndex..N : j \in Items
      BY <1>2, MainFacts, Parts DEF Items
    <3>2. ASSUME NEW j \in main.itemIndex..N, refs[j].defined
          PROVE  /\ refs[j].packSize = refs[j].total
                 /\ \E m \in 1..NumMethods : HoldPass(refs[j].blocks, j, m, refs[j].total)'
      <4>1. PICK m \in 1..NumMethods : HoldPass(refs[j].blocks, j, m, refs[j].total)
        BY <1>2, <3>2, Parts DEF ItemsFit
      <4>2. HoldPass(refs'[j].blocks, j, m, refs'[j].total) <=> HoldPass(refs[j].blocks, j, m, refs[j].total)
        BY <2>4, <3>1, <3>2
      <4>3. HoldPass(refs[j].blocks, j, m, refs[j].total)'
        BY <1>1, <2>4, <3>1, <4>1 DEF HoldPass
      <4> QED
        BY <1>2, <3>2, <4>3, Parts DEF ItemsFit
    <3> QED
      BY <1>1, <1>2, <2>2, <2>4, <3>1, <3>2, Parts DEF ItemsFit
  <2>17. DataIsWhole'
    <3>1. arc.order \in Seq(Items)
      BY StoreFacts, Parts
    <3>2. \A j \in Range(arc.order) : j \in Items
      BY <3>1 DEF Range
    <3> QED
      BY <1>1, <2>4, <3>2, Parts DEF DataIsWhole, Written
  <2> QED
    BY <2>6, <2>7, <2>8, <2>9, <2>10, <2>11, <2>12, <2>13, <2>14, <2>15, <2>16, <2>17, PartsFitNext
<1> QED
  BY <1>4, <1>5 DEF SkipFile

(* There is a thread for a file that was opened.                           *)
LEMMA FreeThread ==
  ASSUME IInv, ~InFinalPhase, Len(main.threadIndices) < NumThreads
  PROVE  FirstFree \in Threads /\ th[FirstFree].isFree
<1> DEFINE ti == main.threadIndices
<1>1. ti \in Seq(Threads) /\ Len(ti) \in Nat
  BY MainFacts, Parts
<1>2. \E t \in Threads : th[t].isFree
  <2>1. SUFFICES ASSUME \A t \in Threads : ~th[t].isFree PROVE FALSE
    OBVIOUS
  <2>2. \A t \in Threads : \E k \in 1..Len(ti) : ti[k] = t
    <3>1. \A t \in Threads : t \in Range(ti)
      BY <2>1, Parts DEF ListFits
    <3> QED
      BY <1>1, <3>1 DEF Range
  <2>3. ti \in Surjection(1..Len(ti), Threads)
    BY <1>1, <2>2 DEF Surjection
  <2>4. IsFiniteSet(1..Len(ti)) /\ Cardinality(1..Len(ti)) = Len(ti)
    BY <1>1, FS_Interval
  <2>5. Cardinality(Threads) <= Len(ti)
    BY <2>3, <2>4, FS_Surjection
  <2> QED
    BY <1>1, <2>5, ConstantProperties
<1>3. PICK k \in Threads : th[k].isFree /\ \A j \in Threads : th[j].isFree => k <= j
  <2> DEFINE S == {t \in Threads : th[t].isFree}
  <2>1. S \in SUBSET Nat /\ S # {}
    BY <1>2, ConstantProperties
  <2>2. PICK k \in S : \A j \in S : k <= j
    BY <2>1, SmallestElement
  <2> QED
    BY <2>2
<1>4. \A j \in 1..(k - 1) : ~th[j].isFree
  <2>1. k \in Nat /\ k <= NumThreads /\ NumThreads \in Nat
    BY ConstantProperties DEF Threads
  <2>2. \A j \in 1..(k - 1) : j \in Threads /\ ~(k <= j)
    BY <2>1 DEF Threads
  <2> QED
    BY <1>3, <2>2
<1> QED
  BY <1>3, <1>4 DEF FirstFree

LEMMA DispatchFields ==
  ASSUME IInv, AtStream, NEW k \in Threads, th[k].isFree,
         main.pc = "getstream", FirstFree = k, Dispatch(EndItem)
  PROVE  /\ pool' = pool /\ th' \in [Threads -> ThreadType] /\ main' \in MainType
         /\ \A t \in Threads : t # k => th'[t] = th[t]
         /\ ~th'[k].isFree /\ ~th'[k].realEvent /\ ~th'[k].unlockSent /\ ~th'[k].realMode
         /\ th'[k].blocks = <<>> /\ th[k].blocks = <<>> /\ th'[k].total = 0 /\ th'[k].made = 0
         /\ th'[k].compressEvent /\ th'[k].item = EndItem
         /\ th'[k].pc = "wait" /\ th[k].pc = "wait" /\ ~th'[k].completedEvent
         /\ ~th'[k].exitThread /\ ~th'[k].stopEvent
         /\ th'[k].result = th[k].result
         /\ main'.threadIndices = Append(main.threadIndices, k) /\ main'.pc = "top"
         /\ main'.mtItemIndex = main.mtItemIndex
         /\ main'.itemIndex = main.itemIndex /\ main'.lastReal = main.lastReal
         /\ main'.thread = main.thread
         /\ main'.list = main.list /\ main'.next = main.next /\ main'.joining = main.joining
<1>1. /\ ~InFinalPhase /\ ~Finishing /\ EndItem \in Items
  BY AtStreamFacts
<1>2. /\ th[k].blocks = <<>>
      /\ th[k].pc = "wait" /\ ~th[k].completedEvent /\ ~th[k].exitThread /\ ~th[k].stopEvent
  BY <1>1, Parts DEF StreamsFit, Drained, Lifecycle, AtStream
<1>3. th \in [Threads -> ThreadType] /\ pool \in PoolType /\ main \in MainType
      /\ main.threadIndices \in Seq(Threads) /\ th[k] \in ThreadType
  BY Parts, MainFacts DEF TypeOK
<1> DEFINE new == [th[k] EXCEPT
              !.isFree = FALSE, !.realEvent = FALSE, !.unlockSent = FALSE,
              !.realMode = FALSE, !.blocks = <<>>, !.total = 0, !.made = 0,
              !.region = None, !.compressEvent = TRUE, !.item = EndItem]
<1>4. /\ th' = [th EXCEPT ![k] = new]
      /\ pool' = [free |-> pool.free \cup Range(th[k].blocks),
                  sem |-> Released(Len(th[k].blocks))]
      /\ main' = [main EXCEPT !.threadIndices = Append(main.threadIndices, k), !.pc = "top"]
  BY DEF Dispatch
<1>5. pool' = pool
  <2>1. Range(th[k].blocks) = {} /\ Len(th[k].blocks) = 0
    BY <1>2 DEF Range
  <2>2. pool.sem \in 0..NumBlocks
    BY <1>3 DEF PoolType
  <2>3. Released(Len(th[k].blocks)) = pool.sem
    BY <2>1, <2>2, ConstantProperties DEF Released
  <2> QED
    BY <1>3, <1>4, <2>1, <2>3 DEF PoolType
<1>6. new \in ThreadType
  <2>1. 0 \in 0..MaxChunks /\ EndItem \in 0..N /\ None \in 0..N /\ <<>> \in Seq(Blocks)
    BY <1>1, ConstantProperties DEF None
  <2> QED
    BY <1>3, <2>1 DEF ThreadType
<1>7. /\ ~new.isFree /\ ~new.realEvent /\ ~new.unlockSent /\ ~new.realMode
      /\ new.blocks = <<>> /\ new.total = 0 /\ new.made = 0
      /\ new.compressEvent /\ new.item = EndItem
      /\ new.pc = th[k].pc /\ new.completedEvent = th[k].completedEvent
      /\ new.exitThread = th[k].exitThread /\ new.stopEvent = th[k].stopEvent
      /\ new.result = th[k].result
  BY <1>3 DEF ThreadType
<1> HIDE DEF new
<1>8. /\ th' \in [Threads -> ThreadType] /\ th'[k] = new
      /\ \A t \in Threads : t # k => th'[t] = th[t]
  BY <1>3, <1>4, <1>6
<1> DEFINE list == Append(main.threadIndices, k)
<1>9. list \in Seq(Threads) /\ "top" \in MainPcs
  BY <1>3, Names
<1>10. main' = [main EXCEPT !.threadIndices = list, !.pc = "top"]
  BY <1>4
<1> HIDE DEF list
<1>11. /\ main' \in MainType /\ main'.threadIndices = list /\ main'.pc = "top"
       /\ main'.mtItemIndex = main.mtItemIndex
       /\ main'.itemIndex = main.itemIndex /\ main'.lastReal = main.lastReal
       /\ main'.thread = main.thread
       /\ main'.list = main.list /\ main'.next = main.next /\ main'.joining = main.joining
  BY <1>3, <1>9, <1>10 DEF MainType
<1>12. /\ ~th'[k].isFree /\ ~th'[k].realEvent /\ ~th'[k].unlockSent /\ ~th'[k].realMode
       /\ th'[k].blocks = <<>> /\ th'[k].total = 0 /\ th'[k].made = 0
       /\ th'[k].compressEvent /\ th'[k].item = EndItem
       /\ th'[k].pc = "wait" /\ ~th'[k].completedEvent /\ ~th'[k].exitThread
       /\ ~th'[k].stopEvent /\ th'[k].result = th[k].result
  BY <1>2, <1>7, <1>8
<1> QED
  BY <1>2, <1>5, <1>8, <1>11, <1>12 DEF list

LEMMA DispatchKeeps ==
  ASSUME IInv, AtStream, main.pc = "getstream", Dispatch(EndItem),
         refs' = refs, mem' = mem, arc' = arc
  PROVE  IInv'
<1> DEFINE ti == main.threadIndices
           i == EndItem
<1>1. /\ ~InFinalPhase /\ ~Finishing /\ main.list = {} /\ main.next # "done"
      /\ FirstItem = main.itemIndex /\ i \in Items /\ i \in Nat /\ i = main.mtItemIndex - 1
      /\ Kind[i] = "new" /\ main.itemIndex <= i /\ main.itemIndex \in Nat
      /\ main.mtItemIndex \in Nat /\ main.mtItemIndex = i + 1
      /\ Len(ti) < NumThreads /\ ~refs[i].skip /\ ~refs[i].defined
  BY AtStreamFacts
<1>0. main.itemIndex >= 1 /\ N \in Nat /\ i <= N /\ i >= 1
  BY <1>1, MainFacts, Parts, ConstantProperties DEF Items
<1>2. PICK k \in Threads : FirstFree = k /\ th[k].isFree
  BY <1>1, FreeThread
<1>3. /\ pool' = pool /\ th' \in [Threads -> ThreadType] /\ main' \in MainType
      /\ \A t \in Threads : t # k => th'[t] = th[t]
      /\ ~th'[k].isFree /\ ~th'[k].realEvent /\ ~th'[k].unlockSent /\ ~th'[k].realMode
      /\ th'[k].blocks = <<>> /\ th[k].blocks = <<>> /\ th'[k].total = 0 /\ th'[k].made = 0
      /\ th'[k].compressEvent /\ th'[k].item = i
      /\ th'[k].pc = "wait" /\ th[k].pc = "wait" /\ ~th'[k].completedEvent
      /\ ~th'[k].exitThread /\ ~th'[k].stopEvent
      /\ th'[k].result = th[k].result
      /\ main'.threadIndices = Append(ti, k) /\ main'.pc = "top"
      /\ main'.mtItemIndex = main.mtItemIndex
      /\ main'.itemIndex = main.itemIndex /\ main'.lastReal = main.lastReal
      /\ main'.thread = main.thread
      /\ main'.list = main.list /\ main'.next = main.next /\ main'.joining = main.joining
  BY <1>2, DispatchFields
<1> HIDE DEF i
<1>4. ~InFinalPhase' /\ ~Finishing' /\ ~AtStream' /\ FirstItem' = FirstItem /\ EndItem' = i + 1
  BY <1>1, <1>3 DEF InFinalPhase, Finishing, AtStream, FirstItem, EndItem
<1>5. \A t \in Threads : ~th[t].isFree =>
        /\ t # k /\ th[t].item \in FirstItem..(i - 1) /\ th[t].item \in Items
        /\ Kind[th[t].item] = "new" /\ ~refs[th[t].item].skip /\ ~refs[th[t].item].defined
  BY <1>1, <1>2, Parts DEF ItemsHaveThreads, i
<1>6. TypeOK'
  BY <1>3, Parts DEF TypeOK
<1>7. ListFits'
  <2>1. ti \in Seq(Threads) /\ Len(ti) \in Nat
    BY MainFacts, Parts
  <2> DEFINE r == Append(ti, k)
  <2>2. /\ Len(r) = Len(ti) + 1 /\ r[Len(ti) + 1] = k
        /\ \A j \in 1..Len(ti) : r[j] = ti[j] /\ r[j] \in Threads
        /\ DOMAIN r = 1..(Len(ti) + 1) /\ DOMAIN ti = 1..Len(ti)
    BY <2>1
  <2>3. 1..(Len(ti) + 1) = (1..Len(ti)) \cup {Len(ti) + 1}
    BY <2>1
  <2> HIDE DEF r
  <2>4. Range(r) = Range(ti) \cup {k}
    BY <2>2, <2>3 DEF Range
  <2>5. \A j \in 1..Len(ti) : ~th[ti[j]].isFree
    <3>1. \A j \in 1..Len(ti) : ti[j] \in Range(ti) /\ ti[j] \in Threads
      BY <2>1 DEF Range
    <3> QED
      BY <1>1, <3>1, Parts DEF ListFits
  <2>6. ASSUME NEW j \in 1..Len(r), NEW m \in 1..Len(r), j < m
        PROVE  th'[r[j]].item < th'[r[m]].item
    <3>1. j \in 1..Len(ti) /\ r[j] = ti[j] /\ ti[j] \in Threads
      BY <2>1, <2>2, <2>6
    <3>2. ~th[ti[j]].isFree /\ th'[ti[j]] = th[ti[j]] /\ th[ti[j]].item \in FirstItem..(i - 1)
      BY <1>3, <1>5, <2>5, <3>1
    <3>3. CASE m = Len(ti) + 1
      BY <1>1, <1>3, <2>2, <3>1, <3>2, <3>3, SMTT(30)
    <3>4. CASE m \in 1..Len(ti)
      <4>1. r[m] = ti[m] /\ ti[m] \in Threads /\ ~th[ti[m]].isFree
        BY <2>2, <2>5, <3>4
      <4>2. th'[ti[m]] = th[ti[m]]
        BY <1>3, <1>5, <4>1
      <4>3. th[ti[j]].item < th[ti[m]].item
        BY <1>1, <2>6, <3>1, <3>4, Parts DEF ListFits
      <4> QED
        BY <3>1, <3>2, <4>1, <4>2, <4>3
    <3> QED
      BY <2>1, <2>2, <2>3, <2>6, <3>3, <3>4
  <2>7. \A t \in Threads : (t \in Range(r)) = ~th'[t].isFree
    BY <1>1, <1>2, <1>3, <2>4, Parts, ThreadFacts DEF ListFits
  <2> QED
    BY <1>3, <2>6, <2>7 DEF ListFits, r
<1>8. PoolIsBalanced'
  <2>1. \A t \in Threads : th'[t].blocks = th[t].blocks /\ th'[t].pc = th[t].pc
    BY <1>3
  <2>2. main.pc # "release" /\ main'.pc \notin {"release", "done"}
    BY <1>3 DEF AtStream
  <2> QED
    BY <1>3, <2>1, <2>2, PoolStays
<1>9. \A t \in Threads : Lifecycle(t)'
  <2>1. ASSUME NEW t \in Threads, t # k PROVE Lifecycle(t)'
    BY <1>1, <1>3, <1>4, <2>1, Parts DEF Lifecycle
  <2>2. Lifecycle(k)'
    <3>1. main.joining = 1
      BY <1>1, Parts DEF PhasesOfEnd
    <3>2. ~(k < main'.joining)
      BY <1>3, <3>1 DEF Threads
    <3> QED
      BY <1>1, <1>3, <1>4, <3>2, Parts DEF Lifecycle
  <2> QED
    BY <2>1, <2>2
<1>10. PhasesOfEnd'
  BY <1>1, <1>3, <1>4, Parts DEF PhasesOfEnd
<1>11. ItemsHaveThreads'
  <2>1. \A t \in Threads : ~th'[t].isFree => th'[t].item \in Items
    BY <1>1, <1>3, <1>5
  <2>2. ASSUME NEW t \in Threads, NEW u \in Threads, ~th'[t].isFree, Running(u, th[t].item)'
        PROVE  t = u
    <3>1. ~th'[u].isFree /\ th'[u].item = th'[t].item
      BY <2>2 DEF Running
    <3>2. CASE t # k /\ u # k
      BY <1>3, <2>2, <3>1, <3>2, Parts DEF ItemsHaveThreads, Running
    <3>3. \A v \in Threads : v # k /\ ~th'[v].isFree => th'[v].item # i
      BY <1>1, <1>3, <1>5
    <3> QED
      BY <1>3, <2>2, <3>1, <3>2, <3>3
  <2>3. main'.itemIndex <= EndItem'
    BY <1>1, <1>3, <1>4
  <2>4. ASSUME NEW t \in Threads, ~th'[t].isFree
        PROVE  /\ th'[t].item \in FirstItem'..(EndItem' - 1) /\ Kind[th'[t].item] = "new"
               /\ ~refs[th'[t].item].skip /\ ~refs[th'[t].item].defined
    <3>1. CASE t = k
      BY <1>1, <1>3, <1>4, <3>1
    <3>2. CASE t # k
      <4>1. th'[t] = th[t] /\ ~th[t].isFree
        BY <1>3, <2>4, <3>2
      <4>2. th[t].item \in FirstItem'..(EndItem' - 1)
        BY <1>1, <1>4, <1>5, <4>1
      <4> QED
        BY <1>5, <4>1, <4>2
    <3> QED
      BY <3>1, <3>2
  <2>5. ASSUME NEW j \in FirstItem'..(EndItem' - 1), Kind[j] = "new"
        PROVE  refs[j].skip \/ refs[j].defined \/ \E t \in Threads : Running(t, j)'
    <3>1. CASE j = i
      <4>1. Running(k, j)'
        BY <1>3, <3>1 DEF Running
      <4> QED
        BY <4>1
    <3>2. CASE j # i
      <4>1. j \in FirstItem..(i - 1)
        BY <1>1, <1>4, <2>5, <3>2
      <4>2. refs[j].skip \/ refs[j].defined \/ \E t \in Threads : Running(t, j)
        BY <1>1, <2>5, <4>1, Parts DEF ItemsHaveThreads, i
      <4>3. \A t \in Threads : Running(t, j) => Running(t, j)'
        BY <1>2, <1>3 DEF Running
      <4> QED
        BY <4>2, <4>3
    <3> QED
      BY <3>1, <3>2
  <2>6. ASSUME NEW j \in Items
        PROVE  /\ refs[j].skip \/ refs[j].defined => Kind[j] = "new" /\ j < EndItem'
               /\ refs[j].skip => MaySkip /\ ~refs[j].defined
    <3>1. /\ refs[j].skip \/ refs[j].defined => Kind[j] = "new" /\ j < i
          /\ refs[j].skip => MaySkip /\ ~refs[j].defined
      BY <1>1, Parts DEF ItemsHaveThreads, i
    <3> QED
      BY <1>1, <1>4, <3>1, ConstantProperties
  <2> QED
    BY <2>1, <2>2, <2>3, <2>4, <2>5, <2>6 DEF ItemsHaveThreads, Running
<1>12. MainFits'
  BY <1>3, <1>4 DEF MainFits
<1>13. FileIsGranted'
  <2>1. \A t \in Threads : Granted(t)' <=> Granted(t)
    BY <1>2, <1>3 DEF Granted
  <2>2. \A t \in Threads : Granted(t) => th'[t] = th[t]
    BY <1>2, <1>3 DEF Granted
  <2>3. \A t \in Threads : th'[t].realEvent \/ th'[t].realMode => th'[t].unlockSent
    BY <1>3, Parts DEF FileIsGranted
  <2> QED
    BY <1>1, <1>3, <1>4, <2>1, <2>2, <2>3, Parts DEF FileIsGranted
<1>14. ItemsInOrder'
  BY <1>3, Parts DEF ItemsInOrder
<1>15. StreamsFit'
  <2>1. ASSUME NEW t \in Threads, t # k, ~th'[t].isFree, th'[t].pc # "exited"
        PROVE  StreamFits(t)'
    <3>1. StreamFits(t) /\ th'[t] = th[t]
      BY <1>3, <2>1, Parts DEF StreamsFit
    <3> QED
      BY <3>1 DEF StreamFits, InMemory, InFile, Emptied, HoldPass, PassData
  <2>2. StreamFits(k)'
    <3>1. arc.data[i] = <<>>
      <4>1. CASE i > main.itemIndex
        BY <1>1, <1>0, <4>1, Parts DEF ItemsFit
      <4>2. CASE i = main.itemIndex
        <5>1. arc.pos = None
          <6>1. SUFFICES ASSUME arc.pos # None PROVE FALSE
            OBVIOUS
          <6>2. PICK t \in Threads : Granted(t)
            BY <1>1, <6>1, Parts DEF FileIsGranted
          <6>3. th[t].item = main.itemIndex /\ ~th[t].isFree
            BY <6>2, Parts DEF FileIsGranted, Granted
          <6> QED
            BY <1>1, <1>5, <4>2, <6>3
        <5> QED
          BY <1>1, <1>0, <4>2, <5>1, Parts DEF ItemsFit
      <4> QED
        BY <1>1, <4>1, <4>2
    <3>2. InMemory(k)'
      BY <1>3, <3>1 DEF InMemory, HoldPass
    <3> QED
      BY <1>3, <3>2 DEF StreamFits
  <2>3. \A t \in Threads : th'[t].isFree => th'[t].blocks = <<>>
    BY <1>1, <1>3, Parts DEF StreamsFit, Drained, AtStream
  <2> QED
    BY <1>3, <1>4, <2>1, <2>2, <2>3 DEF StreamsFit, Drained
<1>16. ItemsFit'
  BY <1>1, <1>3, SameItems
<1>17. DataIsWhole'
  BY Parts DEF DataIsWhole, Written
<1> QED
  BY <1>6, <1>7, <1>8, <1>9, <1>10, <1>11, <1>12, <1>13, <1>14, <1>15, <1>16, <1>17, PartsFitNext

LEMMA GetStreamKeeps == ASSUME IInv, GetStream PROVE IInv'
<1>1. AtStream /\ main.pc = "getstream" /\ refs' = refs /\ mem' = mem /\ arc' = arc
  BY DEF GetStream, AtStream
<1>2. CASE Dispatch(main.mtItemIndex - 1)
  <2>1. EndItem = main.mtItemIndex - 1
    BY <1>1, AtStreamFacts
  <2> QED
    BY <1>1, <1>2, <2>1, DispatchKeeps
<1>3. CASE MaySkip /\ main' = [main EXCEPT !.pc = "skip"] /\ th' = th /\ pool' = pool
  BY <1>1, <1>3, StayAtStream
<1>4. CASE EncoderFaults /\ Stop("fail") /\ th' = th /\ pool' = pool
  <2>1. "fail" \in Results /\ ~InFinalPhase
    BY <1>1, Names, AtStreamFacts
  <2> QED
    BY <1>1, <1>4, <2>1, StopKeeps
<1> QED
  BY <1>2, <1>3, <1>4 DEF GetStream

(* Update2 goes on to the next item: no thread had the one it leaves.      *)
Advances ==
  /\ main' \in MainType /\ main'.itemIndex = main.itemIndex + 1
  /\ main'.mtItemIndex = main.mtItemIndex /\ main'.threadIndices = main.threadIndices
  /\ main'.joining = main.joining
  /\ main'.pc = "top" \/ (main'.pc = "free" /\ main'.next = "top")
  /\ th' = th /\ pool' = pool /\ mem' = mem /\ arc' \in ArcType /\ arc'.pos = None
  /\ refs' \in [Items -> RefType]
  /\ \A i \in Items : /\ refs'[i].skip = refs[i].skip /\ refs'[i].defined = refs[i].defined
                      /\ i # main.itemIndex => refs'[i] = refs[i]
  /\ \A i \in Items : i # main.itemIndex =>
       arc'.data[i] = arc.data[i] /\ arc'.packSize[i] = arc.packSize[i]

LEMMA AdvanceKeeps ==
  ASSUME IInv, AtItem, Advances,
         \/ refs[main.itemIndex].skip \/ refs[main.itemIndex].defined
         \/ Kind[main.itemIndex] # "new"
  PROVE  /\ TypeOK' /\ ListFits' /\ (\A t \in Threads : Lifecycle(t)')
         /\ ItemsHaveThreads' /\ MainFits' /\ FileIsGranted' /\ StreamsFit'
         /\ ~InFinalPhase'
         /\ \A i \in main'.itemIndex..N :
              /\ i \in Items /\ i # main.itemIndex /\ refs'[i] = refs[i]
              /\ refs[i].defined => /\ refs[i].packSize = refs[i].total
                                    /\ \E m \in 1..NumMethods :
                                         HoldPass(refs[i].blocks, i, m, refs[i].total)'
              /\ arc'.packSize[i] = 0 /\ arc'.data[i] = <<>>
<1>1. /\ main.pc = "top" /\ ~InFinalPhase /\ ~Finishing /\ ~AtStream
      /\ main.itemIndex \in Items /\ main.itemIndex \in Nat /\ main.mtItemIndex \in Nat
      /\ main.itemIndex < main.mtItemIndex
      /\ FirstItem = main.itemIndex /\ EndItem = main.mtItemIndex
  BY AtItemBehind
<1>2. /\ ~InFinalPhase' /\ ~Finishing' /\ ~AtStream'
      /\ FirstItem' = main.itemIndex + 1 /\ EndItem' = EndItem
  <2>1. ~InFinalPhase' /\ ~Finishing' /\ ~AtStream'
    BY DEF Advances, InFinalPhase, Finishing, AtStream
  <2> QED
    BY <1>1, <2>1 DEF Advances, FirstItem, EndItem
<1>3. (\A t \in Threads : ~Granted(t)) /\ arc.pos = None
  BY NobodyGranted
<1>4. TypeOK'
  BY Parts DEF TypeOK, Advances
<1>5. ListFits'
  BY <1>1, Parts DEF ListFits, Advances
<1>6. \A t \in Threads : Lifecycle(t)'
  BY <1>1, SameLives DEF Advances
<1>7. \A t \in Threads : ~th[t].isFree =>
        /\ th[t].item \in FirstItem..(EndItem - 1) /\ Kind[th[t].item] = "new"
        /\ ~refs[th[t].item].skip /\ ~refs[th[t].item].defined
        /\ th[t].item \in Items /\ th[t].item # main.itemIndex
  BY <1>1, Parts DEF ItemsHaveThreads
<1>8. ItemsHaveThreads'
  <2>1. /\ \A t \in Threads : ~th'[t].isFree => th'[t].item \in Items
        /\ \A t, u \in Threads : ~th'[t].isFree /\ Running(u, th[t].item)' => t = u
    BY Parts DEF ItemsHaveThreads, Running, Advances
  <2>2. main'.itemIndex <= EndItem'
    BY <1>1, <1>2 DEF Advances
  <2>3. ASSUME NEW t \in Threads, ~th[t].isFree
        PROVE  /\ th[t].item \in FirstItem'..(EndItem' - 1) /\ Kind[th[t].item] = "new"
               /\ ~refs'[th[t].item].skip /\ ~refs'[th[t].item].defined
    <3>1. th[t].item \in FirstItem'..(EndItem' - 1)
      BY <1>1, <1>2, <1>7, <2>3
    <3> QED
      BY <1>7, <2>3, <3>1 DEF Advances
  <2>4. ASSUME NEW i \in FirstItem'..(EndItem' - 1), Kind[i] = "new"
        PROVE  refs'[i].skip \/ refs'[i].defined \/ \E t \in Threads : Running(t, i)'
    <3>1. i \in FirstItem..(EndItem - 1)
      BY <1>1, <1>2, <2>4
    <3>2. refs[i].skip \/ refs[i].defined \/ \E t \in Threads : Running(t, i)
      BY <1>1, <2>4, <3>1, Parts DEF ItemsHaveThreads
    <3>3. i \in Items
      <4>1. main.mtItemIndex <= N + 1 /\ N \in Nat /\ main.itemIndex >= 1
        BY MainFacts, Parts, ConstantProperties
      <4> QED
        BY <1>1, <3>1, <4>1 DEF Items
    <3> QED
      BY <3>2, <3>3 DEF Running, Advances
  <2>5. ASSUME NEW i \in Items
        PROVE  /\ refs'[i].skip \/ refs'[i].defined => Kind[i] = "new" /\ i < EndItem'
               /\ refs'[i].skip => MaySkip /\ ~refs'[i].defined
    <3>1. /\ refs[i].skip \/ refs[i].defined => Kind[i] = "new" /\ i < EndItem
          /\ refs[i].skip => MaySkip /\ ~refs[i].defined
      BY <1>1, Parts DEF ItemsHaveThreads
    <3> QED
      BY <1>2, <3>1 DEF Advances
  <2>6. th' = th
    BY DEF Advances
  <2> QED
    BY <2>1, <2>2, <2>3, <2>4, <2>5, <2>6 DEF ItemsHaveThreads, Running
<1>9. MainFits'
  BY <1>2 DEF MainFits, Advances
<1>10. FileIsGranted'
  BY <1>3, Parts DEF FileIsGranted, Granted, Advances
<1>11. StreamsFit'
  <2>1. ASSUME NEW t \in Threads, ~th[t].isFree, th[t].pc # "exited" PROVE StreamFits(t)'
    <3>1. StreamFits(t) /\ arc'.data[th[t].item] = arc.data[th[t].item] /\ th' = th /\ mem' = mem
      BY <1>7, <2>1, Parts DEF StreamsFit, Advances
    <3> QED
      BY <3>1 DEF StreamFits, InMemory, InFile, Emptied, HoldPass, PassData
  <2>2. \A t \in Threads : ~Drained(t) /\ ~Drained(t)'
    BY <1>1 DEF Advances, Drained
  <2>3. th' = th /\ main'.pc # "drain"
    BY DEF Advances
  <2> QED
    BY <1>1, <1>2, <2>1, <2>2, <2>3, Parts DEF StreamsFit
<1>12. ASSUME NEW i \in main'.itemIndex..N
       PROVE  /\ i \in Items /\ i # main.itemIndex /\ refs'[i] = refs[i]
              /\ refs[i].defined => /\ refs[i].packSize = refs[i].total
                                    /\ \E m \in 1..NumMethods :
                                         HoldPass(refs[i].blocks, i, m, refs[i].total)'
              /\ arc'.packSize[i] = 0 /\ arc'.data[i] = <<>>
  <2>1. /\ main'.itemIndex = main.itemIndex + 1 /\ main.itemIndex >= 1 /\ N \in Nat
    BY MainFacts, Parts, ConstantProperties DEF Advances
  <2>2. i \in Items /\ i > main.itemIndex /\ i \in main.itemIndex..N /\ i # main.itemIndex
    BY <1>1, <2>1 DEF Items
  <2>3. refs'[i] = refs[i] /\ arc'.data[i] = arc.data[i] /\ arc'.packSize[i] = arc.packSize[i]
    BY <2>2 DEF Advances
  <2>4. arc.packSize[i] = 0 /\ arc.data[i] = <<>>
    BY <2>2, Parts DEF ItemsFit
  <2>5. ASSUME refs[i].defined
        PROVE  /\ refs[i].packSize = refs[i].total
               /\ \E m \in 1..NumMethods : HoldPass(refs[i].blocks, i, m, refs[i].total)'
    <3>1. refs[i].packSize = refs[i].total
      BY <1>1, <2>2, <2>5, Parts DEF ItemsFit
    <3>2. PICK m \in 1..NumMethods : HoldPass(refs[i].blocks, i, m, refs[i].total)
      BY <1>1, <2>2, <2>5, Parts DEF ItemsFit
    <3>3. HoldPass(refs[i].blocks, i, m, refs[i].total)'
      BY <2>3, <3>2 DEF HoldPass, Advances
    <3> QED
      BY <3>1, <3>3
  <2> QED
    BY <2>2, <2>3, <2>4, <2>5
<1> QED
  BY <1>2, <1>4, <1>5, <1>6, <1>8, <1>9, <1>10, <1>11, <1>12

(* The items that are done, when one more is.                              *)
LEMMA OrderGrows ==
  ASSUME IInv, main.itemIndex \in Items, arc'.order = Append(arc.order, main.itemIndex),
         main'.itemIndex = main.itemIndex + 1, \A i \in Items : refs'[i].skip = refs[i].skip
  PROVE  ItemsInOrder' /\ Range(arc'.order) = Range(arc.order) \cup {main.itemIndex}
<1> DEFINE s == arc.order
           r == Append(s, main.itemIndex)
<1>1. s \in Seq(Items) /\ main.itemIndex \in Nat /\ Len(s) \in Nat
  BY StoreFacts, MainFacts, Parts
<1>2. /\ Len(r) = Len(s) + 1 /\ r[Len(s) + 1] = main.itemIndex
      /\ \A k \in 1..Len(s) : r[k] = s[k]
      /\ DOMAIN r = 1..(Len(s) + 1) /\ DOMAIN s = 1..Len(s)
      /\ \A k \in 1..Len(s) : s[k] \in Items /\ s[k] \in Nat /\ s[k] < main.itemIndex
  <2>1. /\ Len(r) = Len(s) + 1 /\ r[Len(s) + 1] = main.itemIndex
        /\ \A k \in 1..Len(s) : r[k] = s[k]
        /\ DOMAIN r = 1..(Len(s) + 1) /\ DOMAIN s = 1..Len(s)
    BY <1>1
  <2>2. \A k \in 1..Len(s) : s[k] \in Items
    BY <1>1
  <2>3. \A k \in 1..Len(s) : s[k] < main.itemIndex
    BY Parts DEF ItemsInOrder
  <2> QED
    BY <2>1, <2>2, <2>3, ConstantProperties
<1>3. 1..(Len(s) + 1) = (1..Len(s)) \cup {Len(s) + 1}
  BY <1>1
<1> HIDE DEF r
<1>4. Range(r) = Range(s) \cup {main.itemIndex}
  BY <1>2, <1>3 DEF Range
<1>5. \A k \in 1..Len(r) : r[k] < main.itemIndex + 1
  BY <1>1, <1>2, <1>3
<1>6. ASSUME NEW j \in 1..Len(r), NEW k \in 1..Len(r), j < k PROVE r[j] < r[k]
  <2>1. j \in 1..Len(s)
    BY <1>1, <1>2, <1>6
  <2>2. CASE k = Len(s) + 1
    BY <1>2, <2>1, <2>2
  <2>3. CASE k \in 1..Len(s)
    BY <1>2, <1>6, <2>1, <2>3, Parts DEF ItemsInOrder
  <2> QED
    BY <1>2, <1>3, <2>2, <2>3
<1>7. ASSUME NEW i \in 1..main.itemIndex, ~refs'[i].skip PROVE i \in Range(r)
  <2>1. CASE i = main.itemIndex
    BY <1>4, <2>1
  <2>2. CASE i # main.itemIndex
    <3>1. i \in 1..(main.itemIndex - 1)
      BY <1>1, <2>2
    <3>2. i \in Items
      BY <1>1, <3>1, ConstantProperties DEF Items
    <3> QED
      BY <1>4, <1>7, <3>1, <3>2, Parts DEF ItemsInOrder
  <2> QED
    BY <2>1, <2>2
<1>8. arc'.order = r
  BY DEF r
<1>9. main'.itemIndex - 1 = main.itemIndex
  BY <1>1
<1> QED
  BY <1>4, <1>5, <1>6, <1>7, <1>8, <1>9 DEF ItemsInOrder

LEMMA PassSkippedKeeps == ASSUME IInv, PassSkipped PROVE IInv'
<1>1. /\ AtItem /\ refs[main.itemIndex].skip
      /\ th' = th /\ refs' = refs /\ pool' = pool /\ mem' = mem /\ arc' = arc
      /\ main' = [main EXCEPT !.itemIndex = main.itemIndex + 1]
  BY DEF PassSkipped
<1>2. /\ main.pc = "top" /\ ~InFinalPhase /\ main.itemIndex \in Items /\ main.itemIndex \in Nat
  BY <1>1, AtItemBehind
<1>3. main \in MainType /\ main.itemIndex + 1 \in 1..(N + 1)
  BY <1>2, MainFacts, Parts, ConstantProperties
<1>4. /\ main' \in MainType /\ main'.itemIndex = main.itemIndex + 1 /\ main'.pc = "top"
      /\ main'.mtItemIndex = main.mtItemIndex /\ main'.threadIndices = main.threadIndices
      /\ main'.list = main.list /\ main'.joining = main.joining /\ main'.next = main.next
  BY <1>1, <1>2, <1>3 DEF MainType
<1>5. arc.pos = None
  BY <1>1, NobodyGranted
<1>6. Advances
  BY <1>1, <1>4, <1>5, Parts DEF Advances, TypeOK
<1>7. /\ TypeOK' /\ ListFits' /\ (\A t \in Threads : Lifecycle(t)')
      /\ ItemsHaveThreads' /\ MainFits' /\ FileIsGranted' /\ StreamsFit' /\ ~InFinalPhase'
  BY <1>1, <1>6, AdvanceKeeps
<1>8. PoolIsBalanced'
  BY <1>1, <1>2, <1>4, PoolStays
<1>9. PhasesOfEnd'
  BY <1>1, <1>2, <1>4, <1>7, Parts DEF PhasesOfEnd
<1>10. ItemsInOrder'
  <2>1. arc.order \in Seq(Items)
    BY StoreFacts, Parts
  <2>2. \A k \in 1..Len(arc.order) : arc.order[k] \in Nat
    <3>1. \A k \in 1..Len(arc.order) : arc.order[k] \in Items
      BY <2>1
    <3> QED
      BY <3>1, ConstantProperties
  <2>3. \A k \in 1..Len(arc.order) : arc.order[k] < main.itemIndex + 1
    BY <1>2, <2>2, Parts DEF ItemsInOrder
  <2>4. \A i \in 1..main.itemIndex : ~refs[i].skip => i \in 1..(main.itemIndex - 1)
    BY <1>1, <1>2
  <2>5. main'.itemIndex - 1 = main.itemIndex
    BY <1>2, <1>4
  <2> QED
    BY <1>1, <1>4, <2>3, <2>4, <2>5, Parts DEF ItemsInOrder
<1>11. ItemsFit'
  BY <1>1, <1>2, <1>4, SameItems
<1>12. DataIsWhole'
  BY <1>1, Parts DEF DataIsWhole, Written
<1> QED
  BY <1>7, <1>8, <1>9, <1>10, <1>11, <1>12, PartsFitNext

LEMMA OldOrDirKeeps == ASSUME IInv, WriteOldOrDir PROVE IInv'
<1>1. /\ AtItem /\ Kind[main.itemIndex] # "new" /\ ~refs[main.itemIndex].skip
      /\ th' = th /\ refs' = refs /\ pool' = pool /\ mem' = mem
  BY DEF WriteOldOrDir
<1>2. /\ main.pc = "top" /\ ~InFinalPhase /\ main.itemIndex \in Items /\ main.itemIndex \in Nat
  BY <1>1, AtItemBehind
<1>3. (\A t \in Threads : ~Granted(t)) /\ arc.pos = None
  BY <1>1, NobodyGranted
<1>4. CASE arc' = [arc EXCEPT !.pos = None] /\ Stop("fail")
  <2>1. "fail" \in Results
    BY Names
  <2> QED
    BY <1>1, <1>2, <1>3, <1>4, <2>1, StopKeeps
<1>5. CASE /\ arc' = [arc EXCEPT !.pos = None, !.order = Append(arc.order, main.itemIndex)]
           /\ main' = [main EXCEPT !.itemIndex = main.itemIndex + 1]
  <2>1. main \in MainType /\ main.itemIndex + 1 \in 1..(N + 1)
    BY <1>2, MainFacts, Parts, ConstantProperties
  <2>2. /\ main' \in MainType /\ main'.itemIndex = main.itemIndex + 1 /\ main'.pc = "top"
        /\ main'.mtItemIndex = main.mtItemIndex /\ main'.threadIndices = main.threadIndices
        /\ main'.list = main.list /\ main'.joining = main.joining /\ main'.next = main.next
    BY <1>2, <1>5, <2>1 DEF MainType
  <2>3. /\ arc' \in ArcType /\ arc'.pos = None /\ arc'.data = arc.data
        /\ arc'.packSize = arc.packSize /\ arc'.order = Append(arc.order, main.itemIndex)
        /\ arc'.lost = arc.lost
    <3> DEFINE order == Append(arc.order, main.itemIndex)
    <3>1. arc \in ArcType /\ order \in Seq(Items) /\ None \in 0..N
      BY <1>2, StoreFacts, Parts, ConstantProperties DEF None
    <3>2. arc' = [arc EXCEPT !.pos = None, !.order = order]
      BY <1>5
    <3> HIDE DEF order
    <3>3. /\ arc' \in ArcType /\ arc'.pos = None /\ arc'.data = arc.data
          /\ arc'.packSize = arc.packSize /\ arc'.order = order /\ arc'.lost = arc.lost
      BY <3>1, <3>2 DEF ArcType
    <3> QED
      BY <3>3 DEF order
  <2>4. Advances
    BY <1>1, <2>2, <2>3, Parts DEF Advances, TypeOK
  <2>5. /\ TypeOK' /\ ListFits' /\ (\A t \in Threads : Lifecycle(t)')
        /\ ItemsHaveThreads' /\ MainFits' /\ FileIsGranted' /\ StreamsFit' /\ ~InFinalPhase'
    BY <1>1, <2>4, AdvanceKeeps
  <2>6. PoolIsBalanced'
    BY <1>1, <1>2, <2>2, PoolStays
  <2>7. PhasesOfEnd'
    BY <1>1, <1>2, <2>2, <2>5, Parts DEF PhasesOfEnd
  <2>8. ItemsInOrder' /\ Range(arc'.order) = Range(arc.order) \cup {main.itemIndex}
    BY <1>1, <1>2, <2>2, <2>3, OrderGrows
  <2>9. ItemsFit'
    BY <1>1, <1>2, <1>3, <2>2, <2>3, SameItems
  <2>10. DataIsWhole'
    <3>1. arc.data[main.itemIndex] = <<>> /\ arc.packSize[main.itemIndex] = 0
      <4>1. main.itemIndex \in main.itemIndex..N
        BY <1>2, ConstantProperties DEF Items
      <4> QED
        BY <1>2, <1>3, <4>1, Parts DEF ItemsFit
    <3>2. ASSUME NEW i \in Items, i = main.itemIndex PROVE Written(i)'
      BY <2>3, <3>1, <3>2 DEF Written
    <3>3. \A i \in Range(arc.order) : Written(i) => Written(i)'
      BY <2>3 DEF Written
    <3> QED
      BY <1>1, <1>2, <2>3, <2>8, <3>2, <3>3, DataStaysWhole
  <2> QED
    BY <2>5, <2>6, <2>7, <2>8, <2>9, <2>10, PartsFitNext
<1> QED
  BY <1>4, <1>5 DEF WriteOldOrDir

LEMMA DetachedHeaderFailsKeeps == ASSUME IInv, DetachedHeaderFails PROVE IInv'
<1>1. /\ AtItem /\ refs[main.itemIndex].defined /\ Stop("fail")
      /\ arc' = [arc EXCEPT !.pos = None]
      /\ th' = th /\ refs' = refs /\ pool' = pool /\ mem' = mem
  BY DEF DetachedHeaderFails, AtFile
<1>2. main.pc = "top" /\ ~InFinalPhase /\ (\A t \in Threads : ~Granted(t)) /\ "fail" \in Results
  BY <1>1, AtItemBehind, NobodyGranted, Names
<1> QED
  BY <1>1, <1>2, StopKeeps

LEMMA CentralDirKeeps == ASSUME IInv, WriteCentralDir PROVE IInv'
<1>1. /\ main.pc = "top" /\ th' = th /\ refs' = refs /\ pool' = pool /\ mem' = mem /\ arc' = arc
      /\ \E r \in {"ok", "fail"} : Stop(r)
  BY DEF WriteCentralDir
<1>2. ~InFinalPhase /\ {"ok", "fail"} \subseteq Results
  BY <1>1, Names DEF InFinalPhase
<1> QED
  BY <1>1, <1>2, StopKeeps

(* The item that waited in memory is written.                              *)
LEMMA DetachedFields ==
  ASSUME IInv, WriteDetached
  PROVE  LET i == main.itemIndex IN
         /\ AtItem /\ refs[i].defined /\ th' = th /\ pool' = pool /\ mem' = mem
         /\ arc' \in ArcType /\ arc'.pos = None /\ arc'.order = Append(arc.order, i)
         /\ arc'.lost = arc.lost \/ (arc.lost = None /\ arc'.lost = i)
         /\ arc'.lost = None => Len(arc'.data[i]) = arc'.packSize[i]
         /\ \A j \in Items : j # i =>
              arc'.data[j] = arc.data[j] /\ arc'.packSize[j] = arc.packSize[j]
         /\ main' \in MainType /\ main'.itemIndex = i + 1 /\ main'.pc = "free"
         /\ main'.list = Range(refs[i].blocks) /\ main'.next = "top"
         /\ main'.mtItemIndex = main.mtItemIndex /\ main'.threadIndices = main.threadIndices
         /\ main'.joining = main.joining
         /\ refs' \in [Items -> RefType] /\ refs'[i].blocks = <<>>
         /\ refs'[i].skip = refs[i].skip /\ refs'[i].defined = refs[i].defined
         /\ \A j \in Items : j # i => refs'[j] = refs[j]
<1> DEFINE i == main.itemIndex
           chunks == Contents(refs[i].blocks, refs[i].total)
<1>1. /\ AtItem /\ refs[i].defined /\ th' = th /\ pool' = pool /\ mem' = mem
      /\ refs' = [refs EXCEPT ![i].blocks = <<>>, ![i].total = 0]
      /\ main' = [main EXCEPT !.lastReal = i, !.itemIndex = i + 1, !.pc = "free",
                              !.list = Range(refs[i].blocks), !.next = "top"]
  BY DEF WriteDetached, AtFile
<1>2. i \in Items /\ i \in Nat /\ ~InFinalPhase
  BY <1>1, AtItemBehind
<1>3. /\ TypeOK /\ main \in MainType /\ refs \in [Items -> RefType] /\ arc \in ArcType
      /\ i \in 0..N /\ i + 1 \in 1..(N + 1) /\ None \in 0..N /\ 0 \in 0..MaxChunks
      /\ "free" \in MainPcs
  BY <1>2, Parts, ConstantProperties, Names DEF TypeOK, None
<1>4. /\ refs[i].blocks \in Seq(Blocks) /\ refs[i].total \in Nat
      /\ refs[i].packSize \in 0..MaxChunks
  BY <1>2, <1>3, RefFacts, ConstantProperties
<1>5. chunks \in Seq(Stored)
  <2>1. i \in i..N
    BY <1>2, ConstantProperties DEF Items
  <2>2. refs[i].total <= Len(refs[i].blocks)
    BY <1>1, <1>2, <2>1, Parts DEF ItemsFit, HoldPass
  <2> QED
    BY <1>3, <1>4, <2>2, ContentsType
<1>6. PICK n \in 0..Len(chunks) :
        arc' = [arc EXCEPT !.data[i] = SubSeq(chunks, 1, n), !.pos = None,
                           !.order = Append(arc.order, i), !.packSize[i] = refs[i].packSize,
                           !.lost = IF n < Len(chunks) /\ arc.lost = None THEN i ELSE arc.lost]
  <2>1. PICK n \in IF FileFaults THEN 0..Len(chunks) ELSE {Len(chunks)} :
          arc' = [arc EXCEPT !.data[i] = SubSeq(chunks, 1, n), !.pos = None,
                             !.order = Append(arc.order, i), !.packSize[i] = refs[i].packSize,
                             !.lost = IF n < Len(chunks) /\ arc.lost = None THEN i ELSE arc.lost]
    BY DEF WriteDetached
  <2>2. n \in 0..Len(chunks)
    BY <1>5
  <2> QED
    BY <2>1, <2>2
<1> HIDE DEF chunks
<1>7. SubSeq(chunks, 1, n) \in Seq(Stored)
  BY <1>5, <1>6, SubSeqProperties
<1>8. /\ arc' \in ArcType /\ arc'.pos = None /\ arc'.order = Append(arc.order, i)
      /\ arc'.data[i] = SubSeq(chunks, 1, n) /\ arc'.packSize[i] = refs[i].packSize
      /\ arc'.lost = IF n < Len(chunks) /\ arc.lost = None THEN i ELSE arc.lost
      /\ \A j \in Items : j # i =>
           arc'.data[j] = arc.data[j] /\ arc'.packSize[j] = arc.packSize[j]
  <2> DEFINE data == [arc.data EXCEPT ![i] = SubSeq(chunks, 1, n)]
             order == Append(arc.order, i)
             sizes == [arc.packSize EXCEPT ![i] = refs[i].packSize]
             lost == IF n < Len(chunks) /\ arc.lost = None THEN i ELSE arc.lost
  <2>1. /\ data \in [Items -> Seq(Stored)] /\ order \in Seq(Items)
        /\ sizes \in [Items -> 0..MaxChunks] /\ lost \in 0..N
        /\ data[i] = SubSeq(chunks, 1, n) /\ sizes[i] = refs[i].packSize
    <3>1. i \in 0..N /\ arc.lost \in 0..N
      BY <1>2, <1>3, StoreFacts, ConstantProperties
    <3>2. lost \in 0..N
      BY <3>1
    <3> HIDE DEF lost
    <3> QED
      BY <1>2, <1>3, <1>4, <1>7, <3>2, StoreFacts
  <2>2. arc' = [arc EXCEPT !.data = data, !.pos = None, !.order = order, !.packSize = sizes,
                           !.lost = lost]
    BY <1>6
  <2>3. \A j \in Items : j # i => data[j] = arc.data[j] /\ sizes[j] = arc.packSize[j]
    BY <1>3, StoreFacts
  <2> HIDE DEF data, order, sizes, lost
  <2>4. /\ arc' \in ArcType /\ arc'.pos = None /\ arc'.order = order
        /\ arc'.data = data /\ arc'.packSize = sizes /\ arc'.lost = lost
    BY <1>3, <2>1, <2>2 DEF ArcType
  <2> QED
    BY <2>1, <2>3, <2>4 DEF order, lost
<1>9. /\ main' \in MainType /\ main'.itemIndex = i + 1 /\ main'.pc = "free"
      /\ main'.list = Range(refs[i].blocks) /\ main'.next = "top"
      /\ main'.mtItemIndex = main.mtItemIndex /\ main'.threadIndices = main.threadIndices
      /\ main'.joining = main.joining
  <2>1. Range(refs[i].blocks) \in SUBSET Blocks
    BY <1>4 DEF Range
  <2> DEFINE list == Range(refs[i].blocks)
  <2>2. /\ list \in SUBSET Blocks
        /\ main' = [main EXCEPT !.lastReal = i, !.itemIndex = i + 1, !.pc = "free",
                                !.list = list, !.next = "top"]
    BY <1>1, <2>1
  <2> HIDE DEF list
  <2>3. /\ main' \in MainType /\ main'.itemIndex = i + 1 /\ main'.pc = "free"
        /\ main'.list = list /\ main'.next = "top"
        /\ main'.mtItemIndex = main.mtItemIndex /\ main'.threadIndices = main.threadIndices
        /\ main'.joining = main.joining
    BY <1>3, <2>2 DEF MainType
  <2> QED
    BY <2>3 DEF list
<1>10. /\ refs' \in [Items -> RefType] /\ refs'[i].blocks = <<>>
       /\ refs'[i].skip = refs[i].skip /\ refs'[i].defined = refs[i].defined
       /\ \A j \in Items : j # i => refs'[j] = refs[j]
  <2>1. <<>> \in Seq(Blocks)
    OBVIOUS
  <2> QED
    BY <1>1, <1>2, <1>3, <2>1 DEF RefType
<1>11. arc'.lost = None => Len(arc'.data[i]) = arc'.packSize[i]
  <2>1. i \in i..N
    BY <1>2, ConstantProperties DEF Items
  <2>2. refs[i].packSize = refs[i].total
    BY <1>1, <1>2, <2>1, Parts DEF ItemsFit
  <2>3. Len(chunks) = refs[i].total
    BY <1>4 DEF chunks, Contents
  <2>4. Len(SubSeq(chunks, 1, n)) = n
    BY <1>5, <1>6, SubSeqProperties
  <2>5. i # None /\ (n < Len(chunks) \/ n = Len(chunks))
    <3>1. i # None /\ Len(chunks) \in Nat
      BY <1>2, <1>4, <2>3, ConstantProperties
    <3> QED
      BY <1>6, <3>1
  <2> QED
    BY <1>8, <2>2, <2>3, <2>4, <2>5
<1>12. arc'.lost = arc.lost \/ (arc.lost = None /\ arc'.lost = i)
  BY <1>8
<1> QED
  BY <1>1, <1>8, <1>9, <1>10, <1>11, <1>12

LEMMA WriteDetachedKeeps == ASSUME IInv, WriteDetached PROVE IInv'
<1>0. PICK i \in Items : i = main.itemIndex
  BY AtItemBehind DEF WriteDetached, AtFile
<1>1. /\ AtItem /\ refs[i].defined /\ th' = th /\ pool' = pool /\ mem' = mem
      /\ arc' \in ArcType /\ arc'.pos = None /\ arc'.order = Append(arc.order, i)
      /\ arc'.lost = arc.lost \/ (arc.lost = None /\ arc'.lost = i)
      /\ arc'.lost = None => Len(arc'.data[i]) = arc'.packSize[i]
      /\ \A j \in Items : j # i =>
           arc'.data[j] = arc.data[j] /\ arc'.packSize[j] = arc.packSize[j]
      /\ main' \in MainType /\ main'.itemIndex = i + 1 /\ main'.pc = "free"
      /\ main'.list = Range(refs[i].blocks) /\ main'.next = "top"
      /\ main'.mtItemIndex = main.mtItemIndex /\ main'.threadIndices = main.threadIndices
      /\ main'.joining = main.joining
      /\ refs' \in [Items -> RefType] /\ refs'[i].blocks = <<>>
      /\ refs'[i].skip = refs[i].skip /\ refs'[i].defined = refs[i].defined
      /\ \A j \in Items : j # i => refs'[j] = refs[j]
  BY <1>0, DetachedFields
<1>2. /\ main.pc = "top" /\ ~InFinalPhase /\ i \in Items /\ i \in Nat
  BY <1>0, <1>1, AtItemBehind
<1>3. Advances
  BY <1>0, <1>1, <1>2 DEF Advances
<1>4. /\ TypeOK' /\ ListFits' /\ (\A t \in Threads : Lifecycle(t)')
      /\ ItemsHaveThreads' /\ MainFits' /\ FileIsGranted' /\ StreamsFit' /\ ~InFinalPhase'
      /\ \A j \in (i + 1)..N :
           /\ j \in Items /\ j # i /\ refs'[j] = refs[j]
           /\ refs[j].defined => /\ refs[j].packSize = refs[j].total
                                 /\ \E m \in 1..NumMethods :
                                      HoldPass(refs[j].blocks, j, m, refs[j].total)'
           /\ arc'.packSize[j] = 0 /\ arc'.data[j] = <<>>
  BY <1>0, <1>1, <1>3, AdvanceKeeps
<1>5. ItemsInOrder' /\ Range(arc'.order) = Range(arc.order) \cup {i}
  <2>1. \A j \in Items : refs'[j].skip = refs[j].skip
    BY <1>1
  <2> QED
    BY <1>0, <1>1, <1>2, <2>1, OrderGrows
<1>6. main.list = {}
  BY <1>2, Parts DEF PhasesOfEnd
<1>7. BlocksAreOwned'
  <2>1. /\ <<3, i>> \in Owners /\ <<1, 0>> \in Owners /\ <<3, i>> # <<1, 0>>
    BY <1>2, OwnerCases
  <2> DEFINE B == Range(refs[i].blocks)
  <2>2. B \subseteq BlocksOf(<<3, i>>)
    BY <1>2, OwnersHave
  <2>3. BlocksOf(<<3, i>>)' = BlocksOf(<<3, i>>) \ B
    <3>1. Range(refs'[i].blocks) = {}
      BY <1>1 DEF Range
    <3> QED
      BY <1>2, <3>1, OwnersHave
  <2>4. BlocksOf(<<1, 0>>)' = BlocksOf(<<1, 0>>) \cup B
    BY <1>1, <1>6, OwnersHave
  <2>5. ASSUME NEW o \in Owners, o # <<3, i>>, o # <<1, 0>>
        PROVE  BlocksOf(o)' = BlocksOf(o)
    <3>1. CASE o = <<0, 0>>
      BY <1>1, <3>1, OwnersHave
    <3>2. ASSUME NEW t \in Threads, o = <<2, t>> PROVE BlocksOf(o)' = BlocksOf(o)
      BY <1>1, <3>2, OwnersHave
    <3>3. ASSUME NEW j \in Items, o = <<3, j>> PROVE BlocksOf(o)' = BlocksOf(o)
      <4>1. refs'[j] = refs[j]
        BY <1>1, <2>5, <3>3
      <4> QED
        BY <3>3, <4>1, OwnersHave
    <3> QED
      BY <2>5, <3>1, <3>2, <3>3, OwnerCases
  <2>6. \A t \in Threads : IsInjective(th'[t].blocks)
    BY <1>1, Parts DEF BlocksAreOwned
  <2>7. \A j \in Items : IsInjective(refs'[j].blocks)
    <3>1. IsInjective(refs'[i].blocks)
      BY <1>1 DEF IsInjective
    <3> QED
      BY <1>1, <3>1, Parts DEF BlocksAreOwned
  <2> HIDE DEF B
  <2> QED
    BY <2>1, <2>2, <2>3, <2>4, <2>5, <2>6, <2>7, Parts, MoveBlocks
<1>8. PoolIsBalanced'
  <2>1. Promised' = Promised
    BY <1>1 DEF Promised
  <2>2. SemaphoreCounts'
    BY <1>1, <1>2, <2>1, Parts DEF SemaphoreCounts
  <2> QED
    BY <1>1, <1>7, <2>2 DEF PoolIsBalanced
<1>9. PhasesOfEnd'
  BY <1>1, <1>2, <1>4, Parts DEF PhasesOfEnd
<1>10. ItemsFit'
  <2>1. \A j \in Items : ~refs'[j].defined => refs'[j].blocks = <<>>
    BY <1>1, Parts DEF ItemsFit
  <2> QED
    BY <1>1, <1>4, <2>1 DEF ItemsFit
<1>11. DataIsWhole'
  <2>1. CASE arc'.lost = i
    BY <1>1, <1>2, <1>5, <2>1, ConstantProperties DEF DataIsWhole
  <2>2. CASE arc'.lost = arc.lost /\ arc.lost # None
    <3>1. arc.lost \in Range(arc.order) /\ refs[arc.lost].defined
      BY <2>2, Parts DEF DataIsWhole
    <3>2. refs'[arc.lost].defined
      BY <1>1, <3>1, WrittenItems
    <3> QED
      BY <1>5, <2>2, <3>1, <3>2 DEF DataIsWhole
  <2>3. CASE arc'.lost = arc.lost /\ arc.lost = None
    <3>1. \A j \in Range(arc.order) : Written(j) => Written(j)'
      BY <1>0, <1>1, WrittenItems DEF Written
    <3>2. Written(i)'
      BY <1>1, <2>3 DEF Written
    <3>3. \A j \in Items : refs[j].defined => refs'[j].defined
      BY <1>1
    <3> QED
      BY <1>5, <2>3, <3>1, <3>2, <3>3, DataStaysWhole
  <2> QED
    BY <1>1, <2>1, <2>2, <2>3
<1> QED
  BY <1>4, <1>5, <1>8, <1>9, <1>10, <1>11, PartsFitNext

(* What a stream holds depends on these fields only.                       *)
SameWork(t) ==
  /\ th'[t].pc = th[t].pc /\ th'[t].compressEvent = th[t].compressEvent
  /\ th'[t].exitThread = th[t].exitThread /\ th'[t].realMode = th[t].realMode
  /\ th'[t].item = th[t].item /\ th'[t].blocks = th[t].blocks
  /\ th'[t].total = th[t].total /\ th'[t].pass = th[t].pass
  /\ th'[t].made = th[t].made /\ th'[t].result = th[t].result

LEMMA SameWorkFits ==
  ASSUME NEW t \in Threads, SameWork(t), mem' = mem,
         arc'.data[th[t].item] = arc.data[th[t].item]
  PROVE  (StreamFits(t)' <=> StreamFits(t)) /\ (InFile(t)' <=> InFile(t))
<1>1. InMemory(t)' <=> InMemory(t)
  BY DEF SameWork, InMemory, HoldPass
<1>2. InFile(t)' <=> InFile(t)
  BY DEF SameWork, InFile, PassData
<1>3. Emptied(t)' <=> Emptied(t)
  BY DEF SameWork, Emptied
<1> QED
  BY <1>1, <1>2, <1>3 DEF SameWork, StreamFits

(* The front thread is let at the file.                                    *)
LEMMA GrantFields ==
  ASSUME IInv, GrantFront, NEW i \in Items, i = main.itemIndex,
         NEW f \in Threads, f = main.threadIndices[1], th[f].item = i, ~th[f].isFree
  PROVE  /\ th' \in [Threads -> ThreadType] /\ \A t \in Threads : t # f => th'[t] = th[t]
         /\ th'[f].unlockSent /\ th'[f].region = i
         /\ th'[f].pc = th[f].pc /\ th'[f].compressEvent = th[f].compressEvent
         /\ th'[f].completedEvent = th[f].completedEvent
         /\ th'[f].exitThread = th[f].exitThread /\ th'[f].stopEvent = th[f].stopEvent
         /\ th'[f].realMode = th[f].realMode /\ th'[f].isFree = th[f].isFree
         /\ th'[f].item = th[f].item /\ th'[f].blocks = th[f].blocks
         /\ th'[f].total = th[f].total /\ th'[f].pass = th[f].pass
         /\ th'[f].made = th[f].made /\ th'[f].result = th[f].result
         /\ arc' \in ArcType /\ arc'.pos = i /\ arc'.order = arc.order
         /\ arc'.data = arc.data /\ arc'.packSize = arc.packSize /\ arc'.lost = arc.lost
<1>1. th \in [Threads -> ThreadType] /\ th[f] \in ThreadType /\ arc \in ArcType /\ i \in 0..N
  BY Parts, ConstantProperties DEF TypeOK
<1>2. CASE th[f].unlockSent
  <2>1. th' = th /\ arc' = arc
    BY <1>2 DEF GrantFront
  <2>2. Granted(f)
    BY <1>2 DEF Granted
  <2>3. th[f].region = i /\ arc.pos = i
    BY <2>2, Parts DEF FileIsGranted
  <2> QED
    BY <1>1, <1>2, <2>1, <2>3
<1>3. CASE ~th[f].unlockSent
  <2>1. /\ arc' = [arc EXCEPT !.pos = i]
        /\ th' = [th EXCEPT ![f].region = i, ![f].unlockSent = TRUE, ![f].realEvent = TRUE]
    BY <1>3 DEF GrantFront
  <2>2. th'[f] \in ThreadType
    BY <1>1, <2>1 DEF ThreadType
  <2>3. th' \in [Threads -> ThreadType]
    BY <1>1, <2>1, <2>2
  <2>4. /\ arc' \in ArcType /\ arc'.pos = i /\ arc'.order = arc.order
        /\ arc'.data = arc.data /\ arc'.packSize = arc.packSize /\ arc'.lost = arc.lost
    BY <1>1, <2>1 DEF ArcType
  <2>5. /\ \A t \in Threads : t # f => th'[t] = th[t]
        /\ th'[f].unlockSent /\ th'[f].region = i
        /\ th'[f].pc = th[f].pc /\ th'[f].compressEvent = th[f].compressEvent
        /\ th'[f].completedEvent = th[f].completedEvent
        /\ th'[f].exitThread = th[f].exitThread /\ th'[f].stopEvent = th[f].stopEvent
        /\ th'[f].realMode = th[f].realMode /\ th'[f].isFree = th[f].isFree
        /\ th'[f].item = th[f].item /\ th'[f].blocks = th[f].blocks
        /\ th'[f].total = th[f].total /\ th'[f].pass = th[f].pass
        /\ th'[f].made = th[f].made /\ th'[f].result = th[f].result
    BY <1>1, <2>1 DEF ThreadType
  <2> QED
    BY <2>3, <2>4, <2>5
<1> QED
  BY <1>2, <1>3

LEMMA GrantKeeps == ASSUME IInv, GrantFront PROVE IInv'
<1>1. /\ AtItem /\ AtFile /\ ~refs[main.itemIndex].skip /\ ~refs[main.itemIndex].defined
      /\ refs' = refs /\ pool' = pool /\ mem' = mem
      /\ main' = [main EXCEPT !.lastReal = main.itemIndex, !.pc = "await"]
      /\ Kind[main.itemIndex] = "new"
  BY DEF GrantFront, AtFile
<1>2. PICK i \in Items : i = main.itemIndex
  BY <1>1, AtItemBehind
<1>3. /\ main.pc = "top" /\ ~InFinalPhase /\ ~Finishing /\ ~AtStream /\ i \in Nat
      /\ FirstItem = i /\ EndItem = main.mtItemIndex
  BY <1>1, <1>2, AtItemBehind
<1>4. PICK f \in Threads : f = main.threadIndices[1] /\ ~th[f].isFree /\ th[f].item = i
  <2> DEFINE ti == main.threadIndices
  <2>1. ti \in Seq(Threads) /\ ti # <<>> /\ th[ti[1]].item = i
    BY <1>1, <1>2, <1>3, MainFacts, Parts DEF IInv, FrontIsNext
  <2>2. ti[1] \in Threads /\ ti[1] \in Range(ti)
    BY <2>1 DEF Range
  <2>3. ~th[ti[1]].isFree
    BY <1>3, <2>2, Parts DEF ListFits
  <2> QED
    BY <2>1, <2>2, <2>3
<1>5. /\ th' \in [Threads -> ThreadType] /\ \A t \in Threads : t # f => th'[t] = th[t]
      /\ th'[f].unlockSent /\ th'[f].region = i
      /\ th'[f].pc = th[f].pc /\ th'[f].compressEvent = th[f].compressEvent
      /\ th'[f].completedEvent = th[f].completedEvent
      /\ th'[f].exitThread = th[f].exitThread /\ th'[f].stopEvent = th[f].stopEvent
      /\ th'[f].realMode = th[f].realMode /\ th'[f].isFree = th[f].isFree
      /\ th'[f].item = th[f].item /\ th'[f].blocks = th[f].blocks
      /\ th'[f].total = th[f].total /\ th'[f].pass = th[f].pass
      /\ th'[f].made = th[f].made /\ th'[f].result = th[f].result
      /\ arc' \in ArcType /\ arc'.pos = i /\ arc'.order = arc.order
      /\ arc'.data = arc.data /\ arc'.packSize = arc.packSize /\ arc'.lost = arc.lost
  BY <1>2, <1>4, GrantFields
<1>6. /\ main' \in MainType /\ main'.pc = "await" /\ main'.lastReal = i
      /\ main'.mtItemIndex = main.mtItemIndex /\ main'.itemIndex = i
      /\ main'.threadIndices = main.threadIndices /\ main'.thread = main.thread
      /\ main'.list = main.list /\ main'.next = main.next /\ main'.joining = main.joining
  <2>1. main \in MainType /\ i \in 0..N /\ "await" \in MainPcs
    BY MainFacts, Parts, ConstantProperties, Names
  <2> QED
    BY <1>1, <1>2, <2>1 DEF MainType
<1>7. /\ ~InFinalPhase' /\ ~Finishing' /\ ~AtStream' /\ FirstItem' = FirstItem
      /\ EndItem' = EndItem
  BY <1>2, <1>3, <1>6 DEF InFinalPhase, Finishing, AtStream, FirstItem, EndItem
<1>8. \A t \in Threads :
        /\ th'[t].pc = th[t].pc /\ th'[t].compressEvent = th[t].compressEvent
        /\ th'[t].completedEvent = th[t].completedEvent
        /\ th'[t].exitThread = th[t].exitThread /\ th'[t].stopEvent = th[t].stopEvent
        /\ th'[t].realMode = th[t].realMode /\ th'[t].isFree = th[t].isFree
        /\ th'[t].item = th[t].item /\ th'[t].blocks = th[t].blocks
        /\ th'[t].total = th[t].total /\ th'[t].pass = th[t].pass
        /\ th'[t].made = th[t].made /\ th'[t].result = th[t].result
  BY <1>5
<1>9. TypeOK'
  BY <1>1, <1>5, <1>6, Parts DEF TypeOK
<1>10. ListFits'
  <2>1. \A k \in 1..Len(main.threadIndices) : main.threadIndices[k] \in Threads
    <3>1. main.threadIndices \in Seq(Threads)
      BY MainFacts, Parts
    <3> QED
      BY <3>1
  <2> QED
    BY <1>3, <1>6, <1>8, <2>1, Parts DEF ListFits
<1>11. PoolIsBalanced'
  BY <1>1, <1>3, <1>6, <1>8, PoolStays
<1>12. \A t \in Threads : Lifecycle(t)'
  BY <1>3, <1>6, <1>7, <1>8, Parts DEF Lifecycle
<1>13. PhasesOfEnd'
  BY <1>1, <1>3, <1>6, <1>7, Parts DEF PhasesOfEnd
<1>14. ItemsHaveThreads'
  <2>1. \A t \in Threads, j \in Items : Running(t, j)' <=> Running(t, j)
    BY <1>8 DEF Running
  <2>2. /\ \A t \in Threads : ~th'[t].isFree => th'[t].item \in Items
        /\ \A t, u \in Threads : ~th'[t].isFree /\ Running(u, th[t].item)' => t = u
    BY <1>8, Parts DEF ItemsHaveThreads, Running
  <2>3. \A t \in Threads : ~th'[t].isFree =>
            /\ th'[t].item \in FirstItem..(EndItem - 1) /\ Kind[th'[t].item] = "new"
            /\ ~refs[th'[t].item].skip /\ ~refs[th'[t].item].defined
    BY <1>3, <1>8, Parts DEF ItemsHaveThreads
  <2>4. \A j \in FirstItem..(EndItem - 1) :
            Kind[j] = "new" => \/ refs[j].skip \/ refs[j].defined
                               \/ \E t \in Threads : Running(t, j)'
    BY <1>3, <1>8, Parts DEF ItemsHaveThreads, Running
  <2>5. /\ i <= EndItem
        /\ \A j \in Items :
            /\ refs[j].skip \/ refs[j].defined => Kind[j] = "new" /\ j < EndItem
            /\ refs[j].skip => MaySkip /\ ~refs[j].defined
    BY <1>2, <1>3, Parts DEF ItemsHaveThreads
  <2> QED
    BY <1>1, <1>6, <1>7, <1>8, <2>2, <2>3, <2>4, <2>5 DEF ItemsHaveThreads, Running
<1>15. MainFits'
  <2>1. main.threadIndices # <<>> /\ i <= N
    BY <1>1, <1>2, ConstantProperties DEF GrantFront, Items
  <2>2. f = main'.threadIndices[1] /\ th'[f].item = i /\ th'[f].unlockSent
    BY <1>4, <1>5, <1>6
  <2> QED
    BY <1>6, <1>7, <2>1, <2>2 DEF MainFits
<1>16. FileIsGranted'
  <2>1. \A t \in Threads : Granted(t)' => t = f
    <3>1. ASSUME NEW t \in Threads, t # f, Granted(t)' PROVE FALSE
      <4>1. Granted(t)
        BY <1>5, <3>1 DEF Granted
      <4>2. th[t].item = i /\ ~th[t].isFree
        BY <1>2, <4>1, Parts DEF FileIsGranted, Granted
      <4> QED
        BY <1>4, <3>1, <4>2, Parts DEF ItemsHaveThreads, Running
    <3> QED
      BY <3>1
  <2>2. Granted(f)'
    BY <1>4, <1>5 DEF Granted
  <2>3. \A t \in Threads : th'[t].realEvent \/ th'[t].realMode => th'[t].unlockSent
    BY <1>5, Parts DEF FileIsGranted
  <2> QED
    BY <1>4, <1>5, <1>6, <2>1, <2>2, <2>3 DEF FileIsGranted
<1>17. ItemsInOrder'
  BY <1>1, <1>2, <1>5, <1>6, Parts DEF ItemsInOrder
<1>18. StreamsFit'
  <2>1. \A t \in Threads : StreamFits(t) => StreamFits(t)'
    BY <1>1, <1>5, <1>8, SameWorkFits DEF SameWork
  <2> QED
    BY <1>3, <1>6, <1>7, <1>8, <2>1, Parts DEF StreamsFit, Drained
<1>19. ItemsFit'
  BY <1>1, <1>2, <1>3, <1>5, <1>6, <1>7, ConstantProperties, SameItems
<1>20. DataIsWhole'
  BY <1>1, <1>5, DataStaysWhole DEF Written
<1> QED
  BY <1>9, <1>10, <1>11, <1>12, <1>13, <1>14, <1>15, <1>16, <1>17, <1>18, <1>19, <1>20, PartsFitNext

(* A thread that has finished leaves the list of running threads.          *)
LEMMA RemoveOne ==
  ASSUME NEW s \in Seq(Threads), NEW k \in 1..Len(s)
  PROVE  /\ RemoveAt(s, k) \in Seq(Threads) /\ Len(RemoveAt(s, k)) = Len(s) - 1
         /\ \A j \in 1..(Len(s) - 1) : RemoveAt(s, k)[j] = IF j < k THEN s[j] ELSE s[j + 1]
<1> DEFINE a == SubSeq(s, 1, k - 1)
           b == SubSeq(s, k + 1, Len(s))
<1>1. k \in Nat /\ Len(s) \in Nat /\ k >= 1 /\ k <= Len(s)
  OBVIOUS
<1>2. a \in Seq(Threads) /\ Len(a) = k - 1 /\ \A j \in 1..(k - 1) : a[j] = s[j]
  BY <1>1, SubSeqProperties
<1>3. b \in Seq(Threads) /\ Len(b) = Len(s) - k /\ \A j \in 1..(Len(s) - k) : b[j] = s[k + j]
  <2>1. b \in Seq(Threads)
    <3>1. \A j \in (k + 1)..Len(s) : s[j] \in Threads
      BY <1>1
    <3> QED
      BY <1>1, <3>1
  <2>2. Len(b) = Len(s) - k
    BY <1>1
  <2>3. ASSUME NEW j \in 1..(Len(s) - k) PROVE b[j] = s[k + j]
    BY <1>1, <2>3
  <2> QED
    BY <2>1, <2>2, <2>3
<1> DEFINE r == a \o b
<1>4. /\ r \in Seq(Threads) /\ Len(r) = Len(a) + Len(b)
      /\ \A j \in 1..(Len(a) + Len(b)) : r[j] = IF j <= Len(a) THEN a[j] ELSE b[j - Len(a)]
  BY <1>2, <1>3, ConcatProperties
<1>5. RemoveAt(s, k) = r
  BY DEF RemoveAt
<1> HIDE DEF a, b, r
<1>6. ASSUME NEW j \in 1..(Len(s) - 1) PROVE r[j] = IF j < k THEN s[j] ELSE s[j + 1]
  <2>1. j \in 1..(Len(a) + Len(b)) /\ j \in Nat
    BY <1>1, <1>2, <1>3, <1>6
  <2>2. CASE j < k
    <3>1. j \in 1..(k - 1)
      BY <1>1, <2>1, <2>2
    <3> QED
      BY <1>1, <1>2, <1>4, <2>1, <2>2, <3>1
  <2>3. CASE ~(j < k)
    <3>1. j - (k - 1) \in 1..(Len(s) - k) /\ k + (j - (k - 1)) = j + 1
      BY <1>1, <1>6, <2>3
    <3>2. r[j] = b[j - (k - 1)]
      BY <1>1, <1>2, <1>4, <2>1, <2>3
    <3> QED
      BY <1>3, <2>3, <3>1, <3>2
  <2> QED
    BY <2>2, <2>3
<1>7. Len(r) = Len(s) - 1
  BY <1>1, <1>2, <1>3, <1>4
<1> QED
  BY <1>4, <1>5, <1>6, <1>7

LEMMA ListShrinks ==
  ASSUME IInv, ~InFinalPhase, NEW k \in 1..Len(main.threadIndices),
         NEW t \in Threads, t = main.threadIndices[k],
         main'.threadIndices \in Seq(Threads),
         Len(main'.threadIndices) = Len(main.threadIndices) - 1,
         \A j \in 1..(Len(main.threadIndices) - 1) :
           main'.threadIndices[j] = IF j < k THEN main.threadIndices[j]
                                    ELSE main.threadIndices[j + 1],
         \A u \in Threads : th'[u].item = th[u].item,
         \A u \in Threads : u # t => th'[u].isFree = th[u].isFree, th'[t].isFree
  PROVE  ListFits'
<1> DEFINE s == main.threadIndices
           r == main'.threadIndices
<1>1. s \in Seq(Threads) /\ Len(s) \in Nat /\ k \in Nat /\ k >= 1 /\ k <= Len(s)
  BY MainFacts, Parts
<1>2. \A j \in 1..Len(s) : s[j] \in Threads /\ th[s[j]].item \in Nat
  <2>1. \A j \in 1..Len(s) : s[j] \in Threads
    BY <1>1
  <2>2. \A u \in Threads : th[u].item \in Nat
    BY Parts, ThreadFacts, ConstantProperties
  <2> QED
    BY <2>1, <2>2
<1>3. \A i, j \in 1..Len(s) : i < j => th[s[i]].item < th[s[j]].item
  BY Parts DEF ListFits
<1>4. \A i, j \in 1..Len(s) : i # j => s[i] # s[j]
  <2>1. SUFFICES ASSUME NEW i \in 1..Len(s), NEW j \in 1..Len(s), i # j, s[i] = s[j]
                 PROVE  FALSE
    OBVIOUS
  <2>2. i < j \/ j < i
    BY <2>1
  <2>3. th[s[i]].item < th[s[i]].item
    BY <1>3, <2>1, <2>2
  <2> QED
    BY <1>2, <2>3
<1>5. ASSUME NEW i \in 1..Len(r), NEW j \in 1..Len(r), i < j
      PROVE  th'[r[i]].item < th'[r[j]].item
  <2> DEFINE x == IF i < k THEN i ELSE i + 1
             y == IF j < k THEN j ELSE j + 1
  <2>1. x \in 1..Len(s) /\ y \in 1..Len(s) /\ x < y
    BY <1>1, <1>5
  <2>2. i \in 1..(Len(s) - 1) /\ j \in 1..(Len(s) - 1)
    BY <1>1, <1>5
  <2>3. r[i] = s[x] /\ r[j] = s[y]
    BY <2>2
  <2> HIDE DEF x, y
  <2>4. th[s[x]].item < th[s[y]].item /\ s[x] \in Threads /\ s[y] \in Threads
    BY <1>2, <1>3, <2>1
  <2> QED
    BY <2>3, <2>4
<1>6. ASSUME NEW u \in Threads PROVE (u \in Range(r)) = ~th'[u].isFree
  <2>1. (u \in Range(s)) = ~th[u].isFree
    BY Parts DEF ListFits
  <2>2. DOMAIN r = 1..(Len(s) - 1) /\ DOMAIN s = 1..Len(s)
    BY <1>1
  <2>3. ASSUME u \in Range(r) PROVE u \in Range(s) /\ u # t
    <3>1. PICK j \in 1..(Len(s) - 1) : r[j] = u
      BY <2>2, <2>3 DEF Range
    <3> DEFINE x == IF j < k THEN j ELSE j + 1
    <3>2. x \in 1..Len(s) /\ x # k /\ r[j] = s[x]
      BY <1>1, <3>1
    <3> HIDE DEF x
    <3> QED
      BY <1>4, <2>2, <3>1, <3>2 DEF Range
  <2>4. ASSUME u \in Range(s), u # t PROVE u \in Range(r)
    <3>1. PICK j \in 1..Len(s) : s[j] = u
      BY <2>2, <2>4 DEF Range
    <3>2. j # k
      BY <2>4, <3>1
    <3> DEFINE x == IF j < k THEN j ELSE j - 1
    <3>3. x \in 1..(Len(s) - 1) /\ r[x] = s[j]
      <4>1. CASE j < k
        BY <1>1, <3>1, <4>1
      <4>2. CASE ~(j < k)
        <5>1. j - 1 \in 1..(Len(s) - 1) /\ ~(j - 1 < k) /\ (j - 1) + 1 = j
          BY <1>1, <3>1, <3>2, <4>2
        <5> QED
          BY <4>2, <5>1
      <4> QED
        BY <4>1, <4>2
    <3> HIDE DEF x
    <3> QED
      BY <2>2, <3>1, <3>3 DEF Range
  <2>5. th'[u].isFree \in BOOLEAN
    BY <2>1, ThreadFacts, Parts
  <2>6. CASE u = t
    BY <2>3, <2>6
  <2>7. CASE u # t
    BY <2>1, <2>3, <2>4, <2>7
  <2> QED
    BY <2>6, <2>7
<1> QED
  BY <1>5, <1>6 DEF ListFits

(* A thread whose completion Update2 saw.                                  *)
LEMMA CompletedThread ==
  ASSUME IInv, main.pc = "await", NEW k \in 1..Len(main.threadIndices), Completed(k),
         NEW t \in Threads, t = main.threadIndices[k]
  PROVE  /\ ~InFinalPhase /\ ~Finishing /\ ~AtStream /\ FirstItem = main.itemIndex
         /\ EndItem = main.mtItemIndex /\ main.list = {}
         /\ ~th[t].isFree /\ th[t].pc = "wait" /\ ~th[t].compressEvent /\ StreamFits(t)
         /\ th[t].item \in Items /\ Kind[th[t].item] = "new" /\ th[t].item < EndItem
         /\ th[t].item >= main.itemIndex /\ ~refs[th[t].item].skip
         /\ ~refs[th[t].item].defined /\ th[t].pass \in 1..NumMethods
<1>1. /\ ~InFinalPhase /\ ~Finishing /\ ~AtStream /\ FirstItem = main.itemIndex
      /\ EndItem = main.mtItemIndex
  BY DEF InFinalPhase, Finishing, AtStream, FirstItem, EndItem
<1>2. main.list = {} /\ main.itemIndex \in Nat /\ main.mtItemIndex \in Nat
      /\ main.threadIndices \in Seq(Threads)
  BY MainFacts, Parts DEF PhasesOfEnd
<1>3. ~th[t].isFree /\ th[t].completedEvent
  <2>1. t \in Range(main.threadIndices)
    BY <1>2 DEF Range
  <2> QED
    BY <1>1, <2>1, Parts DEF ListFits, Completed
<1>4. th[t].pc = "wait" /\ ~th[t].compressEvent
  BY <1>1, <1>3, Parts DEF Lifecycle
<1>5. /\ th[t].item \in Items /\ th[t].item \in FirstItem..(EndItem - 1)
      /\ Kind[th[t].item] = "new" /\ ~refs[th[t].item].skip /\ ~refs[th[t].item].defined
  BY <1>1, <1>3, Parts DEF ItemsHaveThreads
<1>6. th[t].item < EndItem /\ th[t].item >= main.itemIndex
  BY <1>1, <1>2, <1>5
<1>7. StreamFits(t)
  BY <1>3, <1>4, Parts DEF StreamsFit
<1>8. th[t].pass \in 1..NumMethods
  <2>1. th[t].pass # 0 /\ th[t].pass \in 0..NumMethods
    BY <1>4, <1>7, Parts, ThreadFacts DEF StreamFits
  <2> QED
    BY <2>1, ConstantProperties
<1> QED
  BY <1>1, <1>2, <1>3, <1>4, <1>5, <1>6, <1>7, <1>8

LEMMA AwaitFailKeeps ==
  ASSUME IInv, main.pc = "await", NEW k \in 1..Len(main.threadIndices), Completed(k),
         NEW t \in Threads, t = main.threadIndices[k],
         th' = [th EXCEPT ![t].completedEvent = FALSE, ![t].isFree = TRUE],
         Stop(th[t].result), refs' = refs, pool' = pool, mem' = mem, arc' = arc
  PROVE  IInv'
<1>1. ~InFinalPhase /\ th[t].pc = "wait" /\ ~th[t].compressEvent /\ TypeOK
  BY CompletedThread, Parts
<1>2. th \in [Threads -> ThreadType] /\ th[t] \in ThreadType /\ th[t].result \in Results
  BY <1>1, ThreadFacts
<1>3. th'[t] \in ThreadType /\ \A u \in Threads : u # t => th'[u] = th[u]
  BY <1>2 DEF ThreadType
<1>4. th' \in [Threads -> ThreadType]
  BY <1>2, <1>3
<1>5. /\ main' \in MainType /\ main'.pc = "stop" /\ main'.itemIndex = main.itemIndex
      /\ main'.lastReal = main.lastReal /\ main'.list = main.list
      /\ main'.joining = main.joining /\ main'.next = main.next
  BY <1>1, <1>2, StopFields
<1>6. \A u \in Threads :
        /\ th'[u].pc = th[u].pc /\ th'[u].compressEvent = th[u].compressEvent
        /\ th'[u].exitThread = th[u].exitThread /\ th'[u].realEvent = th[u].realEvent
        /\ th'[u].realMode = th[u].realMode /\ th'[u].unlockSent = th[u].unlockSent
        /\ th'[u].item = th[u].item /\ th'[u].blocks = th[u].blocks
        /\ th'[u].total = th[u].total /\ th'[u].pass = th[u].pass
        /\ th'[u].made = th[u].made /\ th'[u].region = th[u].region
        /\ th'[u].result = th[u].result
        /\ th'[u].isFree => th[u].isFree \/ (th[u].pc = "wait" /\ ~th[u].compressEvent)
        /\ th[u].isFree => th'[u].isFree
  <2>1. ASSUME NEW u \in Threads, u # t PROVE th'[u] = th[u]
    BY <1>3, <2>1
  <2>2. /\ th'[t].pc = th[t].pc /\ th'[t].compressEvent = th[t].compressEvent
        /\ th'[t].exitThread = th[t].exitThread /\ th'[t].realEvent = th[t].realEvent
        /\ th'[t].realMode = th[t].realMode /\ th'[t].unlockSent = th[t].unlockSent
        /\ th'[t].item = th[t].item /\ th'[t].blocks = th[t].blocks
        /\ th'[t].total = th[t].total /\ th'[t].pass = th[t].pass
        /\ th'[t].made = th[t].made /\ th'[t].region = th[t].region
        /\ th'[t].result = th[t].result /\ th'[t].isFree
    BY <1>2 DEF ThreadType
  <2> QED
    BY <1>1, <2>1, <2>2
<1>7. arc \in ArcType
  BY <1>1, StoreFacts
<1>8. GoesToEnd
  BY <1>4, <1>5, <1>6, <1>7 DEF GoesToEnd
<1> QED
  BY <1>1, <1>8, EndKeeps

(* The thread at the front has finished: Update2 writes what it still has. *)
LEMMA AwaitFrontKeeps ==
  ASSUME IInv, main.pc = "await", 1 \in 1..Len(main.threadIndices), Completed(1),
         NEW t \in Threads, t = main.threadIndices[1], th[t].result = "ok",
         th' = [th EXCEPT ![t].completedEvent = FALSE, ![t].isFree = TRUE],
         main' = [main EXCEPT !.threadIndices = Tail(main.threadIndices), !.thread = t,
                              !.pc = "drain"],
         refs' = refs, pool' = pool, mem' = mem, arc' = arc
  PROVE  IInv'
<1> DEFINE ti == main.threadIndices
<1>1. /\ ~InFinalPhase /\ ~Finishing /\ ~AtStream /\ FirstItem = main.itemIndex
      /\ EndItem = main.mtItemIndex /\ main.list = {}
      /\ ~th[t].isFree /\ th[t].pc = "wait" /\ ~th[t].compressEvent /\ StreamFits(t)
      /\ th[t].item \in Items /\ Kind[th[t].item] = "new" /\ th[t].item < EndItem
      /\ ~refs[th[t].item].skip /\ ~refs[th[t].item].defined
  BY CompletedThread
<1>2. PICK i \in Items : i = main.itemIndex /\ th[t].item = i /\ th[t].unlockSent
  BY <1>1, Parts DEF MainFits
<1>3. Granted(t) /\ arc.pos = i /\ main.lastReal = i
  BY <1>1, <1>2, Parts DEF Granted, FileIsGranted
<1>4. /\ TypeOK /\ ti \in Seq(Threads) /\ Len(ti) \in Nat /\ i \in Nat
      /\ main.mtItemIndex \in Nat /\ th \in [Threads -> ThreadType] /\ th[t] \in ThreadType
      /\ main \in MainType
  BY Parts, MainFacts, ThreadFacts, ConstantProperties, SMTT(30)
<1>5. /\ th' \in [Threads -> ThreadType] /\ \A u \in Threads : u # t => th'[u] = th[u]
      /\ th'[t].isFree /\ ~th'[t].completedEvent /\ th'[t].stopEvent = th[t].stopEvent
      /\ th'[t].realEvent = th[t].realEvent /\ th'[t].unlockSent = th[t].unlockSent
      /\ SameWork(t)
  <2>1. th'[t] \in ThreadType /\ \A u \in Threads : u # t => th'[u] = th[u]
    BY <1>4 DEF ThreadType
  <2>2. th' \in [Threads -> ThreadType]
    BY <1>4, <2>1
  <2>3. /\ th'[t].isFree /\ ~th'[t].completedEvent /\ th'[t].stopEvent = th[t].stopEvent
        /\ th'[t].realEvent = th[t].realEvent /\ th'[t].unlockSent = th[t].unlockSent
        /\ SameWork(t)
    BY <1>4 DEF ThreadType, SameWork
  <2> QED
    BY <2>1, <2>2, <2>3
<1>6. Tail(ti) \in Seq(Threads) /\ Len(Tail(ti)) = Len(ti) - 1
      /\ \A j \in 1..(Len(ti) - 1) : Tail(ti)[j] = ti[j + 1]
  <2>1. ti # <<>>
    BY <1>4
  <2> QED
    BY <1>4, <2>1, HeadTailProperties
<1>7. /\ main' \in MainType /\ main'.pc = "drain" /\ main'.thread = t
      /\ main'.threadIndices = Tail(ti) /\ main'.lastReal = main.lastReal
      /\ main'.mtItemIndex = main.mtItemIndex /\ main'.itemIndex = i
      /\ main'.list = main.list /\ main'.next = main.next /\ main'.joining = main.joining
  <2> DEFINE rest == Tail(ti)
  <2>1. rest \in Seq(Threads) /\ t \in 0..NumThreads /\ "drain" \in MainPcs
    BY <1>6, ConstantProperties, Names
  <2>2. main' = [main EXCEPT !.threadIndices = rest, !.thread = t, !.pc = "drain"]
    OBVIOUS
  <2> HIDE DEF rest
  <2>3. /\ main' \in MainType /\ main'.pc = "drain" /\ main'.thread = t
        /\ main'.threadIndices = rest /\ main'.lastReal = main.lastReal
        /\ main'.mtItemIndex = main.mtItemIndex /\ main'.itemIndex = main.itemIndex
        /\ main'.list = main.list /\ main'.next = main.next /\ main'.joining = main.joining
    BY <1>4, <2>1, <2>2 DEF MainType
  <2> QED
    BY <1>2, <2>3 DEF rest
<1>8. /\ ~InFinalPhase' /\ Finishing' /\ ~AtStream' /\ FirstItem' = i + 1
      /\ EndItem' = EndItem
  <2>1. ~InFinalPhase' /\ Finishing' /\ ~AtStream'
    BY <1>7 DEF InFinalPhase, Finishing, AtStream
  <2> QED
    BY <1>1, <1>7, <2>1 DEF FirstItem, EndItem
<1>9. \A u \in Threads : SameWork(u) /\ (u # t => th'[u] = th[u])
  BY <1>5 DEF SameWork
<1>10. \A u \in Threads : u # t /\ ~th[u].isFree =>
         /\ th[u].item \in (i + 1)..(EndItem - 1) /\ th[u].item \in Items
         /\ Kind[th[u].item] = "new"
         /\ ~refs[th[u].item].skip /\ ~refs[th[u].item].defined
  <2>1. SUFFICES ASSUME NEW u \in Threads, u # t, ~th[u].isFree
                 PROVE  /\ th[u].item \in (i + 1)..(EndItem - 1) /\ th[u].item \in Items
                        /\ Kind[th[u].item] = "new"
                        /\ ~refs[th[u].item].skip /\ ~refs[th[u].item].defined
    OBVIOUS
  <2>2. th[u].item \in FirstItem..(EndItem - 1) /\ th[u].item \in Items
        /\ Kind[th[u].item] = "new"
        /\ ~refs[th[u].item].skip /\ ~refs[th[u].item].defined
    BY <1>1, <2>1, Parts DEF ItemsHaveThreads
  <2>3. th[u].item # i
    BY <1>1, <1>2, <2>1, Parts DEF ItemsHaveThreads, Running
  <2> QED
    BY <1>1, <1>2, <1>4, <2>2, <2>3
<1>11. TypeOK'
  BY <1>4, <1>5, <1>7 DEF TypeOK
<1>12. ListFits'
  <2>1. \A j \in 1..(Len(ti) - 1) :
          main'.threadIndices[j] = IF j < 1 THEN ti[j] ELSE ti[j + 1]
    BY <1>6, <1>7
  <2>2. \A u \in Threads : th'[u].item = th[u].item
    BY <1>9 DEF SameWork
  <2> QED
    <3>1. \A u \in Threads : u # t => th'[u].isFree = th[u].isFree
      BY <1>9
    <3>2. Len(main'.threadIndices) = Len(ti) - 1 /\ main'.threadIndices \in Seq(Threads)
      BY <1>6, <1>7
    <3> QED
      BY <1>1, <1>5, <2>1, <2>2, <3>1, <3>2, ListShrinks
<1>13. PoolIsBalanced'
  BY <1>7, <1>9, PoolStays DEF SameWork
<1>14. \A u \in Threads : Lifecycle(u)'
  <2>1. ASSUME NEW u \in Threads, u # t PROVE Lifecycle(u)'
    <3>1. Lifecycle(u) /\ th'[u] = th[u]
      BY <1>9, <2>1, Parts
    <3> QED
      BY <1>1, <1>7, <1>8, <3>1 DEF Lifecycle
  <2>2. Lifecycle(t)'
    BY <1>1, <1>5, <1>7, <1>8, Parts DEF Lifecycle, SameWork
  <2> QED
    BY <2>1, <2>2
<1>15. PhasesOfEnd'
  BY <1>1, <1>7, <1>8, Parts DEF PhasesOfEnd
<1>16. ItemsHaveThreads'
  <2>1. \A u \in Threads : ~th'[u].isFree => u # t /\ ~th[u].isFree
    BY <1>5
  <2>2. \A u, v \in Threads : ~th'[u].isFree /\ Running(v, th[u].item)' => u = v
    BY <1>9, <2>1, Parts DEF ItemsHaveThreads, Running
  <2>3. \A u \in Threads : ~th'[u].isFree =>
          /\ th'[u].item \in Items
          /\ th'[u].item \in FirstItem'..(EndItem' - 1) /\ Kind[th'[u].item] = "new"
          /\ ~refs[th'[u].item].skip /\ ~refs[th'[u].item].defined
    BY <1>8, <1>9, <1>10, <2>1
  <2>4. ASSUME NEW j \in FirstItem'..(EndItem' - 1), Kind[j] = "new"
        PROVE  refs[j].skip \/ refs[j].defined \/ \E u \in Threads : Running(u, j)'
    <3>1. j \in FirstItem..(EndItem - 1) /\ j # i
      BY <1>1, <1>2, <1>4, <1>8, <2>4
    <3>2. refs[j].skip \/ refs[j].defined \/ \E u \in Threads : Running(u, j)
      BY <1>1, <2>4, <3>1, Parts DEF ItemsHaveThreads
    <3>3. \A u \in Threads : Running(u, j) => u # t
      BY <1>2, <3>1 DEF Running
    <3> QED
      BY <1>9, <3>2, <3>3 DEF Running
  <2>5. /\ i <= EndItem'
        /\ \A j \in Items :
             /\ refs[j].skip \/ refs[j].defined => Kind[j] = "new" /\ j < EndItem'
             /\ refs[j].skip => MaySkip /\ ~refs[j].defined
    BY <1>1, <1>2, <1>8, Parts DEF ItemsHaveThreads
  <2> QED
    BY <1>7, <1>9, <2>2, <2>3, <2>4, <2>5 DEF ItemsHaveThreads, Running, SameWork
<1>17. MainFits'
  <2>1. i < main'.mtItemIndex /\ Kind[i] = "new" /\ ~refs[i].skip /\ ~refs[i].defined
    BY <1>1, <1>2, <1>7
  <2>2. th'[t].isFree /\ th'[t].item = i /\ arc'.pos = i /\ main'.lastReal = i
    BY <1>2, <1>3, <1>5, <1>7 DEF SameWork
  <2> QED
    BY <1>7, <1>8, <2>1, <2>2 DEF MainFits
<1>18. FileIsGranted'
  <2>1. ASSUME NEW u \in Threads, Granted(u)' PROVE FALSE
    <3>1. u # t /\ Granted(u)
      BY <1>5, <2>1 DEF Granted
    <3>2. th[u].item = i /\ ~th[u].isFree
      BY <1>2, <3>1, Parts DEF FileIsGranted, Granted
    <3> QED
      BY <1>1, <1>2, <3>1, <3>2, Parts DEF ItemsHaveThreads, Running
  <2>2. \A u \in Threads : th'[u].realEvent \/ th'[u].realMode => th'[u].unlockSent
    BY <1>5, Parts DEF FileIsGranted, SameWork
  <2> QED
    BY <1>3, <1>7, <1>8, <2>1, <2>2 DEF FileIsGranted
<1>19. ItemsInOrder'
  BY <1>2, <1>7, Parts DEF ItemsInOrder
<1>20. StreamsFit'
  <2>1. \A u \in Threads : StreamFits(u) => StreamFits(u)'
    BY <1>9, SameWorkFits
  <2>2. ASSUME NEW u \in Threads, ~th'[u].isFree \/ Drained(u)', th'[u].pc # "exited"
        PROVE  StreamFits(u)'
    <3>1. CASE u = t
      BY <1>1, <2>1, <3>1
    <3>2. CASE u # t
      BY <1>7, <1>9, <2>1, <2>2, <3>2, Parts DEF StreamsFit, Drained
    <3> QED
      BY <3>1, <3>2
  <2>3. ASSUME NEW u \in Threads, th'[u].isFree, ~Drained(u)' PROVE th'[u].blocks = <<>>
    <3>1. u # t /\ th'[u] = th[u] /\ ~Drained(u)
      BY <1>7, <1>9, <2>3 DEF Drained
    <3> QED
      BY <1>1, <2>3, <3>1, Parts DEF StreamsFit
  <2>4. th'[t].result = "ok"
    BY <1>5 DEF SameWork
  <2> QED
    BY <1>7, <1>8, <2>2, <2>3, <2>4 DEF StreamsFit
<1>21. ItemsFit'
  BY <1>1, <1>2, <1>3, <1>4, <1>7, SameItems
<1>22. DataIsWhole'
  BY Parts DEF DataIsWhole, Written
<1> QED
  BY <1>11, <1>12, <1>13, <1>14, <1>15, <1>16, <1>17, <1>18, <1>19, <1>20, <1>21, <1>22, PartsFitNext

(* The blocks of a stream in two parts.                                    *)
LEMMA TwoParts ==
  ASSUME NEW s \in Seq(Blocks), NEW n \in Nat, n <= Len(s), IsInjective(s)
  PROVE  LET keep == SubSeq(s, 1, n)
             rest == SubSeq(s, n + 1, Len(s)) IN
         /\ keep \in Seq(Blocks) /\ Len(keep) = n /\ \A k \in 1..n : keep[k] = s[k]
         /\ IsInjective(keep) /\ Range(keep) \cap Range(rest) = {}
         /\ Range(keep) \cup Range(rest) = Range(s)
<1> DEFINE keep == SubSeq(s, 1, n)
           rest == SubSeq(s, n + 1, Len(s))
<1>1. Len(s) \in Nat /\ DOMAIN s = 1..Len(s) /\ \A k \in 1..Len(s) : s[k] \in Blocks
  OBVIOUS
<1>2. keep \in Seq(Blocks) /\ Len(keep) = n /\ \A k \in 1..n : keep[k] = s[k]
  <2>1. \A k \in 1..n : s[k] \in Blocks
    BY <1>1
  <2> QED
    BY <1>1, <2>1
<1>3. Len(rest) = Len(s) - n /\ \A k \in 1..(Len(s) - n) : rest[k] = s[n + k]
  <2>1. Len(rest) = Len(s) - n
    <3>1. \A k \in (n + 1)..Len(s) : s[k] \in Blocks
      BY <1>1
    <3>2. n + 1 \in Int /\ Len(s) \in Int
      BY <1>1
    <3>3. Len(rest) = IF n + 1 <= Len(s) THEN Len(s) - (n + 1) + 1 ELSE 0
      BY <3>1, <3>2, SubSeqProperties
    <3> HIDE DEF rest, keep
    <3>4. n + 1 <= Len(s) \/ n = Len(s)
      <4>1. \A a, b \in Nat : a <= b => a + 1 <= b \/ a = b
        OBVIOUS
      <4> QED
        BY <1>1, <4>1
    <3>5. CASE n + 1 <= Len(s)
      BY <1>1, <3>3, <3>5
    <3>6. CASE n = Len(s)
      BY <1>1, <3>3, <3>6
    <3> QED
      BY <3>5, <3>6, <3>4
  <2>2. ASSUME NEW k \in 1..(Len(s) - n) PROVE rest[k] = s[n + k]
    BY <1>1, <2>2
  <2> QED
    BY <2>1, <2>2
<1>4. DOMAIN keep = 1..n /\ DOMAIN rest = 1..(Len(s) - n)
  BY <1>1, <1>2
<1> HIDE DEF keep, rest
<1>5. IsInjective(keep)
  BY <1>1, <1>2, <1>4 DEF IsInjective
<1>6. \A x \in Range(keep) : \E k \in 1..n : x = s[k]
  BY <1>2, <1>4 DEF Range
<1>7. \A x \in Range(rest) : \E k \in (n + 1)..Len(s) : x = s[k]
  <2>1. SUFFICES ASSUME NEW x \in Range(rest) PROVE \E k \in (n + 1)..Len(s) : x = s[k]
    OBVIOUS
  <2>2. PICK k \in 1..(Len(s) - n) : x = rest[k]
    BY <1>4, <2>1 DEF Range
  <2>3. n + k \in (n + 1)..Len(s) /\ x = s[n + k]
    BY <1>1, <1>3, <2>2
  <2> QED
    BY <2>3
<1>8. Range(keep) \cap Range(rest) = {}
  <2>1. SUFFICES ASSUME NEW x, x \in Range(keep), x \in Range(rest) PROVE FALSE
    OBVIOUS
  <2>2. PICK j \in 1..n : x = s[j]
    BY <1>6, <2>1
  <2>3. PICK k \in (n + 1)..Len(s) : x = s[k]
    BY <1>7, <2>1
  <2>4. j \in 1..Len(s) /\ k \in 1..Len(s) /\ j # k
    BY <1>1
  <2> QED
    BY <1>1, <2>2, <2>3, <2>4 DEF IsInjective
<1>9. Range(keep) \cup Range(rest) = Range(s)
  <2>1. ASSUME NEW x \in Range(s) PROVE x \in Range(keep) \cup Range(rest)
    <3>1. PICK k \in 1..Len(s) : x = s[k]
      BY <1>1, <2>1 DEF Range
    <3>2. CASE k <= n
      BY <1>2, <1>4, <3>1, <3>2 DEF Range
    <3>3. CASE ~(k <= n)
      <4>1. k - n \in 1..(Len(s) - n) /\ n + (k - n) = k
        BY <1>1, <3>3
      <4>2. rest[k - n] = x
        BY <1>3, <3>1, <4>1
      <4> QED
        BY <1>4, <4>1, <4>2 DEF Range
    <3> QED
      BY <3>2, <3>3
  <2>2. Range(keep) \subseteq Range(s)
    <3>1. \A k \in 1..n : k \in 1..Len(s)
      BY <1>1
    <3> QED
      BY <1>1, <1>6, <3>1 DEF Range
  <2>3. Range(rest) \subseteq Range(s)
    <3>1. \A k \in (n + 1)..Len(s) : k \in 1..Len(s)
      BY <1>1
    <3> QED
      BY <1>1, <1>7, <3>1 DEF Range
  <2> QED
    BY <2>1, <2>2, <2>3
<1> QED
  BY <1>2, <1>5, <1>8, <1>9 DEF keep, rest

(* The blocks of a stream go to an item, and those it does not need to the *)
(* main thread.                                                            *)
LEMMA SplitBlocks ==
  ASSUME BlocksAreOwned, NEW t \in Threads, NEW i \in Items, NEW B, NEW C,
         BlocksOf(<<2, t>>) = B \cup C, B \cap C = {}, BlocksOf(<<2, t>>)' = {},
         BlocksOf(<<3, i>>)' = BlocksOf(<<3, i>>) \cup B,
         BlocksOf(<<1, 0>>)' = BlocksOf(<<1, 0>>) \cup C,
         \A o \in Owners : o # <<2, t>> /\ o # <<3, i>> /\ o # <<1, 0>>
                            => BlocksOf(o)' = BlocksOf(o),
         \A u \in Threads : IsInjective(th'[u].blocks),
         \A j \in Items : IsInjective(refs'[j].blocks)
  PROVE  BlocksAreOwned'
<1>1. /\ \A o, p \in Owners : o # p => BlocksOf(o) \cap BlocksOf(p) = {}
      /\ \A b \in Blocks : \E o \in Owners : b \in BlocksOf(o)
      /\ <<2, t>> \in Owners /\ <<3, i>> \in Owners /\ <<1, 0>> \in Owners
      /\ <<2, t>> # <<3, i>> /\ <<2, t>> # <<1, 0>> /\ <<3, i>> # <<1, 0>>
  BY OwnerCases DEF BlocksAreOwned
<1>2. ASSUME NEW o \in Owners, NEW p \in Owners, o # p
      PROVE  BlocksOf(o)' \cap BlocksOf(p)' = {}
  <2>1. \A q \in Owners : q = <<2, t>> \/ q = <<3, i>> \/ q = <<1, 0>>
                          \/ BlocksOf(q)' = BlocksOf(q)
    OBVIOUS
  <2>2. \A q \in Owners : q # <<2, t>> => BlocksOf(q) \cap (B \cup C) = {}
    BY <1>1
  <2> QED
    BY <1>1, <1>2, <2>1, <2>2
<1>3. ASSUME NEW b \in Blocks PROVE \E o \in Owners : b \in BlocksOf(o)'
  <2>1. PICK o \in Owners : b \in BlocksOf(o)
    BY <1>1
  <2> QED
    BY <1>1, <2>1
<1> QED
  BY <1>2, <1>3 DEF BlocksAreOwned

LEMMA DetachFields ==
  ASSUME IInv, main.pc = "await", NEW k \in 1..Len(main.threadIndices), Completed(k), k > 1,
         NEW t \in Threads, t = main.threadIndices[k], NEW i \in Items, i = th[t].item, Detach(k)
  PROVE  /\ i > main.itemIndex /\ ~th[t].unlockSent /\ ~th[t].realMode /\ InMemory(t)
         /\ th[t].total \in Nat /\ th[t].total <= Len(th[t].blocks)
         /\ th[t].blocks \in Seq(Blocks) /\ IsInjective(th[t].blocks)
         /\ refs' \in [Items -> RefType] /\ refs'[i].defined /\ refs'[i].skip = refs[i].skip
         /\ refs'[i].blocks = SubSeq(th[t].blocks, 1, th[t].total)
         /\ refs'[i].total = th[t].total /\ refs'[i].packSize = th[t].made
         /\ \A j \in Items : j # i => refs'[j] = refs[j]
         /\ main' \in MainType /\ main'.pc = "free" /\ main'.next = "top"
         /\ main'.list = Range(SubSeq(th[t].blocks, th[t].total + 1, Len(th[t].blocks)))
         /\ main'.threadIndices = RemoveAt(main.threadIndices, k)
         /\ main'.itemIndex = main.itemIndex /\ main'.mtItemIndex = main.mtItemIndex
         /\ main'.lastReal = main.lastReal /\ main'.joining = main.joining
         /\ th' \in [Threads -> ThreadType] /\ \A u \in Threads : u # t => th'[u] = th[u]
         /\ th'[t].isFree /\ ~th'[t].completedEvent /\ th'[t].blocks = <<>> /\ th'[t].total = 0
         /\ th'[t].pc = th[t].pc /\ th'[t].item = th[t].item
         /\ th'[t].compressEvent = th[t].compressEvent
         /\ th'[t].exitThread = th[t].exitThread /\ th'[t].stopEvent = th[t].stopEvent
         /\ th'[t].realEvent = th[t].realEvent /\ th'[t].realMode = th[t].realMode
         /\ th'[t].unlockSent = th[t].unlockSent /\ th'[t].result = th[t].result
<1> DEFINE ti == main.threadIndices
           s == th[t].blocks
           n == th[t].total
           keep == SubSeq(s, 1, n)
           rest == SubSeq(s, n + 1, Len(s))
<1>1. /\ ~InFinalPhase /\ ~th[t].isFree /\ th[t].pc = "wait" /\ ~th[t].compressEvent
      /\ StreamFits(t)
  BY CompletedThread
<1>2. /\ TypeOK /\ ti \in Seq(Threads) /\ Len(ti) \in Nat /\ main.itemIndex \in Nat
      /\ th \in [Threads -> ThreadType] /\ th[t] \in ThreadType /\ s \in Seq(Blocks)
      /\ n \in 0..MaxChunks /\ n \in Nat /\ th[t].made \in 0..MaxChunks
      /\ main \in MainType /\ refs \in [Items -> RefType]
  <2>1. TypeOK
    BY Parts
  <2>2. ti \in Seq(Threads) /\ Len(ti) \in Nat /\ main.itemIndex \in Nat /\ main \in MainType
    BY <2>1, MainFacts
  <2>3. /\ th \in [Threads -> ThreadType] /\ th[t] \in ThreadType /\ s \in Seq(Blocks)
        /\ n \in 0..MaxChunks /\ th[t].made \in 0..MaxChunks
    BY <2>1, ThreadFacts
  <2>4. refs \in [Items -> RefType]
    BY <2>1 DEF TypeOK
  <2> QED
    BY <2>1, <2>2, <2>3, <2>4, ConstantProperties
<1>3. i > main.itemIndex
  <2>1. 1 \in 1..Len(ti) /\ 1 < k
    BY <1>2
  <2>2. th[ti[1]].item < th[ti[k]].item
    BY <1>1, <2>1, Parts DEF ListFits
  <2>3. th[ti[1]].item = main.itemIndex
    BY Parts DEF MainFits
  <2>4. i \in Nat
    BY ConstantProperties
  <2> QED
    BY <1>2, <2>2, <2>3, <2>4
<1>4. ~th[t].unlockSent
  <2>1. ~Granted(t)
    BY <1>2, <1>3, Parts DEF FileIsGranted
  <2> QED
    BY <1>1, <2>1 DEF Granted
<1>5. ~th[t].realMode /\ InMemory(t)
  <2>1. ~th[t].realMode
    BY <1>4, Parts DEF FileIsGranted
  <2> QED
    BY <1>1, <2>1 DEF StreamFits
<1>6. n <= Len(s) /\ IsInjective(s)
  BY <1>5, Parts DEF InMemory, BlocksAreOwned
<1>7. keep \in Seq(Blocks)
  BY <1>2, <1>6, TwoParts
<1>8. RemoveAt(ti, k) \in Seq(Threads)
  BY <1>2, RemoveOne
<1>9. Range(rest) \in SUBSET Blocks
  <2>1. Range(rest) \subseteq Range(s)
    BY <1>2, <1>6, TwoParts
  <2>2. Range(s) \subseteq Blocks
    BY <1>2 DEF Range
  <2> QED
    BY <2>1, <2>2
<1>10. /\ refs' \in [Items -> RefType] /\ refs'[i].defined /\ refs'[i].skip = refs[i].skip
       /\ refs'[i].blocks = keep /\ refs'[i].total = n /\ refs'[i].packSize = th[t].made
       /\ \A j \in Items : j # i => refs'[j] = refs[j]
  <2>1. refs' = [refs EXCEPT ![i] = [refs[i] EXCEPT !.defined = TRUE, !.blocks = keep,
                                                    !.total = n, !.packSize = th[t].made]]
    BY DEF Detach
  <2> HIDE DEF keep, n
  <2> DEFINE r == [refs[i] EXCEPT !.defined = TRUE, !.blocks = keep,
                                  !.total = n, !.packSize = th[t].made]
  <2>2. /\ r \in RefType /\ r.defined /\ r.skip = refs[i].skip /\ r.blocks = keep
        /\ r.total = n /\ r.packSize = th[t].made
    BY <1>2, <1>7 DEF RefType
  <2>3. refs' = [refs EXCEPT ![i] = r]
    BY <2>1
  <2> HIDE DEF r
  <2> QED
    BY <1>2, <2>2, <2>3
<1>11. /\ main' \in MainType /\ main'.pc = "free" /\ main'.next = "top"
       /\ main'.list = Range(rest) /\ main'.threadIndices = RemoveAt(ti, k)
       /\ main'.itemIndex = main.itemIndex /\ main'.mtItemIndex = main.mtItemIndex
       /\ main'.lastReal = main.lastReal /\ main'.joining = main.joining
  <2> DEFINE new == RemoveAt(ti, k)
             list == Range(rest)
  <2>1. main' = [main EXCEPT !.threadIndices = new, !.pc = "free", !.list = list, !.next = "top"]
    BY DEF Detach
  <2>2. new \in Seq(Threads) /\ list \in SUBSET Blocks /\ "free" \in MainPcs
    BY <1>8, <1>9, Names
  <2> HIDE DEF new, list
  <2>3. /\ main' \in MainType /\ main'.pc = "free" /\ main'.next = "top"
        /\ main'.list = list /\ main'.threadIndices = new
        /\ main'.itemIndex = main.itemIndex /\ main'.mtItemIndex = main.mtItemIndex
        /\ main'.lastReal = main.lastReal /\ main'.joining = main.joining
    BY <1>2, <2>1, <2>2 DEF MainType
  <2> QED
    BY <2>3 DEF new, list
<1>12. th' = [th EXCEPT ![t].completedEvent = FALSE, ![t].isFree = TRUE,
                        ![t].blocks = <<>>, ![t].total = 0]
  BY DEF Detach
<1>13. th'[t] \in ThreadType /\ \A u \in Threads : u # t => th'[u] = th[u]
  <2>1. <<>> \in Seq(Blocks) /\ 0 \in 0..MaxChunks
    BY ConstantProperties
  <2> QED
    BY <1>2, <1>12, <2>1 DEF ThreadType
<1>14. th' \in [Threads -> ThreadType]
  <2>1. th \in [Threads -> ThreadType]
    BY <1>2
  <2>2. th' = [th EXCEPT ![t] = th'[t]]
    BY <1>12, <2>1
  <2> QED
    BY <1>13, <2>1, <2>2
<1>15. /\ th'[t].isFree /\ ~th'[t].completedEvent /\ th'[t].blocks = <<>> /\ th'[t].total = 0
       /\ th'[t].pc = th[t].pc /\ th'[t].item = th[t].item
       /\ th'[t].compressEvent = th[t].compressEvent
       /\ th'[t].exitThread = th[t].exitThread /\ th'[t].stopEvent = th[t].stopEvent
       /\ th'[t].realEvent = th[t].realEvent /\ th'[t].realMode = th[t].realMode
       /\ th'[t].unlockSent = th[t].unlockSent /\ th'[t].result = th[t].result
  BY <1>2, <1>12 DEF ThreadType
<1> QED
  BY <1>2, <1>3, <1>4, <1>5, <1>6, <1>10, <1>11, <1>13, <1>14, <1>15

LEMMA DetachOwners ==
  ASSUME IInv, main.pc = "await", NEW k \in 1..Len(main.threadIndices), Completed(k), k > 1,
         NEW t \in Threads, t = main.threadIndices[k], NEW i \in Items, i = th[t].item, Detach(k),
         pool' = pool
  PROVE  BlocksAreOwned'
<1> DEFINE s == th[t].blocks
           n == th[t].total
           keep == SubSeq(s, 1, n)
           rest == SubSeq(s, n + 1, Len(s))
           B == Range(keep)
           C == Range(rest)
<1>1. /\ s \in Seq(Blocks) /\ n \in Nat /\ n <= Len(s) /\ IsInjective(s)
      /\ refs'[i].blocks = keep /\ main'.list = C /\ th'[t].blocks = <<>>
      /\ \A j \in Items : j # i => refs'[j] = refs[j]
      /\ \A u \in Threads : u # t => th'[u] = th[u]
  BY DetachFields
<1>2. IsInjective(keep) /\ B \cap C = {} /\ B \cup C = Range(s)
  BY <1>1, TwoParts
<1>3. main.list = {} /\ ~refs[i].defined
  BY CompletedThread
<1>4. refs[i].blocks = <<>>
  BY <1>3, Parts DEF ItemsFit
<1> HIDE DEF s, n, keep, rest
<1>5. /\ <<2, t>> \in Owners /\ <<3, i>> \in Owners /\ <<1, 0>> \in Owners
      /\ <<2, t>> # <<3, i>> /\ <<2, t>> # <<1, 0>> /\ <<3, i>> # <<1, 0>>
  BY OwnerCases
<1>6. BlocksOf(<<2, t>>) = B \cup C
  BY <1>2, OwnersHave DEF s
<1>7. BlocksOf(<<2, t>>)' = {}
  <2>1. Range(th'[t].blocks) = {}
    BY <1>1 DEF Range
  <2> QED
    BY <2>1, OwnersHave
<1>8. BlocksOf(<<3, i>>)' = BlocksOf(<<3, i>>) \cup B
  <2>1. Range(refs[i].blocks) = {}
    BY <1>4 DEF Range
  <2> QED
    BY <1>1, <2>1, OwnersHave
<1>9. BlocksOf(<<1, 0>>)' = BlocksOf(<<1, 0>>) \cup C
  BY <1>1, <1>3, OwnersHave
<1>10. ASSUME NEW o \in Owners, o # <<2, t>>, o # <<3, i>>, o # <<1, 0>>
       PROVE  BlocksOf(o)' = BlocksOf(o)
  <2>1. CASE o = <<0, 0>>
    BY <2>1, OwnersHave
  <2>2. ASSUME NEW u \in Threads, o = <<2, u>> PROVE BlocksOf(o)' = BlocksOf(o)
    <3>1. th'[u] = th[u]
      BY <1>1, <1>10, <2>2
    <3> QED
      BY <2>2, <3>1, OwnersHave
  <2>3. ASSUME NEW j \in Items, o = <<3, j>> PROVE BlocksOf(o)' = BlocksOf(o)
    <3>1. refs'[j] = refs[j]
      BY <1>1, <1>10, <2>3
    <3> QED
      BY <2>3, <3>1, OwnersHave
  <2> QED
    BY <1>10, <2>1, <2>2, <2>3, OwnerCases
<1>11. \A u \in Threads : IsInjective(th'[u].blocks)
  <2>1. IsInjective(th'[t].blocks)
    BY <1>1 DEF IsInjective
  <2> QED
    BY <1>1, <2>1, Parts DEF BlocksAreOwned
<1>12. \A j \in Items : IsInjective(refs'[j].blocks)
  BY <1>1, <1>2, Parts DEF BlocksAreOwned
<1>13. BlocksAreOwned /\ B \cap C = {}
  BY <1>2, Parts
<1> HIDE DEF B, C
<1>14. \A o \in Owners : o # <<2, t>> /\ o # <<3, i>> /\ o # <<1, 0>>
                          => BlocksOf(o)' = BlocksOf(o)
  BY <1>10
<1> QED
  BY <1>6, <1>7, <1>8, <1>9, <1>11, <1>12, <1>13, <1>14, SplitBlocks

(* A thread that is not at the front has finished: its data is detached.   *)
LEMMA DetachKeeps ==
  ASSUME IInv, main.pc = "await", NEW k \in 1..Len(main.threadIndices), Completed(k), k > 1,
         NEW t \in Threads, t = main.threadIndices[k], Detach(k),
         pool' = pool, mem' = mem, arc' = arc
  PROVE  IInv'
<1> DEFINE ti == main.threadIndices
<1>1. /\ ~InFinalPhase /\ ~Finishing /\ ~AtStream /\ FirstItem = main.itemIndex
      /\ EndItem = main.mtItemIndex /\ main.list = {}
      /\ ~th[t].isFree /\ th[t].pc = "wait" /\ ~th[t].compressEvent /\ StreamFits(t)
      /\ th[t].item \in Items /\ Kind[th[t].item] = "new" /\ th[t].item < EndItem
      /\ ~refs[th[t].item].skip /\ ~refs[th[t].item].defined /\ th[t].pass \in 1..NumMethods
  BY CompletedThread
<1>2. PICK i \in Items : i = th[t].item
  BY <1>1
<1>3. /\ i > main.itemIndex /\ ~th[t].unlockSent /\ ~th[t].realMode /\ InMemory(t)
      /\ th[t].total \in Nat /\ th[t].total <= Len(th[t].blocks)
      /\ th[t].blocks \in Seq(Blocks) /\ IsInjective(th[t].blocks)
      /\ refs' \in [Items -> RefType] /\ refs'[i].defined /\ refs'[i].skip = refs[i].skip
      /\ refs'[i].blocks = SubSeq(th[t].blocks, 1, th[t].total)
      /\ refs'[i].total = th[t].total /\ refs'[i].packSize = th[t].made
      /\ \A j \in Items : j # i => refs'[j] = refs[j]
  BY <1>2, DetachFields
<1>4. /\ main' \in MainType /\ main'.pc = "free" /\ main'.next = "top"
      /\ main'.threadIndices = RemoveAt(main.threadIndices, k)
      /\ main'.itemIndex = main.itemIndex /\ main'.mtItemIndex = main.mtItemIndex
      /\ main'.lastReal = main.lastReal /\ main'.joining = main.joining
  BY <1>2, DetachFields
<1>5. /\ th' \in [Threads -> ThreadType] /\ \A u \in Threads : u # t => th'[u] = th[u]
      /\ th'[t].isFree /\ ~th'[t].completedEvent /\ th'[t].blocks = <<>> /\ th'[t].total = 0
      /\ th'[t].pc = th[t].pc /\ th'[t].item = th[t].item
      /\ th'[t].compressEvent = th[t].compressEvent
      /\ th'[t].exitThread = th[t].exitThread /\ th'[t].stopEvent = th[t].stopEvent
      /\ th'[t].realEvent = th[t].realEvent /\ th'[t].realMode = th[t].realMode
      /\ th'[t].unlockSent = th[t].unlockSent /\ th'[t].result = th[t].result
  BY <1>2, DetachFields
<1>6. /\ TypeOK /\ ti \in Seq(Threads) /\ Len(ti) \in Nat /\ i \in Nat
      /\ main.mtItemIndex \in Nat /\ main.itemIndex \in Nat /\ main.itemIndex <= N + 1
  BY <1>2, Parts, MainFacts, ConstantProperties, SMTT(30)
<1>7. /\ RemoveAt(ti, k) \in Seq(Threads) /\ Len(RemoveAt(ti, k)) = Len(ti) - 1
      /\ \A j \in 1..(Len(ti) - 1) : RemoveAt(ti, k)[j] = IF j < k THEN ti[j] ELSE ti[j + 1]
  BY <1>6, RemoveOne
<1>8. /\ ~InFinalPhase' /\ ~Finishing' /\ ~AtStream' /\ FirstItem' = FirstItem
      /\ EndItem' = EndItem
  <2>1. ~InFinalPhase' /\ ~Finishing' /\ ~AtStream'
    BY <1>4 DEF InFinalPhase, Finishing, AtStream
  <2> QED
    BY <1>1, <1>4, <2>1 DEF FirstItem, EndItem
<1>9. TypeOK'
  BY <1>3, <1>4, <1>5, <1>6 DEF TypeOK
<1>10. ListFits'
  <2>1. \A u \in Threads : th'[u].item = th[u].item
    BY <1>5
  <2>2. \A u \in Threads : u # t => th'[u].isFree = th[u].isFree
    BY <1>5
  <2>3. /\ main'.threadIndices \in Seq(Threads) /\ Len(main'.threadIndices) = Len(ti) - 1
        /\ \A j \in 1..(Len(ti) - 1) :
             main'.threadIndices[j] = IF j < k THEN ti[j] ELSE ti[j + 1]
    BY <1>4, <1>7
  <2> QED
    BY <1>1, <1>5, <2>1, <2>2, <2>3, ListShrinks
<1>11. PoolIsBalanced'
  <2>1. BlocksAreOwned'
    BY <1>2, DetachOwners
  <2>2. Promised' = Promised
    <3>1. \A u \in Threads : th'[u].pc = th[u].pc
      BY <1>5
    <3> QED
      BY <3>1 DEF Promised
  <2>3. SemaphoreCounts'
    BY <1>4, <2>2, Parts DEF SemaphoreCounts
  <2> QED
    BY <1>4, <2>1, <2>3 DEF PoolIsBalanced
<1>12. \A u \in Threads : Lifecycle(u)'
  <2>1. ASSUME NEW u \in Threads, u # t PROVE Lifecycle(u)'
    <3>1. Lifecycle(u) /\ th'[u] = th[u]
      BY <1>5, <2>1, Parts
    <3> QED
      BY <1>1, <1>4, <1>8, <3>1 DEF Lifecycle
  <2>2. Lifecycle(t)'
    BY <1>1, <1>4, <1>5, <1>8, Parts DEF Lifecycle
  <2> QED
    BY <2>1, <2>2
<1>13. PhasesOfEnd'
  BY <1>1, <1>4, <1>8, Parts DEF PhasesOfEnd
<1>14. \A u \in Threads : ~th'[u].isFree => u # t /\ ~th[u].isFree /\ th[u].item # i
  <2>1. \A u \in Threads : ~th'[u].isFree => u # t /\ ~th[u].isFree
    BY <1>5
  <2> QED
    BY <1>1, <1>2, <2>1, Parts DEF ItemsHaveThreads, Running
<1>15. ItemsHaveThreads'
  <2>1. \A u, v \in Threads : ~th'[u].isFree /\ Running(v, th[u].item)' => u = v
    BY <1>5, <1>14, Parts DEF ItemsHaveThreads, Running
  <2>2. ASSUME NEW u \in Threads, ~th'[u].isFree
        PROVE  /\ th'[u].item \in Items
               /\ th'[u].item \in FirstItem'..(EndItem' - 1) /\ Kind[th'[u].item] = "new"
               /\ ~refs'[th'[u].item].skip /\ ~refs'[th'[u].item].defined
    <3>1. ~th[u].isFree /\ th[u].item # i /\ th'[u] = th[u]
      BY <1>5, <1>14, <2>2
    <3>2. /\ th[u].item \in Items
          /\ th[u].item \in FirstItem..(EndItem - 1) /\ Kind[th[u].item] = "new"
          /\ ~refs[th[u].item].skip /\ ~refs[th[u].item].defined
      BY <1>1, <3>1, Parts DEF ItemsHaveThreads
    <3> QED
      BY <1>3, <1>8, <3>1, <3>2
  <2>3. ASSUME NEW j \in FirstItem'..(EndItem' - 1), Kind[j] = "new"
        PROVE  refs'[j].skip \/ refs'[j].defined \/ \E u \in Threads : Running(u, j)'
    <3>1. CASE j = i
      BY <1>3, <3>1
    <3>2. CASE j # i
      <4>1. j \in FirstItem..(EndItem - 1)
        BY <1>8, <2>3
      <4>2. refs[j].skip \/ refs[j].defined \/ \E u \in Threads : Running(u, j)
        BY <1>1, <2>3, <4>1, Parts DEF ItemsHaveThreads
      <4>3. \A u \in Threads : Running(u, j) => Running(u, j)'
        BY <1>2, <1>5, <3>2 DEF Running
      <4>4. j \in Items
        <5>1. main.itemIndex >= 1 /\ main.mtItemIndex <= N + 1 /\ N \in Nat
          BY <1>6, MainFacts, ConstantProperties
        <5> QED
          BY <1>1, <1>6, <4>1, <5>1 DEF Items
      <4>5. refs'[j] = refs[j]
        BY <1>3, <3>2, <4>4
      <4> QED
        BY <4>2, <4>3, <4>5
    <3> QED
      BY <3>1, <3>2
  <2>4. ASSUME NEW j \in Items
        PROVE  /\ refs'[j].skip \/ refs'[j].defined => Kind[j] = "new" /\ j < EndItem'
               /\ refs'[j].skip => MaySkip /\ ~refs'[j].defined
    <3>1. CASE j = i
      BY <1>1, <1>2, <1>3, <1>8, <3>1
    <3>2. CASE j # i
      BY <1>1, <1>3, <1>8, <3>2, Parts DEF ItemsHaveThreads
    <3> QED
      BY <3>1, <3>2
  <2>5. main'.itemIndex <= EndItem'
    BY <1>1, <1>4, <1>8, Parts DEF ItemsHaveThreads
  <2>6. \A u \in Threads : th'[u].item = th[u].item
    BY <1>5
  <2> QED
    BY <2>1, <2>2, <2>3, <2>4, <2>5, <2>6 DEF ItemsHaveThreads, Running
<1>16. MainFits'
  BY <1>4, <1>8 DEF MainFits
<1>17. FileIsGranted'
  <2>1. \A u \in Threads : Granted(u) => u # t /\ Granted(u)' /\ th'[u] = th[u]
    BY <1>3, <1>5 DEF Granted
  <2>2. \A u \in Threads : Granted(u)' => Granted(u) /\ th'[u] = th[u]
    BY <1>5 DEF Granted
  <2>3. \A u \in Threads : th'[u].realEvent \/ th'[u].realMode => th'[u].unlockSent
    BY <1>5, Parts DEF FileIsGranted
  <2> QED
    BY <1>1, <1>4, <1>8, <2>1, <2>2, <2>3, Parts DEF FileIsGranted
<1>18. ItemsInOrder'
  <2>1. \A j \in Items : refs'[j].skip = refs[j].skip
    BY <1>3
  <2>2. \A j \in 1..(main.itemIndex - 1) : j \in Items
    BY <1>6, ConstantProperties DEF Items
  <2> QED
    BY <1>4, <2>1, <2>2, Parts DEF ItemsInOrder
<1>19. StreamsFit'
  <2>1. ASSUME NEW u \in Threads, ~th'[u].isFree, th'[u].pc # "exited" PROVE StreamFits(u)'
    <3>1. ~th[u].isFree /\ th'[u] = th[u] /\ th[u].pc # "exited"
      BY <1>5, <1>14, <2>1
    <3>2. StreamFits(u) /\ SameWork(u)
      BY <3>1, Parts DEF StreamsFit, SameWork
    <3> QED
      BY <3>2, SameWorkFits
  <2>2. ASSUME NEW u \in Threads, th'[u].isFree PROVE th'[u].blocks = <<>>
    <3>1. CASE u = t
      BY <1>5, <3>1
    <3>2. CASE u # t
      <4>1. th'[u] = th[u] /\ ~Drained(u)
        BY <1>5, <3>2 DEF Drained
      <4> QED
        BY <1>1, <2>2, <4>1, Parts DEF StreamsFit
    <3> QED
      BY <3>1, <3>2
  <2> QED
    BY <1>4, <1>8, <2>1, <2>2 DEF StreamsFit, Drained
<1>20. ItemsFit'
  <2>1. \A j \in Items : ~refs'[j].defined => refs'[j].blocks = <<>>
    BY <1>3, Parts DEF ItemsFit
  <2>5. PICK p \in 1..NumMethods : p = th[t].pass
    BY <1>1
  <2>2. HoldPass(refs[i].blocks, i, p, refs[i].total)'
    <3>1. HoldPass(th[t].blocks, i, p, th[t].total)
      BY <1>1, <1>2, <1>3, <2>5 DEF InMemory
    <3> DEFINE keep == SubSeq(th[t].blocks, 1, th[t].total)
    <3>2. Len(keep) = th[t].total /\ \A m \in 1..th[t].total : keep[m] = th[t].blocks[m]
      BY <1>3, TwoParts
    <3> HIDE DEF keep
    <3>3. refs'[i].blocks = keep /\ refs'[i].total = th[t].total
      BY <1>3 DEF keep
    <3>4. \A m \in 1..th[t].total : mem'[keep[m]] = <<i, p, m>>
      BY <3>1, <3>2 DEF HoldPass
    <3>5. th[t].total <= Len(keep)
      BY <1>3, <3>2
    <3> QED
      BY <3>3, <3>4, <3>5 DEF HoldPass
  <2>3. ASSUME NEW j \in main.itemIndex..N, refs'[j].defined
        PROVE  /\ refs'[j].packSize = refs'[j].total
               /\ \E m \in 1..NumMethods : HoldPass(refs[j].blocks, j, m, refs[j].total)'
    <3>1. CASE j = i
      <4>1. refs'[i].packSize = refs'[i].total
        BY <1>3 DEF InMemory
      <4> QED
        BY <1>1, <2>2, <3>1, <4>1
    <3>2. CASE j # i
      <4>1. j \in Items
        <5>1. main.itemIndex >= 1 /\ N \in Nat
          BY <1>6, MainFacts, ConstantProperties
        <5> QED
          BY <1>6, <5>1 DEF Items
      <4>2. refs'[j] = refs[j]
        BY <1>3, <3>2, <4>1
      <4>3. refs[j].packSize = refs[j].total
        BY <1>1, <2>3, <4>2, Parts DEF ItemsFit
      <4>4. PICK m \in 1..NumMethods : HoldPass(refs[j].blocks, j, m, refs[j].total)
        BY <1>1, <2>3, <4>2, Parts DEF ItemsFit
      <4>5. HoldPass(refs[j].blocks, j, m, refs[j].total)'
        BY <4>2, <4>4 DEF HoldPass
      <4> QED
        BY <4>2, <4>3, <4>5
    <3> QED
      BY <3>1, <3>2
  <2>4. \A j \in main.itemIndex..N :
          /\ arc.packSize[j] = 0
          /\ j > main.itemIndex \/ arc.pos = None => arc.data[j] = <<>>
    BY <1>1, Parts DEF ItemsFit
  <2> QED
    BY <1>4, <2>1, <2>3, <2>4 DEF ItemsFit
<1>21. DataIsWhole'
  <2>1. \A j \in Items : refs[j].defined => refs'[j].defined
    BY <1>3
  <2> QED
    BY <1>4, <2>1, DataStaysWhole DEF Written
<1> QED
  BY <1>9, <1>10, <1>11, <1>12, <1>13, <1>15, <1>16, <1>17, <1>18, <1>19, <1>20, <1>21,
     PartsFitNext

LEMMA AwaitKeeps == ASSUME IInv, AwaitCompletion PROVE IInv'
<1>1. main.pc = "await" /\ pool' = pool /\ mem' = mem /\ arc' = arc
  BY DEF AwaitCompletion
<1> DEFINE ti == main.threadIndices
<1>2. PICK k \in 1..Len(ti) :
        /\ Completed(k)
        /\ \/ /\ th[ti[k]].result # "ok"
              /\ th' = [th EXCEPT ![ti[k]].completedEvent = FALSE, ![ti[k]].isFree = TRUE]
              /\ Stop(th[ti[k]].result) /\ refs' = refs
           \/ /\ th[ti[k]].result = "ok" /\ k = 1
              /\ th' = [th EXCEPT ![ti[k]].completedEvent = FALSE, ![ti[k]].isFree = TRUE]
              /\ main' = [main EXCEPT !.threadIndices = Tail(@), !.thread = ti[k], !.pc = "drain"]
              /\ refs' = refs
           \/ th[ti[k]].result = "ok" /\ k > 1 /\ Detach(k)
  BY DEF AwaitCompletion
<1>3. PICK t \in Threads : t = ti[k]
  <2>1. ti \in Seq(Threads)
    BY MainFacts, Parts
  <2> QED
    BY <2>1
<1>4. CASE /\ th' = [th EXCEPT ![t].completedEvent = FALSE, ![t].isFree = TRUE]
           /\ Stop(th[t].result) /\ refs' = refs
  BY <1>1, <1>2, <1>3, <1>4, AwaitFailKeeps
<1>5. CASE /\ th[t].result = "ok" /\ k = 1
           /\ th' = [th EXCEPT ![t].completedEvent = FALSE, ![t].isFree = TRUE]
           /\ main' = [main EXCEPT !.threadIndices = Tail(main.threadIndices), !.thread = t,
                                   !.pc = "drain"]
           /\ refs' = refs
  BY <1>1, <1>2, <1>3, <1>5, AwaitFrontKeeps
<1>6. CASE k > 1 /\ Detach(k)
  BY <1>1, <1>2, <1>3, <1>6, DetachKeeps
<1> QED
  BY <1>2, <1>3, <1>4, <1>5, <1>6

(* The thread whose item is being finished.                                *)
LEMMA DrainedThread ==
  ASSUME IInv, main.pc = "drain", NEW t \in Threads, t = main.thread
  PROVE  /\ th[t].isFree /\ th[t].pc = "wait" /\ ~th[t].compressEvent /\ StreamFits(t)
         /\ th[t].result = "ok" /\ th[t].pass # 0 /\ th[t].item = main.itemIndex
         /\ th[t].item \in Items /\ arc.pos = main.itemIndex /\ main.list = {}
         /\ ~InFinalPhase /\ Finishing
<1>1. Finishing /\ ~InFinalPhase /\ main.list = {}
  BY Parts DEF Finishing, InFinalPhase, PhasesOfEnd
<1>2. th[t].isFree /\ th[t].item = main.itemIndex /\ arc.pos = main.itemIndex
      /\ main.itemIndex \in Items
  BY <1>1, FinishedItem, Parts DEF MainFits
<1>3. th[t].pc = "wait" /\ ~th[t].compressEvent
  BY <1>1, <1>2, Parts DEF Lifecycle
<1>4. StreamFits(t) /\ th[t].result = "ok"
  BY <1>2, <1>3, Parts DEF StreamsFit, Drained
<1>5. th[t].pass # 0
  BY <1>3, <1>4 DEF StreamFits
<1> QED
  BY <1>1, <1>2, <1>3, <1>4, <1>5

LEMMA DrainData ==
  ASSUME IInv, main.pc = "drain", NEW t \in Threads, t = main.thread,
         NEW i \in Items, i = main.itemIndex
  PROVE  /\ Contents(th[t].blocks, th[t].total) \in Seq(Stored)
         /\ arc.data[i] \o Contents(th[t].blocks, th[t].total)
              = PassData(i, th[t].pass, th[t].made)
<1> DEFINE chunks == Contents(th[t].blocks, th[t].total)
<1>1. /\ th[t].pc = "wait" /\ StreamFits(t) /\ th[t].result = "ok" /\ th[t].item = i
  BY DrainedThread
<1>2. /\ TypeOK /\ th[t].blocks \in Seq(Blocks) /\ th[t].total \in Nat /\ th[t].made \in Nat
      /\ arc.data \in [Items -> Seq(Stored)]
  BY Parts, ThreadFacts, StoreFacts, ConstantProperties, SMTT(30)
<1>3. CASE th[t].realMode
  <2>1. Emptied(t) /\ InFile(t)
    BY <1>1, <1>3 DEF StreamFits
  <2>2. chunks = <<>>
    BY <2>1 DEF Contents, Emptied
  <2>3. arc.data[i] = PassData(i, th[t].pass, th[t].made) /\ arc.data[i] \in Seq(Stored)
    BY <1>1, <1>2, <2>1 DEF InFile
  <2> HIDE DEF chunks
  <2>4. arc.data[i] \o chunks = arc.data[i] /\ chunks \in Seq(Stored)
    BY <2>2, <2>3
  <2> QED
    BY <2>3, <2>4 DEF chunks
<1>4. CASE ~th[t].realMode
  <2>1. InMemory(t)
    BY <1>1, <1>4 DEF StreamFits
  <2>2. /\ th[t].made = th[t].total /\ th[t].total <= Len(th[t].blocks)
        /\ \A k \in 1..th[t].total : mem[th[t].blocks[k]] = <<i, th[t].pass, k>>
        /\ arc.data[i] = <<>>
    BY <1>1, <2>1 DEF InMemory, HoldPass
  <2>3. /\ chunks \in Seq(Stored) /\ Len(chunks) = th[t].total
        /\ \A k \in 1..th[t].total : chunks[k] = mem[th[t].blocks[k]]
    BY <1>2, <2>2, ContentsType
  <2>4. chunks = PassData(i, th[t].pass, th[t].made)
    BY <2>2 DEF Contents, PassData
  <2> HIDE DEF chunks
  <2>5. <<>> \o chunks = chunks
    BY <2>3
  <2> QED
    BY <2>2, <2>3, <2>4, <2>5 DEF chunks
<1> QED
  BY <1>3, <1>4

(* What was in memory is in the file now, or the update fails.             *)
LEMMA DrainOkKeeps ==
  ASSUME IInv, main.pc = "drain", NEW t \in Threads, t = main.thread,
         NEW i \in Items, i = main.itemIndex,
         ChangesData(i), arc'.data[i] = PassData(i, th[t].pass, th[t].made),
         main' = [main EXCEPT !.pc = "free", !.next = "header", !.list = Range(th[t].blocks)],
         th' = [th EXCEPT ![t].blocks = <<>>, ![t].total = 0],
         refs' = refs, pool' = pool, mem' = mem
  PROVE  IInv'
<1>1. /\ th[t].isFree /\ th[t].pc = "wait" /\ th[t].pass # 0 /\ th[t].item = i
      /\ arc.pos = i /\ main.list = {} /\ ~InFinalPhase /\ Finishing
  BY DrainedThread
<1>2. /\ FirstItem = i + 1 /\ i \in Nat /\ (\A u \in Threads : ~Granted(u))
      /\ \A u \in Threads : ~th[u].isFree => u # t /\ th[u].item \in Items /\ th[u].item > i
  BY <1>1, FinishedItem
<1>3. /\ TypeOK /\ th \in [Threads -> ThreadType] /\ th[t] \in ThreadType
      /\ main \in MainType /\ th[t].blocks \in Seq(Blocks)
  BY Parts, ThreadFacts, MainFacts
<1>4. /\ th' \in [Threads -> ThreadType] /\ (\A u \in Threads : u # t => th'[u] = th[u])
      /\ th'[t].blocks = <<>>
      /\ \A u \in Threads :
           /\ th'[u].pc = th[u].pc /\ th'[u].compressEvent = th[u].compressEvent
           /\ th'[u].completedEvent = th[u].completedEvent
           /\ th'[u].exitThread = th[u].exitThread /\ th'[u].stopEvent = th[u].stopEvent
           /\ th'[u].realEvent = th[u].realEvent /\ th'[u].realMode = th[u].realMode
           /\ th'[u].unlockSent = th[u].unlockSent /\ th'[u].isFree = th[u].isFree
           /\ th'[u].item = th[u].item /\ th'[u].pass = th[u].pass
           /\ th'[u].made = th[u].made /\ th'[u].region = th[u].region
           /\ th'[u].result = th[u].result
  <2>1. <<>> \in Seq(Blocks) /\ 0 \in 0..MaxChunks
    BY ConstantProperties
  <2>2. th'[t] \in ThreadType /\ \A u \in Threads : u # t => th'[u] = th[u]
    BY <1>3, <2>1 DEF ThreadType
  <2>3. th' \in [Threads -> ThreadType]
    BY <1>3, <2>2
  <2>4. /\ th'[t].blocks = <<>>
        /\ th'[t].pc = th[t].pc /\ th'[t].compressEvent = th[t].compressEvent
        /\ th'[t].completedEvent = th[t].completedEvent
        /\ th'[t].exitThread = th[t].exitThread /\ th'[t].stopEvent = th[t].stopEvent
        /\ th'[t].realEvent = th[t].realEvent /\ th'[t].realMode = th[t].realMode
        /\ th'[t].unlockSent = th[t].unlockSent /\ th'[t].isFree = th[t].isFree
        /\ th'[t].item = th[t].item /\ th'[t].pass = th[t].pass
        /\ th'[t].made = th[t].made /\ th'[t].region = th[t].region
        /\ th'[t].result = th[t].result
    BY <1>3 DEF ThreadType
  <2> QED
    BY <2>2, <2>3, <2>4
<1>5. /\ main' \in MainType /\ main'.pc = "free" /\ main'.next = "header"
      /\ main'.list = Range(th[t].blocks) /\ main'.itemIndex = i
      /\ main'.mtItemIndex = main.mtItemIndex /\ main'.threadIndices = main.threadIndices
      /\ main'.lastReal = main.lastReal /\ main'.thread = t /\ main'.joining = main.joining
  <2> DEFINE list == Range(th[t].blocks)
  <2>1. list \in SUBSET Blocks /\ "free" \in MainPcs
    BY <1>3, Names DEF Range
  <2>2. main' = [main EXCEPT !.pc = "free", !.next = "header", !.list = list]
    OBVIOUS
  <2> HIDE DEF list
  <2>3. /\ main' \in MainType /\ main'.pc = "free" /\ main'.next = "header"
        /\ main'.list = list /\ main'.itemIndex = main.itemIndex
        /\ main'.mtItemIndex = main.mtItemIndex /\ main'.threadIndices = main.threadIndices
        /\ main'.lastReal = main.lastReal /\ main'.thread = main.thread
        /\ main'.joining = main.joining
    BY <1>3, <2>1, <2>2 DEF MainType
  <2> QED
    BY <2>3 DEF list
<1>6. /\ arc' \in ArcType /\ arc'.pos = i /\ arc'.order = arc.order
      /\ arc'.packSize = arc.packSize /\ arc'.lost = arc.lost
      /\ \A j \in Items : j # i => arc'.data[j] = arc.data[j]
  BY <1>1 DEF ChangesData
<1>7. /\ ~InFinalPhase' /\ Finishing' /\ ~AtStream' /\ ~AtStream /\ FirstItem' = FirstItem
      /\ EndItem' = EndItem /\ EndItem = main.mtItemIndex
  <2>1. ~InFinalPhase' /\ Finishing' /\ ~AtStream' /\ ~AtStream
    BY <1>5 DEF InFinalPhase, Finishing, AtStream
  <2> QED
    BY <1>1, <1>5, <2>1 DEF FirstItem, EndItem
<1>8. TypeOK'
  BY <1>3, <1>4, <1>5, <1>6 DEF TypeOK
<1>9. ListFits'
  <2>1. \A k \in 1..Len(main.threadIndices) : main.threadIndices[k] \in Threads
    <3>1. main.threadIndices \in Seq(Threads)
      BY MainFacts, Parts
    <3> QED
      BY <3>1
  <2> QED
    BY <1>1, <1>4, <1>5, <2>1, Parts DEF ListFits
<1>10. PoolIsBalanced'
  <2>1. /\ <<2, t>> \in Owners /\ <<1, 0>> \in Owners /\ <<2, t>> # <<1, 0>>
    BY OwnerCases
  <2> DEFINE B == Range(th[t].blocks)
  <2>2. B \subseteq BlocksOf(<<2, t>>)
    BY OwnersHave
  <2>3. BlocksOf(<<2, t>>)' = BlocksOf(<<2, t>>) \ B
    <3>1. Range(th'[t].blocks) = {}
      BY <1>4 DEF Range
    <3> QED
      BY <3>1, OwnersHave
  <2>4. BlocksOf(<<1, 0>>)' = BlocksOf(<<1, 0>>) \cup B
    BY <1>1, <1>5, OwnersHave
  <2>5. ASSUME NEW o \in Owners, o # <<2, t>>, o # <<1, 0>>
        PROVE  BlocksOf(o)' = BlocksOf(o)
    <3>1. CASE o = <<0, 0>>
      BY <3>1, OwnersHave
    <3>2. ASSUME NEW u \in Threads, o = <<2, u>> PROVE BlocksOf(o)' = BlocksOf(o)
      <4>1. th'[u] = th[u]
        BY <1>4, <2>5, <3>2
      <4> QED
        BY <3>2, <4>1, OwnersHave
    <3>3. ASSUME NEW j \in Items, o = <<3, j>> PROVE BlocksOf(o)' = BlocksOf(o)
      BY <3>3, OwnersHave
    <3> QED
      BY <2>5, <3>1, <3>2, <3>3, OwnerCases
  <2>6. \A u \in Threads : IsInjective(th'[u].blocks)
    <3>1. IsInjective(th'[t].blocks)
      BY <1>4 DEF IsInjective
    <3> QED
      BY <1>4, <3>1, Parts DEF BlocksAreOwned
  <2>7. \A j \in Items : IsInjective(refs'[j].blocks)
    BY Parts DEF BlocksAreOwned
  <2>8. BlocksAreOwned'
    <3> HIDE DEF B
    <3> QED
      BY <2>1, <2>2, <2>3, <2>4, <2>5, <2>6, <2>7, Parts, MoveBlocks
  <2>9. Promised' = Promised
    BY <1>4 DEF Promised
  <2>10. SemaphoreCounts'
    BY <1>5, <2>9, Parts DEF SemaphoreCounts
  <2> QED
    BY <1>5, <2>8, <2>10 DEF PoolIsBalanced
<1>11. \A u \in Threads : Lifecycle(u)'
  BY <1>1, <1>4, <1>5, <1>7, Parts DEF Lifecycle
<1>12. PhasesOfEnd'
  BY <1>1, <1>5, <1>7, Parts DEF PhasesOfEnd
<1>13. ItemsHaveThreads'
  <2>1. \A u \in Threads : \A j : Running(u, j)' <=> Running(u, j)
    BY <1>4 DEF Running
  <2>2. /\ \A u \in Threads : ~th[u].isFree => th[u].item \in Items
        /\ \A u, v \in Threads : ~th[u].isFree /\ Running(v, th[u].item) => u = v
        /\ i <= EndItem
        /\ \A u \in Threads : ~th[u].isFree =>
             /\ th[u].item \in FirstItem..(EndItem - 1) /\ Kind[th[u].item] = "new"
             /\ ~refs[th[u].item].skip /\ ~refs[th[u].item].defined
        /\ \A j \in FirstItem..(EndItem - 1) :
             Kind[j] = "new" => \/ refs[j].skip \/ refs[j].defined
                                \/ \E u \in Threads : Running(u, j)
        /\ \A j \in Items :
             /\ refs[j].skip \/ refs[j].defined => Kind[j] = "new" /\ j < EndItem
             /\ refs[j].skip => MaySkip /\ ~refs[j].defined
    BY <1>1, Parts DEF ItemsHaveThreads
  <2>3. \A u, v \in Threads : ~th'[u].isFree /\ Running(v, th[u].item)' => u = v
    BY <1>4, <2>2 DEF Running
  <2> QED
    BY <1>4, <1>5, <1>7, <2>2, <2>3, SMTT(30) DEF ItemsHaveThreads, Running
<1>14. MainFits'
  <2>1. /\ i < main.mtItemIndex /\ Kind[i] = "new" /\ ~refs[i].skip /\ ~refs[i].defined
        /\ main.lastReal = i
    BY <1>1, Parts DEF MainFits
  <2> QED
    BY <1>1, <1>4, <1>5, <1>6, <1>7, <2>1 DEF MainFits
<1>15. FileIsGranted'
  <2>1. \A u \in Threads : ~Granted(u)'
    BY <1>2, <1>4 DEF Granted
  <2>2. \A u \in Threads : th'[u].realEvent \/ th'[u].realMode => th'[u].unlockSent
    BY <1>4, Parts DEF FileIsGranted
  <2> QED
    BY <1>5, <1>6, <1>7, <2>1, <2>2 DEF FileIsGranted
<1>16. ItemsInOrder'
  BY <1>5, <1>6, Parts DEF ItemsInOrder
<1>17. StreamsFit'
  <2>1. ASSUME NEW u \in Threads, ~th'[u].isFree, th'[u].pc # "exited" PROVE StreamFits(u)'
    <3>1. u # t /\ th'[u] = th[u] /\ ~th[u].isFree
      BY <1>1, <1>4, <2>1
    <3>2. th[u].item \in Items /\ th[u].item # i
      BY <1>2, <3>1
    <3>3. arc'.data[th[u].item] = arc.data[th[u].item] /\ SameWork(u)
      BY <1>6, <3>1, <3>2 DEF SameWork
    <3>4. StreamFits(u)
      BY <2>1, <3>1, Parts DEF StreamsFit
    <3> QED
      BY <3>3, <3>4, SameWorkFits
  <2>2. ASSUME NEW u \in Threads, th'[u].isFree PROVE th'[u].blocks = <<>>
    <3>1. CASE u = t
      BY <1>4, <3>1
    <3>2. CASE u # t
      <4>1. th'[u] = th[u] /\ ~Drained(u)
        BY <1>4, <3>2 DEF Drained
      <4> QED
        BY <1>1, <2>2, <4>1, Parts DEF StreamsFit
    <3> QED
      BY <3>1, <3>2
  <2>3. InFile(t)' /\ th'[t].pass # 0
    <3>1. th'[t].item = i /\ th'[t].pass = th[t].pass /\ th'[t].made = th[t].made
      BY <1>1, <1>4
    <3>2. arc'.data[i] = [k \in 1..th[t].made |-> <<i, th[t].pass, k>>]
      BY DEF PassData
    <3> QED
      BY <1>1, <3>1, <3>2 DEF InFile, PassData
  <2> QED
    BY <1>5, <1>7, <2>1, <2>2, <2>3 DEF StreamsFit, Drained
<1>18. ItemsFit'
  <2>1. \A j \in i..N : j \in Items
    BY <1>2, ConstantProperties DEF Items
  <2>2. \A j \in i..N : refs[j].defined =>
          /\ refs[j].packSize = refs[j].total
          /\ \E m \in 1..NumMethods : HoldPass(refs[j].blocks, j, m, refs[j].total)'
    BY <1>1, Parts DEF ItemsFit, HoldPass
  <2>3. \A j \in i..N : /\ arc'.packSize[j] = 0
                        /\ j > i => arc'.data[j] = <<>>
    BY <1>2, <1>6, <2>1, Parts DEF ItemsFit
  <2>4. \A j \in Items : ~refs[j].defined => refs[j].blocks = <<>>
    BY Parts DEF ItemsFit
  <2>5. arc'.pos # None
    BY <1>6, ConstantProperties
  <2> QED
    BY <1>5, <2>2, <2>3, <2>4, <2>5 DEF ItemsFit
<1>19. DataIsWhole'
  <2>1. \A j \in Range(arc.order) : Written(j) => Written(j)'
    BY <1>2, <1>6, WrittenItems DEF Written
  <2> QED
    BY <1>5, <1>6, <2>1, DataStaysWhole
<1> QED
  BY <1>8, <1>9, <1>10, <1>11, <1>12, <1>13, <1>14, <1>15, <1>16, <1>17, <1>18, <1>19,
     PartsFitNext

LEMMA DrainKeeps == ASSUME IInv, Drain PROVE IInv'
<1>1. main.pc = "drain" /\ refs' = refs /\ pool' = pool /\ mem' = mem
  BY DEF Drain
<1>2. Finishing
  BY <1>1 DEF Finishing
<1>3. PICK i \in Items : i = main.itemIndex
  BY <1>2, FinishedItem
<1>4. PICK t \in Threads : t = main.thread
  BY <1>2, Parts DEF MainFits
<1> DEFINE chunks == Contents(th[t].blocks, th[t].total)
<1>5. /\ chunks \in Seq(Stored)
      /\ arc.data[i] \o chunks = PassData(i, th[t].pass, th[t].made)
  BY <1>1, <1>3, <1>4, DrainData
<1>6. arc.pos = i /\ TypeOK /\ ~InFinalPhase
  BY <1>1, <1>3, <1>4, DrainedThread, Parts
<1> HIDE DEF chunks
<1>7. \/ /\ Append2File(chunks)
         /\ main' = [main EXCEPT !.pc = "free", !.next = "header", !.list = Range(th[t].blocks)]
         /\ th' = [th EXCEPT ![t].blocks = <<>>, ![t].total = 0]
      \/ AppendPrefix(chunks) /\ Stop("fail") /\ th' = th
  BY <1>4 DEF Drain, chunks
<1>8. CASE /\ Append2File(chunks)
           /\ main' = [main EXCEPT !.pc = "free", !.next = "header",
                                   !.list = Range(th[t].blocks)]
           /\ th' = [th EXCEPT ![t].blocks = <<>>, ![t].total = 0]
  <2>1. ChangesData(arc.pos) /\ arc'.data[arc.pos] = arc.data[arc.pos] \o chunks
    BY <1>5, <1>6, <1>8, AppendEffect
  <2>2. ChangesData(i) /\ arc'.data[i] = PassData(i, th[t].pass, th[t].made)
    BY <1>5, <1>6, <2>1
  <2> QED
    BY <1>1, <1>3, <1>4, <1>8, <2>2, DrainOkKeeps
<1>9. CASE AppendPrefix(chunks) /\ Stop("fail") /\ th' = th
  <2>1. ChangesData(arc.pos)
    BY <1>5, <1>6, <1>9, PrefixEffect
  <2>2. /\ main' \in MainType /\ main'.pc = "stop" /\ main'.itemIndex = main.itemIndex
        /\ main'.lastReal = main.lastReal /\ main'.list = main.list
        /\ main'.joining = main.joining /\ main'.next = main.next
    BY <1>6, <1>9, StopFields, Names
  <2>3. th' \in [Threads -> ThreadType]
    BY <1>6, <1>9 DEF TypeOK
  <2>4. GoesToEnd
    BY <1>1, <1>2, <1>3, <1>6, <1>9, <2>1, <2>2, <2>3 DEF GoesToEnd, ChangesData
  <2> QED
    BY <1>1, <1>6, <2>4, EndKeeps
<1> QED
  BY <1>7, <1>8, <1>9

LEMMA WriteHeaderKeeps == ASSUME IInv, WriteHeader PROVE IInv'
<1>1. /\ main.pc = "header" /\ th' = th /\ refs' = refs /\ pool' = pool /\ mem' = mem
      /\ \/ /\ arc' = [arc EXCEPT !.pos = None,
                                  !.order = Append(arc.order, main.itemIndex),
                                  !.packSize[main.itemIndex] = th[main.thread].made]
            /\ main' = [main EXCEPT !.itemIndex = main.itemIndex + 1, !.pc = "top"]
         \/ arc' = [arc EXCEPT !.pos = None] /\ Stop("fail")
  BY DEF WriteHeader
<1>2. /\ Finishing /\ ~AtStream /\ ~InFinalPhase /\ FirstItem = main.itemIndex + 1
      /\ EndItem = main.mtItemIndex /\ main.list = {} /\ main.next # "done"
  BY <1>1, Parts DEF Finishing, AtStream, InFinalPhase, FirstItem, EndItem, PhasesOfEnd
<1>3. PICK i \in Items : i = main.itemIndex
  BY <1>2, FinishedItem
<1>4. /\ i \in Nat /\ (\A u \in Threads : ~Granted(u))
      /\ \A u \in Threads : ~th[u].isFree => th[u].item \in Items /\ th[u].item > i
  BY <1>2, <1>3, FinishedItem
<1>5. PICK t \in Threads : t = main.thread
  BY <1>2, Parts DEF MainFits
<1>6. i < main.mtItemIndex /\ main.mtItemIndex \in Nat /\ main \in MainType
      /\ TypeOK /\ arc \in ArcType /\ main.itemIndex >= 1 /\ N \in Nat
  BY <1>2, <1>3, Parts, MainFacts, StoreFacts, ConstantProperties DEF MainFits
<1>7. CASE arc' = [arc EXCEPT !.pos = None] /\ Stop("fail")
  BY <1>1, <1>2, <1>4, <1>7, StopKeeps, Names
<1>8. CASE /\ arc' = [arc EXCEPT !.pos = None, !.order = Append(arc.order, i),
                                 !.packSize[i] = th[t].made]
           /\ main' = [main EXCEPT !.itemIndex = i + 1, !.pc = "top"]
  <2>1. /\ main' \in MainType /\ main'.pc = "top" /\ main'.itemIndex = i + 1
        /\ main'.mtItemIndex = main.mtItemIndex /\ main'.threadIndices = main.threadIndices
        /\ main'.list = main.list /\ main'.next = main.next /\ main'.joining = main.joining
    <3>1. "top" \in MainPcs /\ i + 1 \in 1..(N + 1)
      BY Names, ConstantProperties
    <3> QED
      BY <1>6, <1>8, <3>1 DEF MainType
  <2>2. /\ arc' \in ArcType /\ arc'.pos = None /\ arc'.order = Append(arc.order, i)
        /\ arc'.data = arc.data /\ arc'.packSize[i] = th[t].made /\ arc'.lost = arc.lost
        /\ \A j \in Items : j # i => arc'.packSize[j] = arc.packSize[j]
    <3> DEFINE order == Append(arc.order, i)
               sizes == [arc.packSize EXCEPT ![i] = th[t].made]
    <3>1. /\ order \in Seq(Items) /\ sizes \in [Items -> 0..MaxChunks] /\ None \in 0..N
          /\ sizes[i] = th[t].made /\ \A j \in Items : j # i => sizes[j] = arc.packSize[j]
      BY <1>6, StoreFacts, ThreadFacts, ConstantProperties DEF None
    <3>2. arc' = [arc EXCEPT !.pos = None, !.order = order, !.packSize = sizes]
      BY <1>8
    <3> HIDE DEF order, sizes
    <3>3. /\ arc' \in ArcType /\ arc'.pos = None /\ arc'.order = order
          /\ arc'.data = arc.data /\ arc'.packSize = sizes /\ arc'.lost = arc.lost
      BY <1>6, <3>1, <3>2 DEF ArcType
    <3> QED
      BY <3>1, <3>3 DEF order
  <2>3. /\ ~InFinalPhase' /\ ~Finishing' /\ ~AtStream' /\ FirstItem' = FirstItem
        /\ EndItem' = EndItem
    <3>1. ~InFinalPhase' /\ ~Finishing' /\ ~AtStream'
      BY <2>1 DEF InFinalPhase, Finishing, AtStream
    <3> QED
      BY <1>2, <1>3, <2>1, <3>1 DEF FirstItem, EndItem
  <2>4. TypeOK'
    BY <1>1, <1>6, <2>1, <2>2 DEF TypeOK
  <2>5. ListFits'
    BY <1>1, <1>2, <2>1, Parts DEF ListFits
  <2>6. PoolIsBalanced'
    BY <1>1, <2>1, PoolStays
  <2>7. \A u \in Threads : Lifecycle(u)'
    BY <1>1, <1>2, <2>1, SameLives
  <2>8. PhasesOfEnd'
    BY <1>2, <2>1, <2>3, Parts DEF PhasesOfEnd
  <2>9. ItemsHaveThreads'
    <3>1. i + 1 <= EndItem
      BY <1>2, <1>4, <1>6
    <3> QED
      BY <1>1, <1>2, <2>1, <2>3, <3>1, Parts DEF ItemsHaveThreads, Running
  <2>10. MainFits'
    BY <2>1, <2>3 DEF MainFits
  <2>11. FileIsGranted'
    <3>1. \A u \in Threads : ~Granted(u)'
      BY <1>1, <1>4 DEF Granted
    <3> QED
      BY <1>1, <2>2, <3>1, Parts DEF FileIsGranted
  <2>12. ItemsInOrder' /\ Range(arc'.order) = Range(arc.order) \cup {i}
    BY <1>1, <1>3, <2>1, <2>2, OrderGrows
  <2>13. StreamsFit'
    <3>1. \A u \in Threads : StreamFits(u)' <=> StreamFits(u)
      BY <1>1, <2>2, SameStreams
    <3>2. \A u \in Threads : ~Drained(u) /\ ~Drained(u)'
      BY <1>1, <2>1 DEF Drained
    <3> QED
      BY <1>1, <1>2, <2>1, <2>3, <3>1, <3>2, Parts DEF StreamsFit
  <2>14. ItemsFit'
    <3>1. \A j \in (i + 1)..N : j \in i..N /\ j > i /\ j \in Items /\ j # i
      BY <1>4, <1>6 DEF Items
    <3>2. ASSUME NEW j \in (i + 1)..N, refs[j].defined
          PROVE  /\ refs[j].packSize = refs[j].total
                 /\ \E m \in 1..NumMethods : HoldPass(refs[j].blocks, j, m, refs[j].total)'
      <4>1. refs[j].packSize = refs[j].total
        BY <1>2, <1>3, <3>1, <3>2, Parts DEF ItemsFit
      <4>2. PICK m \in 1..NumMethods : HoldPass(refs[j].blocks, j, m, refs[j].total)
        BY <1>2, <1>3, <3>1, <3>2, Parts DEF ItemsFit
      <4>3. HoldPass(refs[j].blocks, j, m, refs[j].total)'
        BY <1>1, <4>2 DEF HoldPass
      <4> QED
        BY <4>1, <4>3
    <3>3. \A j \in (i + 1)..N : arc'.packSize[j] = 0 /\ arc'.data[j] = <<>>
      BY <1>3, <2>2, <3>1, Parts DEF ItemsFit
    <3>4. \A j \in Items : ~refs[j].defined => refs[j].blocks = <<>>
      BY Parts DEF ItemsFit
    <3> QED
      BY <1>1, <2>1, <3>2, <3>3, <3>4 DEF ItemsFit
  <2>15. DataIsWhole'
    <3>1. Written(i)'
      <4>1. InFile(t) /\ th[t].item = i
        BY <1>1, <1>2, <1>3, <1>5, Parts DEF StreamsFit, MainFits
      <4>2. Len(PassData(i, th[t].pass, th[t].made)) = th[t].made
        <5>1. th[t].made \in Nat
          BY <1>6, ThreadFacts, ConstantProperties
        <5> QED
          BY <5>1 DEF PassData
      <4> QED
        BY <2>2, <4>1, <4>2 DEF Written, InFile
    <3>2. \A j \in Range(arc.order) : Written(j) => Written(j)'
      BY <1>3, <2>2, WrittenItems DEF Written
    <3> QED
      BY <1>1, <2>2, <2>12, <3>1, <3>2, DataStaysWhole
  <2> QED
    BY <2>4, <2>5, <2>6, <2>7, <2>8, <2>9, <2>10, <2>11, <2>12, <2>13, <2>14, <2>15,
       PartsFitNext
<1> QED
  BY <1>1, <1>3, <1>5, <1>7, <1>8

(* While the main thread gives blocks back, it stays where it is with the  *)
(* items, and what the others hold stays as it is.                         *)
StaysInPlace ==
  /\ main.pc \in {"free", "release"} /\ main' \in MainType
  /\ main'.pc \in {"free", "release", "top", "header", "done"}
  /\ main'.itemIndex = main.itemIndex /\ main'.mtItemIndex = main.mtItemIndex
  /\ main'.threadIndices = main.threadIndices /\ main'.lastReal = main.lastReal
  /\ main'.thread = main.thread /\ main'.joining = main.joining
  /\ (InFinalPhase' <=> InFinalPhase) /\ (Finishing' <=> Finishing)
  /\ th' = th /\ refs' = refs /\ arc' = arc
  /\ pool' \in PoolType /\ mem' \in [Blocks -> Stored]
  /\ \A t \in Threads, k \in 1..MaxChunks :
       k <= Len(th[t].blocks) => mem'[th[t].blocks[k]] = mem[th[t].blocks[k]]
  /\ \A i \in Items, k \in 1..MaxChunks :
       k <= Len(refs[i].blocks) => mem'[refs[i].blocks[k]] = mem[refs[i].blocks[k]]

LEMMA StayKeeps ==
  ASSUME IInv, StaysInPlace, PoolIsBalanced', PhasesOfEnd' PROVE IInv'
<1>1. /\ main.pc \in {"free", "release"} /\ main' \in MainType
      /\ main'.pc \in {"free", "release", "top", "header", "done"}
      /\ main'.itemIndex = main.itemIndex /\ main'.mtItemIndex = main.mtItemIndex
      /\ main'.threadIndices = main.threadIndices /\ main'.lastReal = main.lastReal
      /\ main'.thread = main.thread /\ main'.joining = main.joining
      /\ (InFinalPhase' <=> InFinalPhase) /\ (Finishing' <=> Finishing)
      /\ th' = th /\ refs' = refs /\ arc' = arc
  BY DEF StaysInPlace
<1>2. TypeOK /\ main.itemIndex \in Nat /\ main.itemIndex >= 1
  BY Parts, MainFacts
<1>3. ~AtStream' /\ ~AtStream
  BY <1>1 DEF AtStream
<1>4. FirstItem' = FirstItem /\ EndItem' = EndItem
  BY <1>1, <1>3 DEF FirstItem, EndItem
<1>5. TypeOK'
  BY <1>1, <1>2 DEF TypeOK, StaysInPlace
<1>6. ListFits'
  BY <1>1, Parts DEF ListFits
<1>7. \A t \in Threads : Lifecycle(t)'
  BY <1>1, SameLives
<1>8. ItemsHaveThreads'
  BY <1>1, <1>4, Parts DEF ItemsHaveThreads, Running
<1>9. MainFits'
  BY <1>1, <1>3, Parts DEF MainFits
<1>10. FileIsGranted'
  BY <1>1, Parts DEF FileIsGranted, Granted
<1>11. ItemsInOrder'
  BY <1>1, Parts DEF ItemsInOrder
<1>12. \A t \in Threads : StreamFits(t) => StreamFits(t)'
  <2>1. SUFFICES ASSUME NEW t \in Threads, StreamFits(t) PROVE StreamFits(t)'
    OBVIOUS
  <2>2. ASSUME InMemory(t) PROVE InMemory(t)'
    <3>1. th[t].total \in 0..MaxChunks /\ MaxChunks \in Nat
      BY <1>2, ThreadFacts, ConstantProperties
    <3>2. ASSUME HoldPass(th[t].blocks, th[t].item, th[t].pass, th[t].total)
          PROVE  HoldPass(th[t].blocks, th[t].item, th[t].pass, th[t].total)'
      <4>1. \A k \in 1..th[t].total : k \in 1..MaxChunks /\ k <= Len(th[t].blocks)
        <5>1. th[t].total <= Len(th[t].blocks) /\ Len(th[t].blocks) \in Nat
          BY <1>2, <3>2, ThreadFacts DEF HoldPass
        <5> QED
          BY <3>1, <5>1
      <4>2. \A k \in 1..th[t].total : mem'[th[t].blocks[k]] = mem[th[t].blocks[k]]
        BY <4>1 DEF StaysInPlace
      <4> QED
        BY <1>1, <3>2, <4>2 DEF HoldPass
    <3> QED
      BY <1>1, <2>2, <3>2 DEF InMemory
  <2>3. InFile(t) => InFile(t)'
    BY <1>1 DEF InFile, PassData
  <2>4. Emptied(t) => Emptied(t)'
    BY <1>1 DEF Emptied
  <2> QED
    BY <1>1, <2>1, <2>2, <2>3, <2>4 DEF StreamFits
<1>13. StreamsFit'
  <2>1. \A t \in Threads : ~Drained(t) /\ ~Drained(t)'
    BY <1>1 DEF Drained
  <2>2. Finishing => InFile(main.thread)' /\ th[main.thread].pass # 0
    BY <1>1, Parts DEF StreamsFit, InFile, PassData
  <2> QED
    BY <1>1, <1>12, <2>1, <2>2, Parts DEF StreamsFit, InFile
<1>14. ItemsFit'
  <2>1. ASSUME NEW i \in main.itemIndex..N, ~InFinalPhase, refs[i].defined
        PROVE  /\ refs[i].packSize = refs[i].total
               /\ \E m \in 1..NumMethods : HoldPass(refs[i].blocks, i, m, refs[i].total)'
    <3>1. refs[i].packSize = refs[i].total
      BY <2>1, Parts DEF ItemsFit
    <3>2. PICK m \in 1..NumMethods : HoldPass(refs[i].blocks, i, m, refs[i].total)
      BY <2>1, Parts DEF ItemsFit
    <3>3. i \in Items
      BY <1>2, ConstantProperties DEF Items
    <3>4. \A k \in 1..refs[i].total : k \in 1..MaxChunks /\ k <= Len(refs[i].blocks)
      <4>1. /\ refs[i].total <= Len(refs[i].blocks) /\ Len(refs[i].blocks) \in Nat
            /\ refs[i].total \in 0..MaxChunks /\ MaxChunks \in Nat
        BY <1>2, <3>2, <3>3, RefFacts, ConstantProperties DEF HoldPass
      <4> QED
        BY <4>1
    <3>5. \A k \in 1..refs[i].total : mem'[refs[i].blocks[k]] = mem[refs[i].blocks[k]]
      BY <3>3, <3>4 DEF StaysInPlace
    <3>6. HoldPass(refs[i].blocks, i, m, refs[i].total)'
      BY <1>1, <3>2, <3>5 DEF HoldPass
    <3> QED
      BY <3>1, <3>6
  <2> QED
    BY <1>1, <2>1, Parts DEF ItemsFit
<1>15. DataIsWhole'
  BY <1>1, Parts DEF DataIsWhole, Written
<1> QED
  BY <1>5, <1>6, <1>7, <1>8, <1>9, <1>10, <1>11, <1>13, <1>14, <1>15, PartsFitNext

(* The main thread gives the blocks of its list back, one by one.          *)
LEMMA MainFreeKeeps == ASSUME IInv, MainFreeBlock PROVE IInv'
<1>1. main.pc = "free" /\ th' = th /\ refs' = refs /\ arc' = arc
  BY DEF MainFreeBlock
<1>2. PICK b \in main.list : /\ pool' = [pool EXCEPT !.free = pool.free \cup {b}]
                             /\ mem' = [mem EXCEPT ![b] = Erased]
                             /\ main' = [main EXCEPT !.list = main.list \ {b}, !.pc = "release"]
  BY DEF MainFreeBlock
<1>3. /\ TypeOK /\ main \in MainType /\ pool \in PoolType /\ pool.free \subseteq Blocks
      /\ mem \in [Blocks -> Stored] /\ main.list \subseteq Blocks /\ b \in Blocks
  BY Parts, MainFacts, StoreFacts
<1>4. /\ main' \in MainType /\ main'.pc = "release" /\ main'.list = main.list \ {b}
      /\ main'.itemIndex = main.itemIndex /\ main'.mtItemIndex = main.mtItemIndex
      /\ main'.threadIndices = main.threadIndices /\ main'.lastReal = main.lastReal
      /\ main'.thread = main.thread /\ main'.next = main.next /\ main'.joining = main.joining
  <2>1. "release" \in MainPcs /\ main.list \ {b} \in SUBSET Blocks
    BY <1>3, Names
  <2> QED
    BY <1>2, <1>3, <2>1 DEF MainType
<1>5. /\ pool' \in PoolType /\ pool'.free = pool.free \cup {b} /\ pool'.sem = pool.sem
  BY <1>2, <1>3 DEF PoolType
<1>6. /\ mem' \in [Blocks -> Stored] /\ \A x \in Blocks : x # b => mem'[x] = mem[x]
  BY <1>2, <1>3 DEF Stored
<1>7. /\ InFinalPhase' <=> InFinalPhase
      /\ Finishing' <=> Finishing
  BY <1>1, <1>4 DEF InFinalPhase, Finishing
<1>8. /\ b \notin pool.free
      /\ \A t \in Threads : b \notin Range(th[t].blocks)
      /\ \A i \in Items : b \notin Range(refs[i].blocks)
  BY <1>3, Parts, OwnBlocks
<1>9. ASSUME NEW s \in Seq(Blocks), b \notin Range(s), NEW k \in 1..MaxChunks, k <= Len(s)
      PROVE  mem'[s[k]] = mem[s[k]]
  <2>1. k \in 1..Len(s)
    BY <1>9, ConstantProperties
  <2>2. s[k] \in Blocks /\ s[k] # b
    BY <1>9, <2>1 DEF Range
  <2> QED
    BY <1>6, <2>2
<1>10. StaysInPlace
  <2>1. \A t \in Threads, k \in 1..MaxChunks :
          k <= Len(th[t].blocks) => mem'[th[t].blocks[k]] = mem[th[t].blocks[k]]
    BY <1>3, <1>8, <1>9, ThreadFacts
  <2>2. \A i \in Items, k \in 1..MaxChunks :
          k <= Len(refs[i].blocks) => mem'[refs[i].blocks[k]] = mem[refs[i].blocks[k]]
    BY <1>3, <1>8, <1>9, RefFacts
  <2> QED
    BY <1>1, <1>4, <1>5, <1>6, <1>7, <2>1, <2>2 DEF StaysInPlace
<1>11. PoolIsBalanced'
  <2>1. /\ <<1, 0>> \in Owners /\ <<0, 0>> \in Owners /\ <<1, 0>> # <<0, 0>>
    BY OwnerCases
  <2>2. /\ {b} \subseteq BlocksOf(<<1, 0>>)
        /\ BlocksOf(<<1, 0>>)' = BlocksOf(<<1, 0>>) \ {b}
        /\ BlocksOf(<<0, 0>>)' = BlocksOf(<<0, 0>>) \cup {b}
    BY <1>4, <1>5, OwnersHave
  <2>3. \A o \in Owners : o # <<1, 0>> /\ o # <<0, 0>> => BlocksOf(o)' = BlocksOf(o)
    BY <1>1, OwnersHave, OwnerCases
  <2>4. /\ \A t \in Threads : IsInjective(th'[t].blocks)
        /\ \A i \in Items : IsInjective(refs'[i].blocks)
    BY <1>1, Parts DEF BlocksAreOwned
  <2>5. BlocksAreOwned'
    BY <2>1, <2>2, <2>3, <2>4, Parts, MoveBlocks
  <2>6. Cardinality(pool'.free) = Cardinality(pool.free) + 1
    <3>1. IsFiniteSet(pool.free)
      BY BlockPromised
    <3> QED
      BY <1>5, <1>8, <3>1, FS_AddElement
  <2>7. Promised' = Promised
    BY <1>1 DEF Promised
  <2>8. SemaphoreCounts'
    <3>1. Cardinality(pool.free) = pool.sem + Cardinality(Promised)
      BY <1>1, Parts, BlockPromised DEF SemaphoreCounts
    <3> QED
      BY <1>4, <1>5, <2>6, <2>7, <3>1, BlockPromised DEF SemaphoreCounts
  <2> QED
    BY <1>4, <2>5, <2>8 DEF PoolIsBalanced
<1>12. PhasesOfEnd'
  BY <1>1, <1>4, <1>7, Parts DEF PhasesOfEnd
<1> QED
  BY <1>10, <1>11, <1>12, StayKeeps

LEMMA MainReleaseKeeps == ASSUME IInv, MainReleaseBlock PROVE IInv'
<1>1. /\ main.pc = "release" /\ th' = th /\ refs' = refs /\ arc' = arc /\ mem' = mem
      /\ pool' = [pool EXCEPT !.sem = Released(1)] /\ main' = [main EXCEPT !.pc = "free"]
  BY DEF MainReleaseBlock
<1>2. /\ TypeOK /\ main \in MainType /\ pool \in PoolType /\ mem \in [Blocks -> Stored]
  BY Parts, MainFacts, StoreFacts
<1>3. /\ main' \in MainType /\ main'.pc = "free" /\ main'.list = main.list
      /\ main'.itemIndex = main.itemIndex /\ main'.mtItemIndex = main.mtItemIndex
      /\ main'.threadIndices = main.threadIndices /\ main'.lastReal = main.lastReal
      /\ main'.thread = main.thread /\ main'.next = main.next /\ main'.joining = main.joining
  <2>1. "free" \in MainPcs
    BY Names
  <2> QED
    BY <1>1, <1>2, <2>1 DEF MainType
<1>4. Released(1) = pool.sem + 1 /\ pool.sem + 1 \in 0..NumBlocks
  <2>1. /\ pool.sem \in Nat /\ pool.sem + 1 <= Cardinality(pool.free)
        /\ Cardinality(pool.free) <= NumBlocks /\ Cardinality(pool.free) \in Nat
        /\ NumBlocks \in Nat
    BY <1>1, BlockPromised, ConstantProperties
  <2> QED
    BY <2>1 DEF Released
<1>5. pool' \in PoolType /\ pool'.free = pool.free /\ pool'.sem = pool.sem + 1
  BY <1>1, <1>2, <1>4 DEF PoolType
<1>6. /\ InFinalPhase' <=> InFinalPhase
      /\ Finishing' <=> Finishing
  BY <1>1, <1>3 DEF InFinalPhase, Finishing
<1>7. StaysInPlace
  BY <1>1, <1>2, <1>3, <1>5, <1>6 DEF StaysInPlace
<1>8. PoolIsBalanced'
  <2>1. BlocksAreOwned'
    BY <1>1, <1>3, <1>5, Parts, SameOwners
  <2>2. Promised' = Promised
    BY <1>1 DEF Promised
  <2>3. SemaphoreCounts'
    <3>1. Cardinality(pool.free) = pool.sem + Cardinality(Promised) + 1
      BY <1>1, Parts DEF SemaphoreCounts
    <3> QED
      BY <1>3, <1>5, <2>2, <3>1, BlockPromised DEF SemaphoreCounts
  <2> QED
    BY <1>3, <2>1, <2>3 DEF PoolIsBalanced
<1>9. PhasesOfEnd'
  BY <1>1, <1>3, <1>6, Parts DEF PhasesOfEnd
<1> QED
  BY <1>7, <1>8, <1>9, StayKeeps

(* At the very end nobody holds a block or is promised one.                *)
LEMMA MainFreeDoneKeeps == ASSUME IInv, MainFreeDone PROVE IInv'
<1>1. /\ main.pc = "free" /\ main.list = {} /\ main' = [main EXCEPT !.pc = main.next]
      /\ th' = th /\ refs' = refs /\ pool' = pool /\ mem' = mem /\ arc' = arc
  BY DEF MainFreeDone
<1>2. /\ TypeOK /\ main \in MainType /\ pool \in PoolType /\ mem \in [Blocks -> Stored]
      /\ main.next \in {"top", "header", "done"}
  BY Parts, MainFacts, StoreFacts
<1>3. /\ main' \in MainType /\ main'.pc = main.next /\ main'.list = main.list
      /\ main'.itemIndex = main.itemIndex /\ main'.mtItemIndex = main.mtItemIndex
      /\ main'.threadIndices = main.threadIndices /\ main'.lastReal = main.lastReal
      /\ main'.thread = main.thread /\ main'.next = main.next /\ main'.joining = main.joining
  <2>1. main.next \in MainPcs
    BY <1>2, Names
  <2> QED
    BY <1>1, <1>2, <2>1 DEF MainType
<1>4. /\ InFinalPhase' <=> InFinalPhase
      /\ Finishing' <=> Finishing
  BY <1>1, <1>2, <1>3 DEF InFinalPhase, Finishing
<1>5. StaysInPlace
  BY <1>1, <1>2, <1>3, <1>4 DEF StaysInPlace
<1>6. PhasesOfEnd'
  BY <1>1, <1>2, <1>3, <1>4, Parts DEF PhasesOfEnd
<1>7. PoolIsBalanced'
  <2>1. BlocksAreOwned'
    BY <1>1, <1>3, Parts, SameOwners
  <2>2. Promised' = Promised
    BY <1>1 DEF Promised
  <2>3. SemaphoreCounts'
    BY <1>1, <1>2, <1>3, <2>2, Parts DEF SemaphoreCounts
  <2>4. ASSUME main.next = "done" PROVE pool.sem = NumBlocks
    <3>1. /\ main.joining = NumThreads + 1
          /\ \A t \in Threads : th[t].blocks = <<>>
          /\ \A i \in Items : refs[i].blocks = <<>>
      BY <1>1, <2>4, Parts DEF PhasesOfEnd, InFinalPhase
    <3>2. \A t \in Threads : th[t].pc = "exited"
      <4>1. \A t \in Threads : t < main.joining
        BY <3>1, ConstantProperties DEF Threads
      <4> QED
        BY <4>1, Parts DEF Lifecycle
    <3>3. Cardinality(Promised) = 0
      <4>1. Promised = {}
        BY <3>2 DEF Promised
      <4> QED
        BY <4>1, FS_EmptySet
    <3>4. pool.free = Blocks
      <4>1. /\ \A t \in Threads : BlocksOf(<<2, t>>) = {}
            /\ \A i \in Items : BlocksOf(<<3, i>>) = {}
            /\ BlocksOf(<<1, 0>>) = {} /\ BlocksOf(<<0, 0>>) = pool.free
        <5>1. Range(<<>>) = {}
          BY DEF Range
        <5> QED
          BY <1>1, <3>1, <5>1, OwnersHave
      <4>2. \A b \in Blocks : b \in pool.free
        BY <4>1, OwnerCases, Parts DEF BlocksAreOwned
      <4>3. pool.free \subseteq Blocks
        BY <1>2, StoreFacts
      <4> QED
        BY <4>2, <4>3
    <3> QED
      BY <1>1, <3>3, <3>4, Parts, BlockPromised, ConstantProperties DEF SemaphoreCounts
  <2> QED
    BY <1>1, <1>3, <2>1, <2>3, <2>4 DEF PoolIsBalanced
<1> QED
  BY <1>5, <1>6, <1>7, StayKeeps

(* The threads are stopped and joined, then all the blocks are collected.  *)
LEMMA StopThreadKeeps == ASSUME IInv, StopThread PROVE IInv'
<1>1. /\ main.pc = "stop" /\ main.joining <= NumThreads
      /\ refs' = refs /\ pool' = pool /\ mem' = mem /\ arc' = arc
      /\ main' = [main EXCEPT !.pc = "join"]
      /\ th' = [th EXCEPT ![main.joining].exitThread = TRUE, ![main.joining].stopEvent = TRUE,
                          ![main.joining].compressEvent = TRUE]
  BY DEF StopThread
<1>2. TypeOK /\ main \in MainType /\ main.joining \in Nat /\ main.joining >= 1
      /\ main.itemIndex \in Nat
  BY Parts, MainFacts
<1>3. PICK t \in Threads : t = main.joining
  BY <1>1, <1>2, ConstantProperties DEF Threads
<1>4. th \in [Threads -> ThreadType] /\ th[t] \in ThreadType
  BY <1>2, ThreadFacts
<1>5. /\ th' \in [Threads -> ThreadType] /\ \A u \in Threads : u # t => th'[u] = th[u]
      /\ th'[t].exitThread /\ th'[t].compressEvent
      /\ \A u \in Threads :
           /\ th'[u].pc = th[u].pc /\ th'[u].realEvent = th[u].realEvent
           /\ th'[u].realMode = th[u].realMode /\ th'[u].unlockSent = th[u].unlockSent
           /\ th'[u].isFree = th[u].isFree /\ th'[u].item = th[u].item
           /\ th'[u].blocks = th[u].blocks /\ th'[u].total = th[u].total
           /\ th'[u].pass = th[u].pass /\ th'[u].made = th[u].made
           /\ th'[u].region = th[u].region /\ th'[u].result = th[u].result
  <2>1. th' = [th EXCEPT ![t].exitThread = TRUE, ![t].stopEvent = TRUE, ![t].compressEvent = TRUE]
    BY <1>1, <1>3
  <2>2. th'[t] \in ThreadType /\ \A u \in Threads : u # t => th'[u] = th[u]
    BY <1>4, <2>1 DEF ThreadType
  <2>3. th' \in [Threads -> ThreadType]
    BY <1>4, <2>1, <2>2
  <2>4. /\ th'[t].exitThread /\ th'[t].compressEvent
        /\ th'[t].pc = th[t].pc /\ th'[t].realEvent = th[t].realEvent
        /\ th'[t].realMode = th[t].realMode /\ th'[t].unlockSent = th[t].unlockSent
        /\ th'[t].isFree = th[t].isFree /\ th'[t].item = th[t].item
        /\ th'[t].blocks = th[t].blocks /\ th'[t].total = th[t].total
        /\ th'[t].pass = th[t].pass /\ th'[t].made = th[t].made
        /\ th'[t].region = th[t].region /\ th'[t].result = th[t].result
    BY <1>4, <2>1 DEF ThreadType
  <2> QED
    BY <2>2, <2>3, <2>4
<1>6. /\ main' \in MainType /\ main'.pc = "join" /\ main'.itemIndex = main.itemIndex
      /\ main'.list = main.list /\ main'.next = main.next /\ main'.joining = main.joining
      /\ main'.lastReal = main.lastReal
  <2>1. "join" \in MainPcs
    BY Names
  <2> QED
    BY <1>1, <1>2, <2>1 DEF MainType
<1>7. /\ InFinalPhase /\ InFinalPhase' /\ ~Finishing' /\ ~AtStream'
  BY <1>1, <1>6 DEF InFinalPhase, Finishing, AtStream
<1>8. TypeOK'
  BY <1>1, <1>2, <1>5, <1>6 DEF TypeOK
<1>9. ListFits'
  BY <1>7 DEF ListFits
<1>10. PoolIsBalanced'
  BY <1>1, <1>5, <1>6, PoolStays
<1>11. \A u \in Threads : Lifecycle(u)'
  <2>1. ASSUME NEW u \in Threads, u # t PROVE Lifecycle(u)'
    <3>1. Lifecycle(u) /\ th'[u] = th[u]
      BY <1>5, <2>1, Parts
    <3> QED
      BY <1>6, <1>7, <3>1 DEF Lifecycle
  <2>2. Lifecycle(t)'
    BY <1>3, <1>5, <1>6, <1>7, Parts DEF Lifecycle
  <2> QED
    BY <2>1, <2>2
<1>12. PhasesOfEnd'
  <2>1. main.list = {} /\ main.next # "done"
    BY <1>1, Parts DEF PhasesOfEnd
  <2> QED
    BY <1>3, <1>6, <1>7, <2>1 DEF PhasesOfEnd
<1>13. ItemsHaveThreads'
  BY <1>5, <1>7, Parts DEF ItemsHaveThreads, Running
<1>14. MainFits'
  BY <1>6, <1>7 DEF MainFits
<1>15. FileIsGranted'
  BY <1>1, <1>5, <1>6, <1>7, Parts DEF FileIsGranted, Granted
<1>16. ItemsInOrder'
  BY <1>1, <1>6, Parts DEF ItemsInOrder
<1>17. StreamsFit'
  <2>1. ASSUME NEW u \in Threads, ~th'[u].isFree, th'[u].pc # "exited" PROVE StreamFits(u)'
    <3>1. StreamFits(u)
      BY <1>5, <2>1, Parts DEF StreamsFit
    <3>2. CASE u # t
      <4>1. SameWork(u)
        BY <1>5, <3>2 DEF SameWork
      <4> QED
        BY <1>1, <3>1, <4>1, SameWorkFits
    <3>3. CASE u = t
      <4>1. /\ InMemory(t) => InMemory(t)'
            /\ InFile(t) => InFile(t)'
            /\ Emptied(t) => Emptied(t)'
        <5>1. /\ th'[t].made = th[t].made /\ th'[t].total = th[t].total
              /\ th'[t].blocks = th[t].blocks /\ th'[t].item = th[t].item
              /\ th'[t].pass = th[t].pass /\ th'[t].pc = th[t].pc
              /\ mem' = mem /\ arc' = arc
          BY <1>1, <1>5
        <5>2. HoldPass(th[t].blocks, th[t].item, th[t].pass, th[t].total) =>
                HoldPass(th[t].blocks, th[t].item, th[t].pass, th[t].total)'
          BY <5>1 DEF HoldPass
        <5>3. InMemory(t) => InMemory(t)'
          BY <5>1, <5>2 DEF InMemory
        <5>4. InFile(t) => InFile(t)'
          BY <5>1 DEF InFile, PassData
        <5>5. Emptied(t) => Emptied(t)'
          BY <5>1 DEF Emptied
        <5> QED
          BY <5>3, <5>4, <5>5
      <4>2. /\ th'[t].exitThread /\ th'[t].compressEvent /\ th'[t].pc = th[t].pc
            /\ th'[t].realMode = th[t].realMode /\ th'[t].made = th[t].made
            /\ th'[t].blocks = th[t].blocks /\ th'[t].pass = th[t].pass
            /\ th'[t].result = th[t].result
        BY <1>5
      <4>3. StreamFits(t) /\ (th[t].pass = 0 => th[t].pc = "wait")
        BY <3>1, <3>3 DEF StreamFits
      <4> QED
        BY <3>3, <4>1, <4>2, <4>3 DEF StreamFits
    <3> QED
      BY <3>2, <3>3
  <2> QED
    BY <1>6, <1>7, <2>1 DEF StreamsFit, Drained
<1>18. ItemsFit'
  BY <1>1, <1>2, <1>6, <1>7, SameItems
<1>19. DataIsWhole'
  BY <1>1, Parts DEF DataIsWhole, Written
<1> QED
  BY <1>8, <1>9, <1>10, <1>11, <1>12, <1>13, <1>14, <1>15, <1>16, <1>17, <1>18, <1>19,
     PartsFitNext

LEMMA JoinThreadKeeps == ASSUME IInv, JoinThread PROVE IInv'
<1>1. /\ main.pc = "join" /\ th[main.joining].pc = "exited"
      /\ main' = [main EXCEPT !.pc = "stop", !.joining = main.joining + 1]
      /\ th' = th /\ refs' = refs /\ pool' = pool /\ mem' = mem /\ arc' = arc
  BY DEF JoinThread
<1>2. TypeOK /\ main \in MainType /\ main.itemIndex \in Nat
  BY Parts, MainFacts
<1>3. main.joining \in Threads /\ main.joining \in Nat /\ main.joining + 1 \in 1..(NumThreads + 1)
  <2>1. main.joining \in Threads
    BY <1>1, Parts DEF PhasesOfEnd
  <2> QED
    BY <2>1, ConstantProperties DEF Threads
<1>4. /\ main' \in MainType /\ main'.pc = "stop" /\ main'.itemIndex = main.itemIndex
      /\ main'.list = main.list /\ main'.next = main.next
      /\ main'.joining = main.joining + 1 /\ main'.lastReal = main.lastReal
  <2>1. "stop" \in MainPcs
    BY Names
  <2> QED
    BY <1>1, <1>2, <1>3, <2>1 DEF MainType
<1>5. /\ InFinalPhase /\ InFinalPhase' /\ ~Finishing' /\ ~AtStream'
  BY <1>1, <1>4 DEF InFinalPhase, Finishing, AtStream
<1>6. TypeOK'
  BY <1>1, <1>2, <1>4 DEF TypeOK
<1>7. ListFits'
  BY <1>5 DEF ListFits
<1>8. PoolIsBalanced'
  BY <1>1, <1>4, PoolStays
<1>9. \A u \in Threads : Lifecycle(u)'
  <2>1. ASSUME NEW u \in Threads, u < main.joining + 1 PROVE th[u].pc = "exited"
    <3>1. u < main.joining \/ u = main.joining
      BY <1>3, <2>1, ConstantProperties
    <3> QED
      BY <1>1, <3>1, Parts DEF Lifecycle
  <2> QED
    BY <1>1, <1>4, <1>5, <2>1, Parts DEF Lifecycle
<1>10. PhasesOfEnd'
  BY <1>1, <1>4, <1>5, Parts DEF PhasesOfEnd
<1>11. ItemsHaveThreads'
  BY <1>1, <1>5, Parts DEF ItemsHaveThreads, Running
<1>12. MainFits'
  BY <1>4, <1>5 DEF MainFits
<1>13. FileIsGranted'
  BY <1>1, <1>4, <1>5, Parts DEF FileIsGranted, Granted
<1>14. ItemsInOrder'
  BY <1>1, <1>4, Parts DEF ItemsInOrder
<1>15. StreamsFit'
  <2>1. \A u \in Threads : StreamFits(u)' <=> StreamFits(u)
    BY <1>1, SameStreams
  <2> QED
    BY <1>1, <1>4, <1>5, <2>1, Parts DEF StreamsFit, Drained
<1>16. ItemsFit'
  BY <1>1, <1>2, <1>4, <1>5, SameItems
<1>17. DataIsWhole'
  BY <1>1, Parts DEF DataIsWhole, Written
<1> QED
  BY <1>6, <1>7, <1>8, <1>9, <1>10, <1>11, <1>12, <1>13, <1>14, <1>15, <1>16, <1>17,
     PartsFitNext

LEMMA FreeAllKeeps == ASSUME IInv, FreeAll PROVE IInv'
<1> DEFINE list == UNION ({Range(th[t].blocks) : t \in Threads}
                            \cup {Range(refs[i].blocks) : i \in Items})
<1>1. /\ main.pc = "stop" /\ main.joining > NumThreads
      /\ main' = [main EXCEPT !.pc = "free", !.next = "done", !.list = list]
      /\ th' = [t \in Threads |-> [th[t] EXCEPT !.blocks = <<>>, !.total = 0]]
      /\ refs' = [i \in Items |-> [refs[i] EXCEPT !.blocks = <<>>, !.total = 0]]
      /\ pool' = pool /\ mem' = mem /\ arc' = arc
  BY DEF FreeAll
<1>2. /\ TypeOK /\ main \in MainType /\ main.joining = NumThreads + 1
      /\ th \in [Threads -> ThreadType] /\ refs \in [Items -> RefType]
      /\ 0 \in 0..MaxChunks /\ <<>> \in Seq(Blocks)
  <2>1. TypeOK /\ main.joining \in Nat /\ main.joining <= NumThreads + 1
    BY Parts, MainFacts
  <2>2. NumThreads \in Nat /\ MaxChunks \in Nat
    BY ConstantProperties
  <2>3. main.joining = NumThreads + 1
    <3>1. main.joining > NumThreads
      BY <1>1
    <3> QED
      BY <2>1, <2>2, <3>1
  <2>4. main \in MainType /\ th \in [Threads -> ThreadType] /\ refs \in [Items -> RefType]
    BY <2>1 DEF TypeOK
  <2>5. 0 \in 0..MaxChunks
    BY <2>2
  <2>6. <<>> \in Seq(Blocks)
    OBVIOUS
  <2> QED
    BY <2>1, <2>3, <2>4, <2>5, <2>6
<1>3. /\ \A t \in Threads : Range(th[t].blocks) \subseteq Blocks
      /\ \A i \in Items : Range(refs[i].blocks) \subseteq Blocks
      /\ \A t \in Threads : Range(th[t].blocks) \cap pool.free = {}
      /\ \A i \in Items : Range(refs[i].blocks) \cap pool.free = {}
  BY <1>2, Parts, OwnBlocks
<1>4. list \in SUBSET Blocks /\ list \cap pool.free = {}
  BY <1>3
<1>5. \A x \in list : \/ \E t \in Threads : x \in Range(th[t].blocks)
                      \/ \E i \in Items : x \in Range(refs[i].blocks)
  OBVIOUS
<1>6. /\ \A t \in Threads : Range(th[t].blocks) \subseteq list
      /\ \A i \in Items : Range(refs[i].blocks) \subseteq list
  OBVIOUS
<1> HIDE DEF list
<1>7. /\ main' \in MainType /\ main'.pc = "free" /\ main'.itemIndex = main.itemIndex
      /\ main'.list = list /\ main'.next = "done"
      /\ main'.joining = main.joining /\ main'.lastReal = main.lastReal
  <2>1. "free" \in MainPcs
    BY Names
  <2> QED
    BY <1>1, <1>2, <1>4, <2>1 DEF MainType
<1>8. /\ th' \in [Threads -> ThreadType]
      /\ \A u \in Threads :
           /\ th'[u].blocks = <<>> /\ th'[u].pc = th[u].pc
           /\ th'[u].compressEvent = th[u].compressEvent
           /\ th'[u].exitThread = th[u].exitThread
           /\ th'[u].realEvent = th[u].realEvent
           /\ th'[u].realMode = th[u].realMode /\ th'[u].unlockSent = th[u].unlockSent
           /\ th'[u].isFree = th[u].isFree /\ th'[u].item = th[u].item
           /\ th'[u].region = th[u].region
  <2>1. ASSUME NEW u \in Threads
        PROVE  /\ th'[u] \in ThreadType
               /\ th'[u].blocks = <<>> /\ th'[u].pc = th[u].pc
               /\ th'[u].compressEvent = th[u].compressEvent
               /\ th'[u].exitThread = th[u].exitThread
               /\ th'[u].realEvent = th[u].realEvent
               /\ th'[u].realMode = th[u].realMode /\ th'[u].unlockSent = th[u].unlockSent
               /\ th'[u].isFree = th[u].isFree /\ th'[u].item = th[u].item
               /\ th'[u].region = th[u].region
    <3>1. th[u] \in ThreadType
      BY <1>2
    <3>2. th'[u] = [th[u] EXCEPT !.blocks = <<>>, !.total = 0]
      BY <1>1
    <3> QED
      BY <1>2, <3>1, <3>2 DEF ThreadType
  <2>2. th' \in [Threads -> ThreadType]
    BY <1>1, <2>1
  <2> QED
    BY <2>1, <2>2
<1>9. /\ refs' \in [Items -> RefType]
      /\ \A i \in Items : /\ refs'[i].blocks = <<>> /\ refs'[i].skip = refs[i].skip
                          /\ refs'[i].defined = refs[i].defined
  <2>1. ASSUME NEW i \in Items
        PROVE  /\ refs'[i] \in RefType
               /\ refs'[i].blocks = <<>> /\ refs'[i].skip = refs[i].skip
               /\ refs'[i].defined = refs[i].defined
    <3>1. refs[i] \in RefType
      BY <1>2
    <3>2. refs'[i] = [refs[i] EXCEPT !.blocks = <<>>, !.total = 0]
      BY <1>1
    <3> QED
      BY <1>2, <3>1, <3>2 DEF RefType
  <2>2. refs' \in [Items -> RefType]
    BY <1>1, <2>1
  <2> QED
    BY <2>1, <2>2
<1>10. /\ InFinalPhase /\ InFinalPhase' /\ ~Finishing' /\ ~AtStream'
  BY <1>1, <1>7 DEF InFinalPhase, Finishing, AtStream
<1>11. \A t \in Threads : th[t].pc = "exited"
  <2>1. \A t \in Threads : t < main.joining
    BY <1>2, ConstantProperties DEF Threads
  <2> QED
    BY <2>1, Parts DEF Lifecycle
<1>12. TypeOK'
  BY <1>1, <1>2, <1>7, <1>8, <1>9 DEF TypeOK
<1>13. ListFits'
  BY <1>10 DEF ListFits
<1>14. PoolIsBalanced'
  <2>1. /\ BlocksOf(<<0, 0>>)' = pool.free /\ BlocksOf(<<1, 0>>)' = list
        /\ \A t \in Threads : BlocksOf(<<2, t>>)' = {}
        /\ \A i \in Items : BlocksOf(<<3, i>>)' = {}
    <3>1. Range(<<>>) = {}
      BY DEF Range
    <3>2. \A t \in Threads : Range(th'[t].blocks) = {}
      BY <1>8, <3>1
    <3>3. \A i \in Items : Range(refs'[i].blocks) = {}
      BY <1>9, <3>1
    <3>4. BlocksOf(<<0, 0>>)' = pool.free /\ BlocksOf(<<1, 0>>)' = list
      <4>1. pool'.free = pool.free /\ main'.list = list
        BY <1>1, <1>7
      <4> QED
        BY <4>1 DEF BlocksOf
    <3>5. \A t \in Threads : BlocksOf(<<2, t>>)' = {}
      BY <3>2 DEF BlocksOf
    <3>6. \A i \in Items : BlocksOf(<<3, i>>)' = {}
      BY <3>3 DEF BlocksOf
    <3> QED
      BY <3>4, <3>5, <3>6
  <2>2. \A o \in Owners : \/ o = <<0, 0>> \/ o = <<1, 0>> \/ BlocksOf(o)' = {}
    BY <2>1, OwnerCases
  <2>3. \A o, p \in Owners : o # p => BlocksOf(o)' \cap BlocksOf(p)' = {}
    BY <1>4, <2>1, <2>2
  <2>4. \A b \in Blocks : \E o \in Owners : b \in BlocksOf(o)'
    <3>1. SUFFICES ASSUME NEW b \in Blocks PROVE b \in pool.free \/ b \in list
      BY <2>1, OwnerCases
    <3>2. PICK o \in Owners : b \in BlocksOf(o)
      BY Parts DEF BlocksAreOwned
    <3>3. main.list = {}
      BY <1>1, Parts DEF PhasesOfEnd
    <3>4. CASE o = <<0, 0>> \/ o = <<1, 0>>
      BY <3>2, <3>3, <3>4, OwnersHave
    <3>5. ASSUME NEW t \in Threads, o = <<2, t>> PROVE b \in list
      BY <1>6, <3>2, <3>5, OwnersHave
    <3>6. ASSUME NEW i \in Items, o = <<3, i>> PROVE b \in list
      BY <1>6, <3>2, <3>6, OwnersHave
    <3> QED
      BY <3>4, <3>5, <3>6, OwnerCases
  <2>5. /\ \A t \in Threads : IsInjective(th'[t].blocks)
        /\ \A i \in Items : IsInjective(refs'[i].blocks)
    <3>1. IsInjective(<<>>)
      BY DEF IsInjective
    <3> QED
      BY <1>8, <1>9, <3>1
  <2>6. Promised' = Promised
    BY <1>8 DEF Promised
  <2>7. SemaphoreCounts'
    BY <1>1, <1>7, <2>6, Parts DEF SemaphoreCounts
  <2>8. BlocksAreOwned'
    BY <2>3, <2>4, <2>5 DEF BlocksAreOwned
  <2> QED
    BY <1>7, <2>7, <2>8 DEF PoolIsBalanced
<1>15. \A u \in Threads : Lifecycle(u)'
  BY <1>7, <1>8, <1>10, <1>11, Parts DEF Lifecycle
<1>16. PhasesOfEnd'
  BY <1>2, <1>7, <1>8, <1>9, <1>10 DEF PhasesOfEnd
<1>17. ItemsHaveThreads'
  BY <1>8, <1>10, Parts DEF ItemsHaveThreads, Running
<1>18. MainFits'
  BY <1>7, <1>10 DEF MainFits
<1>19. FileIsGranted'
  <2>1. \A t \in Threads : Granted(t)' <=> Granted(t)
    BY <1>8 DEF Granted
  <2>2. \A t \in Threads : th'[t].realEvent \/ th'[t].realMode => th'[t].unlockSent
    BY <1>8, Parts DEF FileIsGranted
  <2>3. \A t \in Threads : th'[t].item = th[t].item /\ th'[t].region = th[t].region
    BY <1>8
  <2> QED
    BY <1>1, <1>7, <1>10, <2>1, <2>2, <2>3, Parts DEF FileIsGranted
<1>20. ItemsInOrder'
  <2>1. \A i \in 1..(main.itemIndex - 1) : i \in Items
    BY <1>2, MainFacts, ConstantProperties DEF Items
  <2> QED
    BY <1>1, <1>7, <1>9, <2>1, Parts DEF ItemsInOrder
<1>21. StreamsFit'
  BY <1>7, <1>8, <1>10, <1>11 DEF StreamsFit, Drained
<1>22. ItemsFit'
  BY <1>1, <1>7, <1>9, <1>10, Parts DEF ItemsFit
<1>23. DataIsWhole'
  BY <1>1, <1>9, DataStaysWhole DEF Written
<1> QED
  BY <1>12, <1>13, <1>14, <1>15, <1>16, <1>17, <1>18, <1>19, <1>20, <1>21, <1>22, <1>23,
     PartsFitNext

-----------------------------------------------------------------------------
LEMMA MainStepKeeps == ASSUME IInv, MainStep PROVE IInv'
BY PassOverKeeps, LockMixerKeeps, GetStreamKeeps, SkipKeeps, StickKeeps, PassSkippedKeeps,
   OldOrDirKeeps, WriteDetachedKeeps, DetachedHeaderFailsKeeps, GrantKeeps, AwaitKeeps,
   DrainKeeps, WriteHeaderKeeps, MainFreeKeeps, MainReleaseKeeps, MainFreeDoneKeeps,
   CentralDirKeeps, StopThreadKeeps, JoinThreadKeeps, FreeAllKeeps DEF MainStep

LEMMA StutterKeeps == ASSUME IInv, UNCHANGED vars PROVE IInv'
<1>1. main' = main /\ th' = th /\ refs' = refs /\ pool' = pool /\ mem' = mem /\ arc' = arc
  BY DEF vars
<1>2. TypeOK' /\ ListFits' /\ PhasesOfEnd' /\ ItemsInOrder' /\ DataIsWhole'
      /\ \A t \in Threads : Lifecycle(t)'
  BY <1>1, Parts DEF TypeOK, ListFits, InFinalPhase, PhasesOfEnd, ItemsInOrder,
                     DataIsWhole, Written, Lifecycle
<1>3. /\ (InFinalPhase' <=> InFinalPhase) /\ (Finishing' <=> Finishing)
      /\ (AtStream' <=> AtStream) /\ FirstItem' = FirstItem /\ EndItem' = EndItem
  BY <1>1 DEF InFinalPhase, Finishing, AtStream, FirstItem, EndItem
<1>4. ItemsHaveThreads' /\ MainFits' /\ FileIsGranted'
  BY <1>1, <1>3, Parts DEF ItemsHaveThreads, Running, MainFits, FileIsGranted, Granted
<1>5. PoolIsBalanced'
  <2>1. BlocksAreOwned'
    BY <1>1, Parts, SameOwners
  <2>2. SemaphoreCounts'
    BY <1>1, Parts DEF SemaphoreCounts, Promised
  <2> QED
    BY <1>1, <2>1, <2>2, Parts DEF PoolIsBalanced
<1>6. StreamsFit'
  <2>1. \A t \in Threads : /\ StreamFits(t)' <=> StreamFits(t)
                           /\ InFile(t)' <=> InFile(t)
    BY <1>1, SameStreams
  <2>2. Finishing => main.thread \in Threads
    BY Parts DEF MainFits
  <2> QED
    BY <1>1, <1>3, <2>1, <2>2, Parts DEF StreamsFit, Drained
<1>7. ItemsFit'
  BY <1>1, <1>3, Parts, MainFacts, SameItems
<1> QED
  BY <1>2, <1>4, <1>5, <1>6, <1>7, PartsFitNext

(* The invariant that the properties of the run follow from: it says how   *)
(* the items, the threads and the list of running threads correspond, who  *)
(* may write to the file, and where the data of each item is.              *)
THEOREM InductiveInvariant == Spec => []IInv
<1>1. Init => IInv
  BY InitIInv
<1>2. IInv /\ [Next]_vars => IInv'
  <2>1. SUFFICES ASSUME IInv, [Next]_vars PROVE IInv'
    OBVIOUS
  <2>2. CASE MainStep
    BY <2>1, <2>2, MainStepKeeps
  <2>3. ASSUME NEW t \in Threads, ThreadStep(t) PROVE IInv'
    BY <2>1, <2>3, ThreadStepKeeps
  <2>4. CASE UNCHANGED vars
    BY <2>1, <2>4, StutterKeeps
  <2> QED
    BY <2>1, <2>2, <2>3, <2>4 DEF Next
<1> QED
  BY <1>1, <1>2, PTL DEF Spec

(* The archive has one writer at a time: a thread that writes to the file  *)
(* itself (COutMemStream::WriteToRealStream and after it) has the item     *)
(* that is being assembled, the file stands in it, and no other thread     *)
(* writes.                                                                 *)
THEOREM ArchiveHasOneWriter == Spec => []OneWriterOfArchive
<1>1. IInv => OneWriterOfArchive
  BY DEF IInv, OneWriterOfArchive
<1> QED
  BY <1>1, InductiveInvariant, PTL

(* Every memory block is in one place, the semaphore counts the free ones, *)
(* and at the end of Update2 all of them are free (CMemBlockManagerMt).    *)
THEOREM BlocksAreBalanced == Spec => []PoolIsBalanced
<1>1. IInv => PoolIsBalanced
  BY DEF IInv
<1> QED
  BY <1>1, InductiveInvariant, PTL

(* Every finished item has all of the data its header states, until the    *)
(* write of an item from DetachData fails, which Update2 does not notice.  *)
THEOREM WrittenItemsAreWhole == Spec => []DataIsWhole
<1>1. IInv => DataIsWhole
  BY DEF IInv
<1> QED
  BY <1>1, InductiveInvariant, PTL

-----------------------------------------------------------------------------
(* Update2 with threads implements SequentialUpdate: what the archive and  *)
(* the result are for a caller that knows of no threads.                   *)
Entry(i) == [item |-> i, data |-> arc.data[i], size |-> arc.packSize[i]]
Archive == [k \in 1..Len(arc.order) |-> Entry(arc.order[k])]
Outcome == IF InFinalPhase THEN main.result ELSE "none"

NoStep == Archive' = Archive /\ Outcome' = Outcome /\ Lost' = Lost

(* The definitions of SequentialUpdate, with these in their places.        *)
LEMMA SequentialIs ==
  /\ Sequential!Init <=> Archive = <<>> /\ Outcome = "none" /\ Lost = FALSE
  /\ Sequential!LastItem = IF Archive = <<>> THEN 0 ELSE Archive[Len(Archive)].item
  /\ \A a, b \in Nat :
       Sequential!MayLeaveOut(a, b) <=> \A i \in a..b : MaySkip /\ Kind[i] = "new"
  /\ Sequential!Put <=>
       /\ Outcome = "none"
       /\ \E i \in (Sequential!LastItem + 1)..N : \E d \in Sequential!PassesOf(i) :
          \E n \in 0..Len(d) :
            /\ (n = Len(d) /\ Lost' = Lost) \/ (FileFaults /\ Lost' = TRUE)
            /\ Sequential!MayLeaveOut(Sequential!LastItem + 1, i - 1)
            /\ Archive' = Append(Archive, [item |-> i, data |-> SubSeq(d, 1, n), size |-> Len(d)])
       /\ Outcome' = Outcome
  /\ Sequential!Finish <=>
       /\ Outcome = "none" /\ Sequential!MayLeaveOut(Sequential!LastItem + 1, N)
       /\ Outcome' = "ok" /\ Archive' = Archive /\ Lost' = Lost
  /\ Sequential!Fail <=>
       /\ Outcome = "none" /\ (EncoderFaults \/ FileFaults)
       /\ Outcome' \in {"fail", "abort"} /\ Lost' = (Lost \/ FileFaults) /\ Archive' = Archive
<1>1. Sequential!Init <=> Archive = <<>> /\ Outcome = "none" /\ Lost = FALSE
  BY DEF Sequential!Init, Archive, Entry, Outcome
<1>2. Sequential!LastItem = IF Archive = <<>> THEN 0 ELSE Archive[Len(Archive)].item
  BY DEF Sequential!LastItem, Archive, Entry
<1>3. \A a, b \in Nat :
        Sequential!MayLeaveOut(a, b) <=> \A i \in a..b : MaySkip /\ Kind[i] = "new"
  BY DEF Sequential!MayLeaveOut
<1>4. Sequential!Put <=>
        /\ Outcome = "none"
        /\ \E i \in (Sequential!LastItem + 1)..N : \E d \in Sequential!PassesOf(i) :
           \E n \in 0..Len(d) :
             /\ (n = Len(d) /\ Lost' = Lost) \/ (FileFaults /\ Lost' = TRUE)
             /\ Sequential!MayLeaveOut(Sequential!LastItem + 1, i - 1)
             /\ Archive' = Append(Archive, [item |-> i, data |-> SubSeq(d, 1, n), size |-> Len(d)])
        /\ Outcome' = Outcome
  BY DEF Sequential!Put, Archive, Entry, Outcome
<1>5. Sequential!Finish <=>
        /\ Outcome = "none" /\ Sequential!MayLeaveOut(Sequential!LastItem + 1, N)
        /\ Outcome' = "ok" /\ Archive' = Archive /\ Lost' = Lost
  BY DEF Sequential!Finish, Archive, Entry, Outcome
<1>6. Sequential!Fail <=>
        /\ Outcome = "none" /\ (EncoderFaults \/ FileFaults)
        /\ Outcome' \in {"fail", "abort"} /\ Lost' = (Lost \/ FileFaults) /\ Archive' = Archive
  BY DEF Sequential!Fail, Archive, Entry, Outcome
<1> QED
  BY <1>1, <1>2, <1>3, <1>4, <1>5, <1>6

LEMMA FunctionIsSeq ==
  ASSUME NEW S, NEW n \in Nat, NEW f \in [1..n -> S]
  PROVE  f \in Seq(S) /\ Len(f) = n
OBVIOUS

LEMMA ArchiveFacts ==
  ASSUME TypeOK
  PROVE  /\ Archive \in Seq([item : Items, data : Seq(Stored), size : 0..MaxChunks])
         /\ Len(Archive) = Len(arc.order) /\ Len(arc.order) \in Nat
         /\ \A k \in 1..Len(arc.order) : /\ Archive[k] = Entry(arc.order[k])
                                         /\ arc.order[k] \in Items /\ arc.order[k] \in Nat
         /\ arc.order \in Seq(Items)
<1>1. /\ arc.order \in Seq(Items) /\ arc.data \in [Items -> Seq(Stored)]
      /\ arc.packSize \in [Items -> 0..MaxChunks] /\ Len(arc.order) \in Nat
  BY StoreFacts
<1>2. \A k \in 1..Len(arc.order) : arc.order[k] \in Items /\ arc.order[k] \in Nat
  <2>1. \A k \in 1..Len(arc.order) : arc.order[k] \in Items
    BY <1>1
  <2> QED
    BY <2>1, ConstantProperties
<1> DEFINE Records == [item : Items, data : Seq(Stored), size : 0..MaxChunks]
<1>3. \A k \in 1..Len(arc.order) : Entry(arc.order[k]) \in Records
  BY <1>1, <1>2 DEF Entry
<1> HIDE DEF Records
<1>4. /\ Archive \in Seq(Records) /\ Len(Archive) = Len(arc.order)
      /\ \A k \in 1..Len(arc.order) : Archive[k] = Entry(arc.order[k])
  <2>1. \A k \in 1..Len(arc.order) : Archive[k] = Entry(arc.order[k])
    BY DEF Archive
  <2>2. Archive \in [1..Len(arc.order) -> Records]
    BY <1>3 DEF Archive
  <2> QED
    BY <1>1, <2>1, <2>2, FunctionIsSeq
<1> QED
  BY <1>1, <1>2, <1>4 DEF Records

(* The files between the last item written and the one Update2 is at were  *)
(* declined.                                                               *)
LEMMA LastWritten ==
  ASSUME IInv, ~InFinalPhase
  PROVE  /\ Sequential!LastItem \in Nat /\ Sequential!LastItem < main.itemIndex
         /\ \A i \in (Sequential!LastItem + 1)..(main.itemIndex - 1) :
              MaySkip /\ Kind[i] = "new"
<1> DEFINE s == arc.order
           last == Sequential!LastItem
<1>1. /\ TypeOK /\ ItemsInOrder /\ main.itemIndex \in Nat /\ main.itemIndex >= 1
      /\ main.itemIndex <= N + 1 /\ N \in Nat
  BY Parts, MainFacts, ConstantProperties
<1>2. /\ s \in Seq(Items) /\ Len(s) \in Nat /\ Len(Archive) = Len(s)
      /\ \A k \in 1..Len(s) : Archive[k].item = s[k] /\ s[k] \in Nat
  <2>1. \A i : Entry(i).item = i
    BY DEF Entry
  <2> QED
    BY <1>1, <2>1, ArchiveFacts
<1>3. /\ Len(s) = 0 => last = 0
      /\ Len(s) # 0 => last = s[Len(s)]
  <2>1. Archive \in Seq([item : Items, data : Seq(Stored), size : 0..MaxChunks])
    BY <1>1, ArchiveFacts
  <2>2. Archive = <<>> <=> Len(s) = 0
    BY <1>2, <2>1, EmptySeq
  <2>3. Len(s) # 0 => Len(s) \in 1..Len(s)
    BY <1>2
  <2> QED
    BY <1>2, <2>2, <2>3, SequentialIs
<1>4. /\ \A k \in 1..Len(s) : s[k] < main.itemIndex
      /\ \A j, k \in 1..Len(s) : j < k => s[j] < s[k]
      /\ \A i \in 1..(main.itemIndex - 1) : ~refs[i].skip => i \in Range(s)
  BY <1>1 DEF ItemsInOrder
<1> HIDE DEF s, last
<1>5. last \in Nat /\ last < main.itemIndex
  <2>1. CASE Len(s) = 0
    BY <1>1, <1>3, <2>1
  <2>2. CASE Len(s) # 0
    <3>1. Len(s) \in 1..Len(s)
      BY <1>2, <2>2
    <3> QED
      BY <1>2, <1>3, <1>4, <2>2, <3>1
  <2> QED
    BY <2>1, <2>2
<1>6. ASSUME NEW k \in 1..Len(s) PROVE s[k] <= last
  <2>1. Len(s) # 0 /\ Len(s) \in 1..Len(s) /\ last = s[Len(s)]
    BY <1>2, <1>3, <1>6
  <2>2. k = Len(s) \/ k < Len(s)
    BY <1>2, <1>6
  <2> QED
    BY <1>2, <1>4, <2>1, <2>2
<1>7. ASSUME NEW i \in (last + 1)..(main.itemIndex - 1) PROVE MaySkip /\ Kind[i] = "new"
  <2>1. i \in Nat /\ i > last /\ i \in 1..(main.itemIndex - 1) /\ i \in Items
    BY <1>1, <1>5, <1>7 DEF Items
  <2>2. i \notin Range(s)
    <3>1. SUFFICES ASSUME NEW k \in DOMAIN s, s[k] = i PROVE FALSE
      BY DEF Range
    <3>2. k \in 1..Len(s)
      BY <1>2, <3>1
    <3> QED
      BY <1>2, <1>5, <1>6, <2>1, <3>1, <3>2
  <2>3. refs[i].skip
    BY <1>4, <2>1, <2>2
  <2> QED
    BY <2>1, <2>3, Parts DEF ItemsHaveThreads
<1> QED
  BY <1>5, <1>7 DEF last

LEMMA SameArchive ==
  ASSUME IInv, arc'.order = arc.order,
         \A i \in Items : i < main.itemIndex =>
           arc'.data[i] = arc.data[i] /\ arc'.packSize[i] = arc.packSize[i]
  PROVE  Archive' = Archive
<1>1. \A k \in 1..Len(arc.order) : arc.order[k] \in Items /\ arc.order[k] < main.itemIndex
  BY Parts, ArchiveFacts DEF ItemsInOrder
<1>2. \A k \in 1..Len(arc.order) :
        [item |-> arc.order[k], data |-> arc'.data[arc.order[k]],
         size |-> arc'.packSize[arc.order[k]]] = Entry(arc.order[k])
  BY <1>1 DEF Entry
<1>3. Archive' = [k \in 1..Len(arc.order) |->
                    [item |-> arc.order[k], data |-> arc'.data[arc.order[k]],
                     size |-> arc'.packSize[arc.order[k]]]]
  BY DEF Archive, Entry
<1> QED
  BY <1>2, <1>3 DEF Archive

(* The next item, with all of what its encoder made or, after a write that *)
(* failed, with less.                                                      *)
LEMMA PutsItem ==
  ASSUME IInv, ~InFinalPhase, ~InFinalPhase', NEW i \in Items, i = main.itemIndex,
         arc'.order = Append(arc.order, i),
         \A j \in Items : j # i =>
           arc'.data[j] = arc.data[j] /\ arc'.packSize[j] = arc.packSize[j],
         NEW d \in Sequential!PassesOf(i),
         NEW n \in 0..Len(d), (n = Len(d) /\ Lost' = Lost) \/ (FileFaults /\ Lost' = TRUE),
         arc'.data[i] = SubSeq(d, 1, n), arc'.packSize[i] = Len(d)
  PROVE  Sequential!Put
<1> DEFINE s == arc.order
           r == Append(s, i)
           e == [item |-> i, data |-> SubSeq(d, 1, n), size |-> Len(d)]
<1>1. /\ s \in Seq(Items) /\ Len(s) \in Nat /\ Len(Archive) = Len(s)
      /\ Archive \in Seq([item : Items, data : Seq(Stored), size : 0..MaxChunks])
      /\ \A k \in 1..Len(s) : /\ Archive[k] = Entry(s[k]) /\ s[k] \in Items /\ s[k] \in Nat
                              /\ s[k] < main.itemIndex
  BY Parts, ArchiveFacts DEF ItemsInOrder
<1>2. /\ Len(r) = Len(s) + 1 /\ r[Len(s) + 1] = i /\ \A k \in 1..Len(s) : r[k] = s[k]
  BY <1>1
<1>3. Archive' = Append(Archive, e)
  <2> DEFINE f == [k \in 1..(Len(s) + 1) |->
                     [item |-> r[k], data |-> arc'.data[r[k]], size |-> arc'.packSize[r[k]]]]
  <2>1. Archive' = f
    <3>1. Archive' = [k \in 1..Len(r) |->
                        [item |-> r[k], data |-> arc'.data[r[k]], size |-> arc'.packSize[r[k]]]]
      BY DEF Archive, Entry
    <3> QED
      BY <1>2, <3>1
  <2>2. f[Len(s) + 1] = e
    BY <1>1, <1>2
  <2>3. ASSUME NEW k \in 1..Len(s) PROVE f[k] = Archive[k]
    <3>1. k \in 1..(Len(s) + 1) /\ r[k] = s[k] /\ s[k] \in Items /\ s[k] # i
      BY <1>1, <1>2
    <3>2. Archive[k] = [item |-> s[k], data |-> arc.data[s[k]], size |-> arc.packSize[s[k]]]
      BY <1>1 DEF Entry
    <3>3. arc'.data[s[k]] = arc.data[s[k]] /\ arc'.packSize[s[k]] = arc.packSize[s[k]]
      BY <3>1
    <3>4. f[k] = [item |-> r[k], data |-> arc'.data[r[k]], size |-> arc'.packSize[r[k]]]
      BY <3>1
    <3> HIDE DEF f, r
    <3> QED
      BY <3>1, <3>2, <3>3, <3>4
  <2> DEFINE Records == {e} \cup [item : Items, data : Seq(Stored), size : 0..MaxChunks]
  <2>4. Archive \in Seq(Records) /\ e \in Records
    BY <1>1, SeqMonotonic
  <2>5. \A k \in 1..Len(s) : Archive[k] \in Records
    BY <1>1, <2>4
  <2>6. f \in [1..(Len(s) + 1) -> Records]
    <3>1. ASSUME NEW k \in 1..(Len(s) + 1) PROVE f[k] \in Records
      <4>1. k = Len(s) + 1 \/ k \in 1..Len(s)
        BY <1>1, <3>1
      <4> HIDE DEF f, e, r, Records
      <4> QED
        BY <2>2, <2>3, <2>4, <2>5, <4>1
    <3> HIDE DEF Records
    <3> QED
      BY <3>1
  <2> HIDE DEF e, r, f, Records
  <2>7. /\ Append(Archive, e) \in Seq(Records) /\ Len(Append(Archive, e)) = Len(s) + 1
        /\ \A k \in 1..Len(s) : Append(Archive, e)[k] = Archive[k]
        /\ Append(Archive, e)[Len(s) + 1] = e
    BY <1>1, <2>4, AppendProperties
  <2>8. f \in Seq(Records) /\ Len(f) = Len(s) + 1
    <3>1. Len(s) + 1 \in Nat
      BY <1>1
    <3> QED
      BY <2>6, <3>1, FunctionIsSeq
  <2>9. \A k \in 1..(Len(s) + 1) : f[k] = Append(Archive, e)[k]
    <3>1. \A k \in 1..(Len(s) + 1) : k = Len(s) + 1 \/ k \in 1..Len(s)
      BY <1>1
    <3> QED
      BY <2>2, <2>3, <2>7, <3>1
  <2>10. f = Append(Archive, e)
    BY <2>7, <2>8, <2>9, SeqEqual
  <2> QED
    BY <2>1, <2>10
<1>4. /\ Sequential!LastItem \in Nat /\ Sequential!LastItem < main.itemIndex
      /\ \A j \in (Sequential!LastItem + 1)..(main.itemIndex - 1) : MaySkip /\ Kind[j] = "new"
  BY LastWritten
<1>5. i \in Nat /\ i \in (Sequential!LastItem + 1)..N /\ i - 1 \in Nat
      /\ Sequential!LastItem + 1 \in Nat
  BY <1>4, ConstantProperties DEF Items
<1>6. Sequential!MayLeaveOut(Sequential!LastItem + 1, i - 1)
  BY <1>4, <1>5, SequentialIs
<1>7. Outcome = "none" /\ Outcome' = "none"
  BY DEF Outcome
<1> HIDE DEF r
<1>8. \E j \in (Sequential!LastItem + 1)..N : \E c \in Sequential!PassesOf(j) :
        \E m \in 0..Len(c) :
          /\ (m = Len(c) /\ Lost' = Lost) \/ (FileFaults /\ Lost' = TRUE)
          /\ Sequential!MayLeaveOut(Sequential!LastItem + 1, j - 1)
          /\ Archive' = Append(Archive, [item |-> j, data |-> SubSeq(c, 1, m), size |-> Len(c)])
  BY <1>3, <1>5, <1>6
<1> QED
  BY <1>7, <1>8, SequentialIs

(* A thread never touches an item that was written.                        *)
LEMMA ThreadStepStutters ==
  ASSUME IInv, NEW t \in Threads, ThreadStep(t) PROVE NoStep
<1>1. /\ main' = main /\ arc'.order = arc.order /\ arc'.packSize = arc.packSize
      /\ arc'.lost = arc.lost
      /\ \A i \in Items : i < main.itemIndex => arc'.data[i] = arc.data[i]
  <2>1. CASE main' = main /\ arc' = arc
    BY <2>1
  <2>2. ASSUME main' = main, ChangesData(th[t].item), th[t].realMode,
               th[t].pc \notin {"wait", "exited"}
        PROVE  /\ main' = main /\ arc'.order = arc.order /\ arc'.packSize = arc.packSize
               /\ arc'.lost = arc.lost
               /\ \A i \in Items : i < main.itemIndex => arc'.data[i] = arc.data[i]
    <3>1. th[t].item = main.itemIndex /\ main.itemIndex \in Nat
      BY <2>2, AtWork, AtFileItem, Parts, MainFacts
    <3> QED
      BY <2>2, <3>1 DEF ChangesData
  <2>3. CASE Rewind(t)
    <3>1. /\ main' = main /\ th[t].pc = "rewind"
          /\ ~th[t].realMode => arc' = arc
          /\ th[t].realMode => ChangesData(th[t].item)
      BY <2>3, RewindEffect DEF Alone
    <3> QED
      BY <2>1, <2>2, <3>1
  <2>4. CASE Flush(t)
    <3>1. main' = main /\ th[t].pc = "flush" /\ th[t].realMode /\ ChangesData(th[t].item)
      BY <2>4, FlushEffect DEF Alone
    <3> QED
      BY <2>2, <3>1
  <2>5. CASE DirectWrite(t)
    <3>1. /\ main' = main /\ th[t].pc \in {"direct", "encode"} /\ th[t].realMode
          /\ ChangesData(th[t].item) \/ arc' = arc
      BY <2>5, DirectEffect DEF Alone
    <3> QED
      BY <2>1, <2>2, <3>1
  <2>6. CASE \/ ThreadWake(t) \/ Fill(t) \/ NeedBlock(t) \/ WaitBlock(t) \/ AllocateBlock(t)
             \/ FreeBlock(t) \/ ReleaseBlock(t) \/ FreeDone(t) \/ EndPass(t) \/ Report(t)
             \/ SignalCompletion(t)
    <3>1. main' = main /\ arc' = arc
      BY <2>6 DEF ThreadWake, Fill, NeedBlock, WaitBlock, AllocateBlock, FreeBlock,
                  ReleaseBlock, FreeDone, EndPass, Report, SignalCompletion
    <3> QED
      BY <2>1, <3>1
  <2> QED
    BY <2>3, <2>4, <2>5, <2>6 DEF ThreadStep
<1>2. Archive' = Archive
  BY <1>1, SameArchive
<1>3. Outcome' = Outcome /\ Lost' = Lost
  BY <1>1 DEF Outcome, Lost, InFinalPhase
<1> QED
  BY <1>2, <1>3 DEF NoStep

(* Steps of Update2 before its end, and of its destructors.                *)
LEMMA NothingPut ==
  ASSUME IInv, arc'.order = arc.order, arc'.packSize = arc.packSize, arc'.lost = arc.lost,
         \A i \in Items : i < main.itemIndex => arc'.data[i] = arc.data[i],
         \/ ~InFinalPhase /\ ~InFinalPhase'
         \/ InFinalPhase /\ InFinalPhase' /\ main'.result = main.result
  PROVE  NoStep
<1>1. Archive' = Archive
  BY SameArchive
<1>2. Outcome' = Outcome /\ Lost' = Lost
  BY DEF Outcome, Lost
<1> QED
  BY <1>1, <1>2 DEF NoStep

(* Update2 ends with an error.                                             *)
LEMMA ErrorFails ==
  ASSUME IInv, ~InFinalPhase, arc'.order = arc.order, arc'.packSize = arc.packSize,
         arc'.lost = arc.lost, \A i \in Items : i < main.itemIndex => arc'.data[i] = arc.data[i],
         NEW r \in {"fail", "abort"}, Stop(r), EncoderFaults \/ FileFaults
  PROVE  Sequential!Fail
<1>1. Archive' = Archive
  BY SameArchive
<1>2. main'.pc = "stop" /\ main'.result = r
  <2>1. main \in MainType
    BY Parts, MainFacts
  <2> QED
    BY <2>1 DEF Stop, MainType
<1>3. Outcome = "none" /\ Outcome' = r
  BY <1>2 DEF Outcome, InFinalPhase
<1>4. Lost' = (Lost \/ FileFaults)
  BY <1>2 DEF Lost, InFinalPhase
<1> QED
  BY <1>1, <1>3, <1>4, SequentialIs

SequentialStep == Sequential!Put \/ Sequential!Finish \/ Sequential!Fail

LEMMA LeaveFileFacts ==
  ASSUME IInv, arc' = [arc EXCEPT !.pos = None]
  PROVE  /\ arc'.order = arc.order /\ arc'.packSize = arc.packSize /\ arc'.lost = arc.lost
         /\ \A i \in Items : i < main.itemIndex => arc'.data[i] = arc.data[i]
BY LeaveFile, Parts

LEMMA OldOrDirPuts == ASSUME IInv, WriteOldOrDir PROVE SequentialStep
<1>1. /\ AtItem /\ Kind[main.itemIndex] # "new"
  BY DEF WriteOldOrDir
<1>2. PICK i \in Items : i = main.itemIndex
  BY <1>1, AtItemBehind
<1>3. /\ main.pc = "top" /\ ~InFinalPhase /\ arc.pos = None /\ TypeOK /\ i \in Nat
  BY <1>1, <1>2, AtItemBehind, NobodyGranted, Parts
<1>4. CASE /\ EncoderFaults \/ FileFaults
           /\ arc' = [arc EXCEPT !.pos = None] /\ Stop("fail")
  BY <1>3, <1>4, LeaveFileFacts, ErrorFails DEF SequentialStep
<1>5. CASE /\ arc' = [arc EXCEPT !.pos = None, !.order = Append(arc.order, i)]
           /\ main' = [main EXCEPT !.itemIndex = i + 1]
  <2>1. ~InFinalPhase'
    <3>1. main \in MainType
      BY <1>3, MainFacts
    <3>2. main'.pc = "top"
      BY <1>3, <1>5, <3>1 DEF MainType
    <3> QED
      BY <3>2 DEF InFinalPhase
  <2>2. /\ arc'.data = arc.data /\ arc'.packSize = arc.packSize
        /\ arc'.order = Append(arc.order, i) /\ arc'.lost = arc.lost
    <3>1. arc \in ArcType
      BY <1>3, StoreFacts
    <3> DEFINE order == Append(arc.order, i)
    <3>2. arc' = [arc EXCEPT !.pos = None, !.order = order]
      BY <1>5
    <3> HIDE DEF order
    <3>3. /\ arc'.data = arc.data /\ arc'.packSize = arc.packSize /\ arc'.order = order
          /\ arc'.lost = arc.lost
      BY <3>1, <3>2 DEF ArcType
    <3> QED
      BY <3>3 DEF order
  <2>3. arc.data[i] = <<>> /\ arc.packSize[i] = 0
    <3>1. i \in main.itemIndex..N
      BY <1>2, <1>3, ConstantProperties DEF Items
    <3> QED
      BY <1>3, <3>1, Parts DEF ItemsFit
  <2>4. <<>> \in Sequential!PassesOf(i)
    BY <1>1, <1>2 DEF Sequential!PassesOf
  <2>5. 0 \in 0..Len(<<>>) /\ Lost' = Lost
    BY <1>3, <2>1, <2>2 DEF Lost
  <2>6. SubSeq(<<>>, 1, 0) = <<>> /\ Len(<<>>) = 0
    BY SubSeqEmpty
  <2>7. arc'.data[i] = SubSeq(<<>>, 1, 0) /\ arc'.packSize[i] = Len(<<>>)
    BY <2>2, <2>3, <2>6
  <2>8. \A j \in Items : j # i =>
          arc'.data[j] = arc.data[j] /\ arc'.packSize[j] = arc.packSize[j]
    BY <2>2
  <2>9. Sequential!Put
    BY <1>2, <1>3, <2>1, <2>2, <2>4, <2>5, <2>6, <2>7, <2>8, PutsItem
  <2> QED
    BY <2>9 DEF SequentialStep
<1> QED
  BY <1>2, <1>4, <1>5 DEF WriteOldOrDir

LEMMA PassOfData ==
  ASSUME NEW i \in Items, Kind[i] = "new", NEW m \in 1..NumMethods, NEW n \in 0..MaxChunks
  PROVE  /\ PassData(i, m, n) \in Sequential!PassesOf(i) /\ Len(PassData(i, m, n)) = n
         /\ SubSeq(PassData(i, m, n), 1, n) = PassData(i, m, n)
<1>1. n \in Nat
  BY ConstantProperties
<1>2. PassData(i, m, n) \in Sequential!PassesOf(i)
  BY DEF Sequential!PassesOf, PassData
<1> DEFINE d == PassData(i, m, n)
           S == {<<i, m, k>> : k \in 1..n}
<1>3. d \in [1..n -> S]
  BY DEF PassData
<1> HIDE DEF d, S
<1>4. d \in Seq(S) /\ Len(d) = n
  BY <1>1, <1>3, FunctionIsSeq
<1>5. SubSeq(d, 1, n) = d
  BY <1>1, <1>4
<1> QED
  BY <1>2, <1>4, <1>5 DEF d

LEMMA DetachedPuts == ASSUME IInv, WriteDetached PROVE SequentialStep
<1>1. PICK i \in Items : i = main.itemIndex
  BY AtItemBehind DEF WriteDetached, AtFile
<1>2. /\ AtItem /\ refs[i].defined /\ arc'.order = Append(arc.order, i)
      /\ \A j \in Items : j # i =>
           arc'.data[j] = arc.data[j] /\ arc'.packSize[j] = arc.packSize[j]
      /\ main'.pc = "free" /\ main'.next = "top"
  BY <1>1, DetachedFields
<1>3. ~InFinalPhase /\ ~InFinalPhase' /\ TypeOK /\ i \in Nat /\ Kind[i] = "new"
  <2>1. ~InFinalPhase /\ TypeOK /\ i \in Nat
    BY <1>1, <1>2, AtItemBehind, Parts
  <2>2. ~InFinalPhase'
    BY <1>2 DEF InFinalPhase
  <2>3. Kind[i] = "new"
    BY <1>1 DEF WriteDetached, AtFile
  <2> QED
    BY <2>1, <2>2, <2>3
<1> DEFINE chunks == Contents(refs[i].blocks, refs[i].total)
<1>4. PICK m \in 1..NumMethods :
        refs[i].packSize = refs[i].total /\ HoldPass(refs[i].blocks, i, m, refs[i].total)
  <2>1. i \in main.itemIndex..N
    BY <1>1, <1>3, ConstantProperties DEF Items
  <2> QED
    BY <1>2, <1>3, <2>1, Parts DEF ItemsFit
<1>5. refs[i].total \in 0..MaxChunks /\ refs[i].total \in Nat
  BY <1>3, RefFacts, ConstantProperties
<1>6. chunks = PassData(i, m, refs[i].total)
  BY <1>4 DEF Contents, HoldPass, PassData
<1>7. /\ chunks \in Sequential!PassesOf(i) /\ Len(chunks) = refs[i].total
  BY <1>3, <1>5, <1>6, PassOfData
<1>8. PICK n \in IF FileFaults THEN 0..Len(chunks) ELSE {Len(chunks)} :
        arc' = [arc EXCEPT !.data[i] = SubSeq(chunks, 1, n), !.pos = None,
                           !.order = Append(arc.order, i), !.packSize[i] = refs[i].packSize,
                           !.lost = IF n < Len(chunks) /\ arc.lost = None THEN i ELSE arc.lost]
  BY <1>1 DEF WriteDetached
<1> HIDE DEF chunks
<1>9. /\ arc'.data[i] = SubSeq(chunks, 1, n) /\ arc'.packSize[i] = Len(chunks)
      /\ arc'.lost = IF n < Len(chunks) /\ arc.lost = None THEN i ELSE arc.lost
  <2>1. arc \in ArcType /\ arc.data \in [Items -> Seq(Stored)]
        /\ arc.packSize \in [Items -> 0..MaxChunks]
    BY <1>3, StoreFacts
  <2> DEFINE c == SubSeq(chunks, 1, n)
             o == Append(arc.order, i)
             l == IF n < Len(chunks) /\ arc.lost = None THEN i ELSE arc.lost
  <2>2. arc' = [arc EXCEPT !.data[i] = c, !.pos = None, !.order = o,
                           !.packSize[i] = refs[i].packSize, !.lost = l]
    BY <1>8
  <2> HIDE DEF c, o, l
  <2>3. arc'.data[i] = c /\ arc'.packSize[i] = refs[i].packSize /\ arc'.lost = l
    BY <2>1, <2>2 DEF ArcType
  <2> QED
    BY <1>4, <1>7, <2>3 DEF c, l
<1>10. /\ n \in 0..Len(chunks)
       /\ (n = Len(chunks) /\ Lost' = Lost) \/ (FileFaults /\ Lost' = TRUE)
  <2>1. n \in 0..Len(chunks) /\ (n = Len(chunks) \/ (FileFaults /\ n < Len(chunks)))
    BY <1>5, <1>7
  <2>2. i # None
    BY ConstantProperties
  <2> QED
    BY <1>3, <1>9, <2>1, <2>2 DEF Lost
<1>11. Sequential!Put
  BY <1>1, <1>2, <1>3, <1>7, <1>9, <1>10, PutsItem
<1> QED
  BY <1>11 DEF SequentialStep

LEMMA HeaderPuts == ASSUME IInv, WriteHeader PROVE SequentialStep
<1>1. main.pc = "header" /\ Finishing /\ ~InFinalPhase
  BY DEF WriteHeader, Finishing, InFinalPhase
<1>2. PICK i \in Items : i = main.itemIndex
  BY <1>1, FinishedItem
<1>3. PICK t \in Threads : t = main.thread
  BY <1>1, Parts DEF MainFits
<1>4. /\ TypeOK /\ arc \in ArcType /\ main \in MainType
      /\ th[t].made \in 0..MaxChunks /\ th[t].pass \in 0..NumMethods
      /\ arc.packSize \in [Items -> 0..MaxChunks]
  BY Parts, MainFacts, StoreFacts, ThreadFacts
<1>5. CASE FileFaults /\ arc' = [arc EXCEPT !.pos = None] /\ Stop("fail")
  BY <1>1, <1>5, LeaveFileFacts, ErrorFails DEF SequentialStep
<1>6. CASE /\ arc' = [arc EXCEPT !.pos = None, !.order = Append(arc.order, i),
                                 !.packSize[i] = th[t].made]
           /\ main' = [main EXCEPT !.itemIndex = i + 1, !.pc = "top"]
  <2>1. ~InFinalPhase'
    <3>1. main'.pc = "top"
      BY <1>4, <1>6 DEF MainType
    <3> QED
      BY <3>1 DEF InFinalPhase
  <2>2. /\ arc'.data = arc.data /\ arc'.order = Append(arc.order, i) /\ arc'.lost = arc.lost
        /\ arc'.packSize = [arc.packSize EXCEPT ![i] = th[t].made]
    <3> DEFINE o == Append(arc.order, i)
    <3>1. arc' = [arc EXCEPT !.pos = None, !.order = o, !.packSize[i] = th[t].made]
      BY <1>6
    <3> HIDE DEF o
    <3>2. /\ arc'.data = arc.data /\ arc'.order = o /\ arc'.lost = arc.lost
          /\ arc'.packSize = [arc.packSize EXCEPT ![i] = th[t].made]
      BY <1>4, <3>1 DEF ArcType
    <3> QED
      BY <3>2 DEF o
  <2>3. /\ arc'.packSize[i] = th[t].made
        /\ \A j \in Items : j # i =>
             arc'.data[j] = arc.data[j] /\ arc'.packSize[j] = arc.packSize[j]
    BY <1>4, <2>2
  <2>4. /\ InFile(t) /\ th[t].pass # 0 /\ th[t].item = i /\ Kind[i] = "new"
    <3>1. InFile(main.thread) /\ th[main.thread].pass # 0
      BY <1>1, Parts DEF StreamsFit
    <3>2. th[main.thread].item = main.itemIndex /\ Kind[main.itemIndex] = "new"
      BY <1>1, Parts DEF MainFits
    <3> QED
      BY <1>2, <1>3, <3>1, <3>2
  <2> DEFINE n == th[t].made
             m == th[t].pass
             d == PassData(i, m, n)
  <2>5. m \in 1..NumMethods
    BY <1>4, <2>4, ConstantProperties
  <2>6. arc.data[i] = d
    BY <2>4 DEF InFile
  <2>7. d \in Sequential!PassesOf(i) /\ Len(d) = n /\ SubSeq(d, 1, n) = d
    BY <1>4, <2>4, <2>5, PassOfData
  <2>8. n \in Nat
    BY <1>4, ConstantProperties
  <2> HIDE DEF d
  <2>9. n \in 0..Len(d) /\ n = Len(d) /\ Lost' = Lost
    BY <1>1, <2>1, <2>2, <2>7, <2>8 DEF Lost
  <2>10. arc'.data[i] = SubSeq(d, 1, n) /\ arc'.packSize[i] = Len(d)
    BY <2>2, <2>3, <2>6, <2>7
  <2>11. Sequential!Put
    BY <1>1, <1>2, <2>1, <2>2, <2>3, <2>7, <2>9, <2>10, PutsItem
  <2> QED
    BY <2>11 DEF SequentialStep
<1> QED
  BY <1>2, <1>3, <1>5, <1>6 DEF WriteHeader

LEMMA CentralDirFinishes == ASSUME IInv, WriteCentralDir PROVE SequentialStep
<1>1. /\ main.pc = "top" /\ main.itemIndex > N /\ arc' = arc /\ ~InFinalPhase
      /\ main \in MainType /\ main.itemIndex \in Nat /\ main.itemIndex <= N + 1 /\ N \in Nat
  BY Parts, MainFacts, ConstantProperties DEF WriteCentralDir, InFinalPhase
<1>2. CASE Stop("ok")
  <2>1. main'.pc = "stop" /\ main'.result = "ok"
    BY <1>1, <1>2 DEF Stop, MainType
  <2>2. Outcome = "none" /\ Outcome' = "ok"
    BY <1>1, <2>1 DEF Outcome, InFinalPhase
  <2>3. Archive' = Archive /\ Lost' = Lost
    BY <1>1, <2>1, SameArchive DEF Lost
  <2>4. Sequential!MayLeaveOut(Sequential!LastItem + 1, N)
    <3>1. main.itemIndex - 1 = N
      BY <1>1
    <3>2. Sequential!LastItem + 1 \in Nat
      BY <1>1, LastWritten
    <3>3. \A i \in (Sequential!LastItem + 1)..N : MaySkip /\ Kind[i] = "new"
      BY <1>1, <3>1, LastWritten
    <3> QED
      BY <1>1, <3>2, <3>3, SequentialIs
  <2> QED
    BY <2>2, <2>3, <2>4, SequentialIs DEF SequentialStep
<1>3. CASE (EncoderFaults \/ FileFaults) /\ Stop("fail")
  BY <1>1, <1>3, ErrorFails DEF SequentialStep
<1> QED
  BY <1>2, <1>3 DEF WriteCentralDir

(* The step that sees a thread's completion: its error is Update2's.       *)
LEMMA AwaitFails == ASSUME IInv, AwaitCompletion PROVE SequentialStep \/ NoStep
<1>1. PICK k \in 1..Len(main.threadIndices) :
        LET t == main.threadIndices[k] IN
        /\ Completed(k)
        /\ \/ /\ th[t].result # "ok"
              /\ Stop(th[t].result)
           \/ /\ th[t].result = "ok" /\ k = 1
              /\ main' = [main EXCEPT !.threadIndices = Tail(main.threadIndices), !.thread = t,
                                      !.pc = "drain"]
           \/ th[t].result = "ok" /\ k > 1 /\ Detach(k)
  BY DEF AwaitCompletion
<1>2. main.pc = "await" /\ arc' = arc /\ ~InFinalPhase /\ main \in MainType
      /\ main.threadIndices \in Seq(Threads) /\ TypeOK
  BY Parts, MainFacts DEF AwaitCompletion, InFinalPhase
<1>3. PICK t \in Threads : t = main.threadIndices[k]
  BY <1>1, <1>2
<1>4. CASE th[t].result # "ok" /\ Stop(th[t].result)
  <2>1. th[t].result \in {"fail", "abort"}
    BY <1>2, <1>4, ThreadFacts DEF Results
  <2>2. EncoderFaults \/ FileFaults
    BY <1>2, <1>4, Parts DEF Lifecycle
  <2> QED
    BY <1>2, <1>4, <2>1, <2>2, ErrorFails DEF SequentialStep
<1>5. CASE main' = [main EXCEPT !.threadIndices = Tail(main.threadIndices), !.thread = t,
                                !.pc = "drain"]
  <2>1. main'.pc = "drain"
    BY <1>2, <1>5 DEF MainType
  <2> QED
    BY <1>2, <2>1, NothingPut DEF InFinalPhase
<1>6. CASE Detach(k)
  <2>1. main'.pc = "free" /\ main'.next = "top"
    BY <1>2, <1>6 DEF Detach, MainType
  <2> QED
    BY <1>2, <2>1, NothingPut DEF InFinalPhase
<1> QED
  BY <1>1, <1>3, <1>4, <1>5, <1>6

LEMMA DrainFails == ASSUME IInv, Drain PROVE SequentialStep \/ NoStep
<1>1. main.pc = "drain" /\ Finishing /\ ~InFinalPhase
  BY DEF Drain, Finishing, InFinalPhase
<1>2. PICK i \in Items : i = main.itemIndex
  BY <1>1, FinishedItem
<1>3. PICK t \in Threads : t = main.thread
  BY <1>1, Parts DEF MainFits
<1> DEFINE chunks == Contents(th[t].blocks, th[t].total)
<1>4. chunks \in Seq(Stored) /\ arc.pos = i /\ TypeOK /\ main \in MainType /\ i \in Nat
  BY <1>1, <1>2, <1>3, DrainData, DrainedThread, Parts, MainFacts
<1> HIDE DEF chunks
<1>5. \/ /\ Append2File(chunks)
         /\ main' = [main EXCEPT !.pc = "free", !.next = "header", !.list = Range(th[t].blocks)]
      \/ FileFaults /\ AppendPrefix(chunks) /\ Stop("fail")
  BY <1>3 DEF Drain, chunks
<1>6. ChangesData(arc.pos)
  BY <1>2, <1>4, <1>5, AppendEffect, PrefixEffect
<1>7. /\ arc'.order = arc.order /\ arc'.packSize = arc.packSize /\ arc'.lost = arc.lost
      /\ \A j \in Items : j < main.itemIndex => arc'.data[j] = arc.data[j]
  BY <1>2, <1>4, <1>6 DEF ChangesData
<1>8. CASE main' = [main EXCEPT !.pc = "free", !.next = "header", !.list = Range(th[t].blocks)]
  <2>1. main'.pc = "free" /\ main'.next = "header"
    BY <1>4, <1>8 DEF MainType
  <2> QED
    BY <1>1, <1>7, <2>1, NothingPut DEF InFinalPhase
<1>9. CASE FileFaults /\ Stop("fail")
  BY <1>1, <1>7, <1>9, ErrorFails DEF SequentialStep
<1> QED
  BY <1>5, <1>8, <1>9

(* Steps that neither write an item nor end the update, or that end it     *)
(* with an error of the callback.                                          *)
LEMMA StreamStepFails ==
  ASSUME IInv, GetStream \/ SkipFile \/ StickAtFile PROVE SequentialStep \/ NoStep
<1>1. main.pc \in {"getstream", "skip"} /\ arc' = arc /\ ~InFinalPhase /\ main \in MainType
  BY Parts, MainFacts DEF GetStream, SkipFile, StickAtFile, InFinalPhase
<1>2. CASE EncoderFaults /\ (Stop("fail") \/ Stop("abort"))
  BY <1>1, <1>2, ErrorFails DEF SequentialStep
<1>3. CASE main'.pc \in {"top", "skip", "stuck"}
  BY <1>1, <1>3, NothingPut DEF InFinalPhase
<1>4. ASSUME Dispatch(main.mtItemIndex - 1) PROVE main'.pc = "top"
  BY <1>1, <1>4 DEF Dispatch, MainType
<1>5. ASSUME NEW p \in {"top", "skip", "stuck"}, main' = [main EXCEPT !.pc = p]
      PROVE  main'.pc \in {"top", "skip", "stuck"}
  BY <1>1, <1>5 DEF MainType
<1> QED
  BY <1>2, <1>3, <1>4, <1>5 DEF GetStream, SkipFile, StickAtFile

LEMMA QuietSteps ==
  ASSUME IInv, PassOver \/ LockMixer \/ PassSkipped \/ GrantFront \/ MainFreeBlock
                 \/ MainReleaseBlock \/ MainFreeDone \/ StopThread \/ JoinThread \/ FreeAll
  PROVE  NoStep
<1>1. main \in MainType /\ arc \in ArcType
  BY Parts, MainFacts, StoreFacts
<1>2. /\ arc'.order = arc.order /\ arc'.packSize = arc.packSize /\ arc'.data = arc.data
      /\ arc'.lost = arc.lost
  <2>1. CASE GrantFront
    BY <1>1, <2>1 DEF GrantFront, ArcType
  <2>2. CASE \/ PassOver \/ LockMixer \/ PassSkipped \/ MainFreeBlock \/ MainReleaseBlock
             \/ MainFreeDone \/ StopThread \/ JoinThread \/ FreeAll
    BY <2>2 DEF PassOver, LockMixer, PassSkipped, MainFreeBlock, MainReleaseBlock,
                MainFreeDone, StopThread, JoinThread, FreeAll
  <2> QED
    BY <2>1, <2>2
<1>3. CASE PassOver \/ LockMixer \/ PassSkipped \/ GrantFront
  <2>1. main.pc = "top" /\ main'.pc \in {"top", "getstream", "await"}
    BY <1>1, <1>3 DEF PassOver, LockMixer, PassSkipped, GrantFront, AtFile, AtItem, AtTop,
                      MainType
  <2> QED
    BY <1>2, <2>1, NothingPut DEF InFinalPhase
<1>4. CASE MainFreeBlock \/ MainReleaseBlock
  <2>1. /\ main.pc \in {"free", "release"} /\ main'.pc \in {"free", "release"}
        /\ main'.next = main.next /\ main'.result = main.result
    BY <1>1, <1>4 DEF MainFreeBlock, MainReleaseBlock, MainType
  <2> QED
    BY <1>2, <2>1, NothingPut DEF InFinalPhase
<1>5. CASE MainFreeDone
  <2>1. /\ main.pc = "free" /\ main'.pc = main.next /\ main'.result = main.result
        /\ main.next \in {"top", "header", "done"}
    BY <1>1, <1>5 DEF MainFreeDone, MainType
  <2> QED
    BY <1>2, <2>1, NothingPut DEF InFinalPhase
<1>6. CASE StopThread \/ JoinThread
  <2>1. /\ main.pc \in {"stop", "join"} /\ main'.pc \in {"stop", "join"}
        /\ main'.result = main.result
    BY <1>1, <1>6 DEF StopThread, JoinThread, MainType
  <2> QED
    BY <1>2, <2>1, NothingPut DEF InFinalPhase
<1>7. CASE FreeAll
  <2>1. main.pc = "stop" /\ main'.pc = "free" /\ main'.next = "done"
        /\ main'.result = main.result
    BY <1>1, <1>7 DEF FreeAll, MainType
  <2> QED
    BY <1>2, <2>1, NothingPut DEF InFinalPhase
<1> QED
  BY <1>3, <1>4, <1>5, <1>6, <1>7

LEMMA DetachedHeaderFailsStep == ASSUME IInv, DetachedHeaderFails PROVE SequentialStep
<1>1. ~InFinalPhase /\ FileFaults /\ Stop("fail") /\ arc' = [arc EXCEPT !.pos = None]
  BY DEF DetachedHeaderFails, AtFile, AtItem, AtTop, InFinalPhase
<1> QED
  BY <1>1, LeaveFileFacts, ErrorFails DEF SequentialStep

LEMMA StepImplements == ASSUME IInv, [Next]_vars PROVE SequentialStep \/ NoStep
<1>1. CASE MainStep
  BY <1>1, OldOrDirPuts, DetachedPuts, HeaderPuts, CentralDirFinishes, AwaitFails, DrainFails,
     StreamStepFails, QuietSteps, DetachedHeaderFailsStep DEF MainStep
<1>2. ASSUME NEW t \in Threads, ThreadStep(t) PROVE NoStep
  BY <1>2, ThreadStepStutters
<1>3. CASE UNCHANGED vars
  <2>1. main' = main /\ arc' = arc
    BY <1>3 DEF vars
  <2>2. Outcome' = Outcome /\ Lost' = Lost
    BY <2>1 DEF Outcome, Lost, InFinalPhase
  <2> QED
    BY <2>1, <2>2, SameArchive DEF NoStep
<1> QED
  BY <1>1, <1>2, <1>3 DEF Next

(* The threads together produce what a sequential update would: the items  *)
(* appear in the order of the list, each once and, while no failed write   *)
(* went unnoticed, whole, and none changes after its header; a file is     *)
(* left out only if the callback declined it.                              *)
THEOREM ThreadsWriteLikeOne == Spec => SequentialSpec
<1>1. Init => Sequential!Init
  <2>1. SUFFICES ASSUME Init PROVE Archive = <<>> /\ Outcome = "none" /\ Lost = FALSE
    BY SequentialIs
  <2>2. arc.order = <<>> /\ arc.lost = None /\ main.pc = "top"
    BY <2>1 DEF Init
  <2>3. Outcome = "none" /\ Lost = FALSE
    BY <2>2 DEF Outcome, Lost, InFinalPhase
  <2>4. Archive = <<>>
    BY <2>2 DEF Archive
  <2> QED
    BY <2>3, <2>4
<1>2. IInv /\ [Next]_vars =>
        [Sequential!Put \/ Sequential!Finish \/ Sequential!Fail]_<<Archive, Outcome, Lost>>
  <2>1. SUFFICES ASSUME IInv, [Next]_vars PROVE SequentialStep \/ NoStep
    BY DEF SequentialStep, NoStep
  <2> QED
    BY <2>1, StepImplements
<1> QED
  BY <1>1, <1>2, InductiveInvariant, PTL DEF Spec, SequentialSpec, Sequential!Spec, Archive, Entry, Outcome
=============================================================================
