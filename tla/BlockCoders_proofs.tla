-------------------------- MODULE BlockCoders_proofs --------------------------
(***************************************************************************)
(* Proofs about the three block coders, for any number of threads, blocks  *)
(* and calls and any input, whichever of the calls they make may fail:     *)
(* first about each coder on its own, then about the one in use behind     *)
(* their common interface.  A lemma about the BZip2 encoder is named       *)
(* Enc..., one about the BZip2 decoder Dec..., one about the ring of       *)
(* MtCoder.c Ring... .                                                     *)
(***************************************************************************)
EXTENDS BlockCoders, TLAPS, SequenceTheorems, FiniteSetTheorems

-----------------------------------------------------------------------------
(* The BZip2 encoder.                                                      *)

(* Slots are numbers of threads.                                           *)
LEMMA EncSlotProperties ==
  /\ NumThreads \in Nat \ {0} /\ 0 \in Enc!Threads /\ Enc!Nobody \notin Enc!Threads /\ Enc!Nobody \in 0..NumThreads
  /\ \A t \in Enc!Threads : /\ t \in 0..NumThreads /\ t + 1 \in 0..NumThreads
                            /\ t \in Nat /\ t < NumThreads /\ Enc!NextSlot(t) \in Enc!Threads
BY ConstantsAssumption DEF Enc!Threads, Enc!Nobody, Enc!NextSlot

(* Going on to the next slot.                                              *)
LEMMA EncAheadNext ==
  ASSUME NEW p \in Enc!Threads, NEW q \in Enc!Threads, NEW d \in Nat, d <= NumThreads, Enc!Ahead(p, q, d)
  PROVE  /\ d < NumThreads => Enc!Ahead(p, Enc!NextSlot(q), d + 1)
         /\ d > 0 => Enc!Ahead(Enc!NextSlot(p), q, d - 1)
BY EncSlotProperties DEF Enc!Ahead, Enc!NextSlot, Enc!Threads

LEMMA EncAheadSame ==
  ASSUME NEW p \in Enc!Threads, NEW q \in Enc!Threads, NEW d \in Nat, d <= NumThreads, Enc!Ahead(p, q, d)
  PROVE  p = q <=> d = 0 \/ d = NumThreads
BY EncSlotProperties DEF Enc!Ahead, Enc!Threads

LEMMA EncInitIInv == Enc!Init => Enc!IInv
<1> SUFFICES ASSUME Enc!Init PROVE Enc!IInv
  OBVIOUS
<1> USE EncSlotProperties, ConstantsAssumption DEF Enc!Init
<1>1. Enc!TypeOK
  BY DEF Enc!TypeOK, Enc!MainType, Enc!EncoderType, Enc!ThreadType, Enc!IoType, Enc!ThreadPcs, Enc!Results
<1>2. Enc!Phases /\ Enc!SectionIsOwned /\ Enc!OneTurn
  BY DEF Enc!Phases, Enc!SectionIsOwned, Enc!OneTurn
<1>3. \A t \in Enc!Threads : Enc!Rendezvous(t) /\ (main.pc = "reset" => ~th[t].canWrite)
  BY DEF Enc!Rendezvous
<1>4. Enc!InCall /\ (main.pc \in {"reset", "finished", "started"} <=> main.returned = "none")
  BY DEF Enc!InCall
<1> QED
  BY <1>1, <1>2, <1>3, <1>4 DEF Enc!IInv

(* The numbers a behaviour works with.                                     *)
LEMMA EncFlowProperties ==
  ASSUME Enc!TypeOK
  PROVE  /\ coder.next \in Enc!Threads /\ NumBlocks \in Nat
         /\ io.read \in 0..NumBlocks /\ io.read \in Nat
         /\ io.written \in Seq(0..NumBlocks) /\ Len(io.written) \in Nat
         /\ \A t \in Enc!Threads : th[t].block \in 0..NumBlocks /\ th[t].slot \in Enc!Threads
BY ConstantsAssumption, LenProperties DEF Enc!TypeOK, Enc!EncoderType, Enc!IoType, Enc!ThreadType

-----------------------------------------------------------------------------
(* The steps of a thread.                                                  *)

LEMMA EncThreadTypeOK ==
  ASSUME Enc!TypeOK, NEW t \in Enc!Threads, Enc!ThreadStep(t)
  PROVE  Enc!TypeOK'
<1> USE EncSlotProperties DEF Enc!TypeOK
<1>1. CASE Enc!EnterCS(t)
  <2>1. coder' \in Enc!EncoderType
    BY <1>1 DEF Enc!EnterCS, Enc!EncoderType
  <2>2. th' \in [Enc!Threads -> Enc!ThreadType]
    BY <1>1 DEF Enc!EnterCS, Enc!Goto, Enc!ThreadType, Enc!ThreadPcs
  <2> QED
    BY <1>1, <2>1, <2>2 DEF Enc!EnterCS
<1>2. CASE Enc!CloseThread(t)
  <2>1. coder' \in Enc!EncoderType
    BY <1>2 DEF Enc!CloseThread, Enc!EncoderType
  <2>2. th' \in [Enc!Threads -> Enc!ThreadType]
    BY <1>2 DEF Enc!CloseThread, Enc!Goto, Enc!ThreadType, Enc!ThreadPcs
  <2> QED
    BY <1>2, <2>1, <2>2 DEF Enc!CloseThread
<1>3. CASE Enc!SeeFinished(t)
  BY <1>3 DEF Enc!SeeFinished, Enc!Goto, Enc!ThreadType, Enc!ThreadPcs
<1>4. CASE Enc!ReadBlock(t)
  <2>1. coder' \in Enc!EncoderType
    <3>1. Enc!NextSlot(coder.next) \in Enc!Threads /\ Enc!Nobody \in 0..NumThreads
      BY DEF Enc!EncoderType
    <3>2. CASE io.read = NumBlocks
      BY <1>4, <3>1, <3>2 DEF Enc!ReadBlock, Enc!EncoderType
    <3>3. CASE io.read # NumBlocks
      <4>1. coder' = [coder EXCEPT !.next = Enc!NextSlot(coder.next), !.cs = Enc!Nobody]
        BY <1>4, <3>3 DEF Enc!ReadBlock
      <4> QED
        BY <3>1, <4>1 DEF Enc!EncoderType
    <3> QED
      BY <3>2, <3>3
  <2>2. /\ io' \in Enc!IoType
        /\ io.read # NumBlocks => io.read + 1 \in 0..NumBlocks
    BY <1>4, ConstantsAssumption DEF Enc!ReadBlock, Enc!IoType
  <2>3. th' \in [Enc!Threads -> Enc!ThreadType]
    <3>1. coder.next \in Enc!Threads
      BY DEF Enc!EncoderType
    <3> QED
      BY <1>4, <2>2, <3>1 DEF Enc!ReadBlock, Enc!ThreadType, Enc!ThreadPcs
  <2> QED
    BY <1>4, <2>1, <2>2, <2>3 DEF Enc!ReadBlock
<1>5. CASE Enc!ReadFails(t)
  <2>1. coder' \in Enc!EncoderType
    BY <1>5 DEF Enc!ReadFails, Enc!EncoderType, Enc!Results
  <2>2. th' \in [Enc!Threads -> Enc!ThreadType]
    BY <1>5 DEF Enc!ReadFails, Enc!Goto, Enc!ThreadType, Enc!ThreadPcs
  <2> QED
    BY <1>5, <2>1, <2>2 DEF Enc!ReadFails
<1>6. CASE Enc!TakeTurn(t)
  <2>1. th[t].slot \in Enc!Threads
    BY DEF Enc!ThreadType
  <2> DEFINE taken == [th EXCEPT ![th[t].slot].canWrite = FALSE]
  <2>2. taken \in [Enc!Threads -> Enc!ThreadType]
    BY <2>1 DEF Enc!ThreadType
  <2>3. th' = [taken EXCEPT ![t].pc = "write"]
    BY <1>6, <2>1 DEF Enc!TakeTurn
  <2> HIDE DEF taken
  <2>4. th' \in [Enc!Threads -> Enc!ThreadType]
    BY <2>2, <2>3 DEF Enc!ThreadType, Enc!ThreadPcs
  <2> QED
    BY <1>6, <2>4 DEF Enc!TakeTurn
<1>7. CASE Enc!WriteBlock(t)
  <2>1. coder' \in Enc!EncoderType
    BY <1>7 DEF Enc!WriteBlock, Enc!EncoderType, Enc!Results
  <2>2. th' \in [Enc!Threads -> Enc!ThreadType]
    BY <1>7 DEF Enc!WriteBlock, Enc!Goto, Enc!ThreadType, Enc!ThreadPcs
  <2>3. io' \in Enc!IoType
    <3>1. th[t].block \in 0..NumBlocks
      BY DEF Enc!ThreadType
    <3>2. Append(io.written, th[t].block) \in Seq(0..NumBlocks)
      BY <3>1, AppendProperties DEF Enc!IoType
    <3> QED
      BY <1>7, <3>2 DEF Enc!WriteBlock, Enc!IoType
  <2> QED
    BY <1>7, <2>1, <2>2, <2>3 DEF Enc!WriteBlock
<1>8. CASE Enc!PassTurn(t)
  <2>1. coder' \in Enc!EncoderType
    BY <1>8 DEF Enc!PassTurn, Enc!EncoderType, Enc!Results
  <2>2. Enc!NextSlot(th[t].slot) \in Enc!Threads
    BY DEF Enc!ThreadType
  <2>3. th' \in [Enc!Threads -> Enc!ThreadType]
    <3> DEFINE passed(p) == [th EXCEPT ![t].pc = p]
               n == Enc!NextSlot(th[t].slot)
    <3>1. ASSUME NEW p \in Enc!ThreadPcs PROVE passed(p) \in [Enc!Threads -> Enc!ThreadType]
      BY DEF Enc!ThreadType
    <3>2. PICK p \in {"wait", "finish"} : th' = [passed(p) EXCEPT ![n].canWrite = TRUE]
      BY <1>8, <2>2 DEF Enc!PassTurn
    <3>3. passed(p) \in [Enc!Threads -> Enc!ThreadType]
      BY <3>1 DEF Enc!ThreadPcs
    <3> HIDE DEF passed, n
    <3> QED
      BY <2>2, <3>2, <3>3 DEF Enc!ThreadType, n
  <2> QED
    BY <1>8, <2>1, <2>3 DEF Enc!PassTurn
<1>9. CASE Enc!FinishStream(t)
  <2>1. coder' \in Enc!EncoderType
    BY <1>9 DEF Enc!FinishStream, Enc!EncoderType
  <2>2. th' \in [Enc!Threads -> Enc!ThreadType]
    BY <1>9 DEF Enc!FinishStream, Enc!ThreadType, Enc!ThreadPcs
  <2> QED
    BY <1>9, <2>1, <2>2 DEF Enc!FinishStream
<1>10. CASE Enc!StartWaiting(t)
  BY <1>10, SMTT(30), ZenonT(30) DEF Enc!StartWaiting, Enc!ThreadType, Enc!ThreadPcs
<1> QED
  BY <1>1, <1>2, <1>3, <1>4, <1>5, <1>6, <1>7, <1>8, <1>9, <1>10 DEF Enc!ThreadStep

(* Where a step leaves the threads: only the one that takes it moves.      *)
LEMMA EncThreadFrame ==
  ASSUME Enc!TypeOK, NEW t \in Enc!Threads, Enc!ThreadStep(t)
  PROVE  /\ UNCHANGED main
         /\ UNCHANGED <<coder.closeThreads, coder.canProcess, coder.canStartWaiting>>
         /\ \A u \in Enc!Threads \ {t} :
              /\ th'[u].pc = th[u].pc /\ th'[u].block = th[u].block /\ th'[u].slot = th[u].slot
              /\ th'[u].finished = th[u].finished /\ th'[u].started = th[u].started
<1> USE EncSlotProperties DEF Enc!TypeOK
<1>1. coder \in Enc!EncoderType /\ th \in [Enc!Threads -> Enc!ThreadType]
  OBVIOUS
<1>2. UNCHANGED main /\ UNCHANGED <<coder.closeThreads, coder.canProcess, coder.canStartWaiting>>
  BY <1>1 DEF Enc!ThreadStep, Enc!EnterCS, Enc!CloseThread, Enc!SeeFinished, Enc!ReadBlock, Enc!ReadFails, Enc!TakeTurn,
     Enc!WriteBlock, Enc!PassTurn, Enc!FinishStream, Enc!StartWaiting, Enc!EncoderType
<1>3. ASSUME NEW u \in Enc!Threads, u # t
      PROVE  /\ th'[u].pc = th[u].pc /\ th'[u].block = th[u].block /\ th'[u].slot = th[u].slot
             /\ th'[u].finished = th[u].finished /\ th'[u].started = th[u].started
  <2>1. th[t].slot \in Enc!Threads /\ Enc!NextSlot(th[t].slot) \in Enc!Threads
    BY <1>1 DEF Enc!ThreadType
  <2>2. CASE Enc!TakeTurn(t) \/ Enc!PassTurn(t)
    BY <1>1, <1>3, <2>1, <2>2 DEF Enc!TakeTurn, Enc!PassTurn, Enc!ThreadType
  <2>3. CASE ~(Enc!TakeTurn(t) \/ Enc!PassTurn(t))
    BY <1>1, <1>3, <2>3 DEF Enc!ThreadStep, Enc!EnterCS, Enc!CloseThread, Enc!SeeFinished, Enc!ReadBlock, Enc!ReadFails,
       Enc!WriteBlock, Enc!FinishStream, Enc!StartWaiting, Enc!Goto
  <2> QED
    BY <2>2, <2>3
<1> QED
  BY <1>2, <1>3

(* What each action does, field by field.                                  *)
EncMoves(t, from, to) == th[t].pc = from /\ th'[t].pc = to
EncKeepsBlock(t) == th'[t].block = th[t].block /\ th'[t].slot = th[t].slot
EncKeepsTurns == \A u \in Enc!Threads : th'[u].canWrite = th[u].canWrite
EncKeepsStream == coder'.streamWasFinished = coder.streamWasFinished /\ coder'.next = coder.next
EncKeepsFlow == EncKeepsStream /\ coder'.result = coder.result /\ io' = io

LEMMA EncSectionEffect ==
  ASSUME Enc!TypeOK, NEW t \in Enc!Threads
  PROVE  /\ Enc!EnterCS(t) => /\ EncMoves(t, "wait", "inside") /\ EncKeepsBlock(t) /\ EncKeepsTurns /\ EncKeepsFlow
                              /\ coder.cs = Enc!Nobody /\ coder'.cs = t
         /\ Enc!CloseThread(t) => /\ EncMoves(t, "inside", "exited") /\ EncKeepsBlock(t) /\ EncKeepsTurns
                                  /\ EncKeepsFlow /\ coder.closeThreads /\ coder'.cs = Enc!Nobody
         /\ Enc!SeeFinished(t) => /\ EncMoves(t, "inside", "finish") /\ EncKeepsBlock(t) /\ EncKeepsTurns
                                  /\ EncKeepsFlow /\ coder.streamWasFinished /\ coder'.cs = coder.cs
<1>1. coder \in Enc!EncoderType /\ th \in [Enc!Threads -> Enc!ThreadType]
  BY DEF Enc!TypeOK
<1> QED
  BY <1>1 DEF Enc!EnterCS, Enc!CloseThread, Enc!SeeFinished, Enc!Goto, EncMoves, EncKeepsBlock, EncKeepsTurns, EncKeepsStream,
     EncKeepsFlow, Enc!EncoderType, Enc!ThreadType

LEMMA EncReadEffect ==
  ASSUME Enc!TypeOK, NEW t \in Enc!Threads, Enc!ReadBlock(t)
  PROVE  /\ EncKeepsTurns /\ ~coder.streamWasFinished /\ ~coder'.streamWasFinished
         /\ coder'.result = coder.result
         /\ io.read = NumBlocks =>
              /\ EncMoves(t, "inside", "finish") /\ th'[t].block = th[t].block
              /\ coder'.cs = coder.cs /\ io' = io
         /\ io.read # NumBlocks =>
              /\ EncMoves(t, "inside", "encode")
              /\ th'[t].block = io.read + 1 /\ th'[t].slot = coder.next
              /\ coder'.next = Enc!NextSlot(coder.next) /\ coder'.cs = Enc!Nobody
              /\ io'.read = io.read + 1 /\ io'.written = io.written /\ io'.failed = io.failed
<1>1. coder \in Enc!EncoderType /\ th \in [Enc!Threads -> Enc!ThreadType] /\ io \in Enc!IoType
  BY DEF Enc!TypeOK
<1>2. /\ th[t].pc = "inside" /\ ~coder.streamWasFinished /\ ~coder'.streamWasFinished
      /\ coder'.result = coder.result
  BY <1>1 DEF Enc!ReadBlock, Enc!EncoderType
<1>3. CASE io.read = NumBlocks
  <2>1. th' = [th EXCEPT ![t].pc = "finish", ![t].slot = coder.next] /\ io' = io
    BY <1>3 DEF Enc!ReadBlock
  <2>2. EncKeepsTurns /\ th'[t].pc = "finish" /\ th'[t].block = th[t].block
    BY <1>1, <2>1 DEF EncKeepsTurns, Enc!ThreadType
  <2>3. coder'.cs = coder.cs
    BY <1>1, <1>3 DEF Enc!ReadBlock, Enc!EncoderType
  <2> QED
    BY <1>2, <1>3, <2>1, <2>2, <2>3 DEF EncMoves
<1>4. CASE io.read # NumBlocks
  <2>1. th' = [th EXCEPT ![t].pc = "encode", ![t].block = io.read + 1, ![t].slot = coder.next]
    BY <1>4 DEF Enc!ReadBlock
  <2>2. /\ EncKeepsTurns /\ th'[t].pc = "encode"
        /\ th'[t].block = io.read + 1 /\ th'[t].slot = coder.next
    BY <1>1, <2>1 DEF EncKeepsTurns, Enc!ThreadType
  <2>3. coder'.next = Enc!NextSlot(coder.next) /\ coder'.cs = Enc!Nobody
    BY <1>1, <1>4 DEF Enc!ReadBlock, Enc!EncoderType
  <2>4. io'.read = io.read + 1 /\ io'.written = io.written /\ io'.failed = io.failed
    BY <1>1, <1>4 DEF Enc!ReadBlock, Enc!IoType
  <2> QED
    BY <1>2, <1>4, <2>2, <2>3, <2>4 DEF EncMoves
<1> QED
  BY <1>3, <1>4

LEMMA EncReadFailsEffect ==
  ASSUME Enc!TypeOK, NEW t \in Enc!Threads, Enc!ReadFails(t)
  PROVE  /\ EncMoves(t, "inside", "finish") /\ EncKeepsBlock(t) /\ EncKeepsTurns /\ EncKeepsStream
         /\ coder'.result = "read" /\ ReadFaults /\ coder'.cs = coder.cs /\ io' = io
BY DEF Enc!TypeOK, Enc!EncoderType, Enc!ThreadType, Enc!ReadFails, Enc!Goto, EncMoves, EncKeepsBlock, EncKeepsTurns, EncKeepsStream

LEMMA EncTurnEffect ==
  ASSUME Enc!TypeOK, NEW t \in Enc!Threads
  PROVE  /\ th[t].slot \in Enc!Threads /\ Enc!NextSlot(th[t].slot) \in Enc!Threads
         /\ Enc!TakeTurn(t) =>
              /\ EncMoves(t, "encode", "write") /\ EncKeepsBlock(t) /\ EncKeepsFlow
              /\ coder'.cs = coder.cs /\ th[th[t].slot].canWrite
              /\ \A u \in Enc!Threads : th'[u].canWrite <=> (th[u].canWrite /\ u # th[t].slot)
         /\ Enc!PassTurn(t) =>
              /\ \/ EncMoves(t, "pass", "wait") /\ coder'.result = coder.result
                 \/ EncMoves(t, "pass", "finish") /\ coder'.result = "abort" /\ AbortFaults
              /\ EncKeepsBlock(t) /\ EncKeepsStream /\ io' = io /\ coder'.cs = coder.cs
              /\ \A u \in Enc!Threads :
                   th'[u].canWrite <=> (th[u].canWrite \/ u = Enc!NextSlot(th[t].slot))
<1> USE EncSlotProperties
<1>1. coder \in Enc!EncoderType /\ th \in [Enc!Threads -> Enc!ThreadType]
  BY DEF Enc!TypeOK
<1>2. th[t].slot \in Enc!Threads /\ Enc!NextSlot(th[t].slot) \in Enc!Threads
  BY <1>1 DEF Enc!ThreadType
<1>3. CASE Enc!TakeTurn(t)
  <2> DEFINE taken == [th EXCEPT ![th[t].slot].canWrite = FALSE]
  <2>1. /\ taken \in [Enc!Threads -> Enc!ThreadType]
        /\ \A u \in Enc!Threads : /\ taken[u].canWrite <=> (th[u].canWrite /\ u # th[t].slot)
                                  /\ taken[u].block = th[u].block /\ taken[u].slot = th[u].slot
    <3>1. taken \in [Enc!Threads -> Enc!ThreadType]
      BY <1>1, <1>2 DEF Enc!ThreadType
    <3>2. taken[th[t].slot] = [th[th[t].slot] EXCEPT !.canWrite = FALSE]
      BY <1>1, <1>2
    <3>3. \A u \in Enc!Threads \ {th[t].slot} : taken[u] = th[u]
      BY <1>1, <1>2
    <3> QED
      BY <1>1, <1>2, <3>1, <3>2, <3>3 DEF Enc!ThreadType
  <2>2. th' = [taken EXCEPT ![t].pc = "write"] /\ th[t].pc = "encode" /\ th[th[t].slot].canWrite
    BY <1>1, <1>2, <1>3 DEF Enc!TakeTurn
  <2> HIDE DEF taken
  <2>3. EncMoves(t, "encode", "write") /\ EncKeepsBlock(t)
    BY <2>1, <2>2 DEF EncMoves, EncKeepsBlock, Enc!ThreadType
  <2>4. \A u \in Enc!Threads : th'[u].canWrite <=> (th[u].canWrite /\ u # th[t].slot)
    BY <2>1, <2>2 DEF Enc!ThreadType
  <2> QED
    BY <1>2, <1>3, <2>2, <2>3, <2>4 DEF Enc!TakeTurn, Enc!PassTurn, EncKeepsFlow, EncKeepsStream
<1>4. CASE Enc!PassTurn(t)
  <2> DEFINE n == Enc!NextSlot(th[t].slot)
             moved(p) == [th EXCEPT ![t].pc = p]
  <2>1. PICK p \in {"wait", "finish"} :
          /\ th' = [moved(p) EXCEPT ![n].canWrite = TRUE] /\ th[t].pc = "pass" /\ io' = io
          /\ p = "wait" => coder' = coder
          /\ p = "finish" => coder' = [coder EXCEPT !.result = "abort"] /\ AbortFaults
    BY <1>1, <1>2, <1>4 DEF Enc!PassTurn
  <2>2. /\ moved(p) \in [Enc!Threads -> Enc!ThreadType]
        /\ moved(p)[t].pc = p
        /\ \A u \in Enc!Threads : /\ moved(p)[u].canWrite = th[u].canWrite
                                  /\ moved(p)[u].block = th[u].block /\ moved(p)[u].slot = th[u].slot
    BY <1>1 DEF Enc!ThreadType, Enc!ThreadPcs
  <2> HIDE DEF moved, n
  <2>3. EncMoves(t, "pass", p) /\ EncKeepsBlock(t)
    BY <1>2, <2>1, <2>2 DEF EncMoves, EncKeepsBlock, Enc!ThreadType, n
  <2>4. \A u \in Enc!Threads : th'[u].canWrite <=> (th[u].canWrite \/ u = n)
    BY <2>1, <2>2 DEF Enc!ThreadType
  <2>5. /\ EncKeepsStream /\ coder'.cs = coder.cs
        /\ p = "wait" => coder'.result = coder.result
        /\ p = "finish" => coder'.result = "abort" /\ AbortFaults
    BY <1>1, <2>1 DEF EncKeepsStream, Enc!EncoderType
  <2>6. ~Enc!TakeTurn(t)
    BY <2>1 DEF Enc!TakeTurn
  <2>7. \/ EncMoves(t, "pass", "wait") /\ coder'.result = coder.result
        \/ EncMoves(t, "pass", "finish") /\ coder'.result = "abort" /\ AbortFaults
    <3>1. p = "wait" \/ p = "finish"
      OBVIOUS
    <3> QED
      BY <2>3, <2>5, <3>1
  <2> QED
    BY <1>2, <2>1, <2>3, <2>4, <2>5, <2>6, <2>7 DEF n
<1> QED
  BY <1>2, <1>3, <1>4

LEMMA EncWriteEffect ==
  ASSUME Enc!TypeOK, NEW t \in Enc!Threads, Enc!WriteBlock(t)
  PROVE  /\ th[t].pc = "write" /\ EncKeepsBlock(t) /\ EncKeepsTurns /\ EncKeepsStream /\ coder'.cs = coder.cs
         /\ io'.read = io.read
         /\ \/ /\ th'[t].pc = "pass" /\ io'.written = Append(io.written, th[t].block)
               /\ coder'.result = coder.result /\ io'.failed = io.failed
            \/ /\ th'[t].pc = "finish" /\ io'.written = io.written
               /\ coder'.result = "write" /\ io'.failed /\ WriteFaults
<1>1. coder \in Enc!EncoderType /\ th \in [Enc!Threads -> Enc!ThreadType] /\ io \in Enc!IoType
  BY DEF Enc!TypeOK
<1>2. PICK p \in {"pass", "finish"} :
        /\ th' = [th EXCEPT ![t].pc = p] /\ th[t].pc = "write"
        /\ p = "pass" => coder' = coder /\ io' = [io EXCEPT !.written = Append(@, th[t].block)]
        /\ p = "finish" => /\ coder' = [coder EXCEPT !.result = "write"] /\ WriteFaults
                           /\ io' = [io EXCEPT !.failed = TRUE]
  BY DEF Enc!WriteBlock, Enc!Goto
<1>3. th'[t].pc = p /\ EncKeepsBlock(t) /\ EncKeepsTurns
  BY <1>1, <1>2 DEF EncKeepsBlock, EncKeepsTurns, Enc!ThreadType
<1>4. /\ EncKeepsStream /\ coder'.cs = coder.cs
      /\ p = "pass" => coder'.result = coder.result
      /\ p = "finish" => coder'.result = "write"
  BY <1>1, <1>2 DEF EncKeepsStream, Enc!EncoderType
<1>5. /\ io'.read = io.read
      /\ p = "pass" => io'.written = Append(io.written, th[t].block) /\ io'.failed = io.failed
      /\ p = "finish" => io'.written = io.written /\ io'.failed
  BY <1>1, <1>2 DEF Enc!IoType
<1> QED
  BY <1>2, <1>3, <1>4, <1>5

LEMMA EncRestEffect ==
  ASSUME Enc!TypeOK, NEW t \in Enc!Threads
  PROVE  /\ Enc!FinishStream(t) =>
              /\ EncMoves(t, "finish", "rest") /\ EncKeepsBlock(t) /\ EncKeepsTurns
              /\ coder'.streamWasFinished /\ coder'.next = coder.next /\ coder'.result = coder.result
              /\ io' = io
         /\ Enc!StartWaiting(t) =>
              /\ EncMoves(t, "rest", "wait") /\ EncKeepsBlock(t) /\ EncKeepsTurns /\ EncKeepsFlow
              /\ coder'.cs = coder.cs
<1>1. coder \in Enc!EncoderType /\ th \in [Enc!Threads -> Enc!ThreadType]
  BY DEF Enc!TypeOK
<1>2. Enc!FinishStream(t) =>
        /\ EncMoves(t, "finish", "rest") /\ EncKeepsBlock(t) /\ EncKeepsTurns
        /\ coder'.streamWasFinished /\ coder'.next = coder.next /\ coder'.result = coder.result
        /\ io' = io
  <2> SUFFICES ASSUME Enc!FinishStream(t)
               PROVE  /\ EncMoves(t, "finish", "rest") /\ EncKeepsBlock(t) /\ EncKeepsTurns
                      /\ coder'.streamWasFinished /\ coder'.next = coder.next
                      /\ coder'.result = coder.result /\ io' = io
    OBVIOUS
  <2>1. EncMoves(t, "finish", "rest") /\ EncKeepsBlock(t) /\ EncKeepsTurns
    BY <1>1 DEF Enc!FinishStream, EncMoves, EncKeepsBlock, EncKeepsTurns, Enc!ThreadType
  <2> QED
    BY <1>1, <2>1 DEF Enc!FinishStream, Enc!EncoderType
<1>3. Enc!StartWaiting(t) =>
        /\ EncMoves(t, "rest", "wait") /\ EncKeepsBlock(t) /\ EncKeepsTurns /\ EncKeepsFlow
        /\ coder'.cs = coder.cs
  BY <1>1 DEF Enc!StartWaiting, EncMoves, EncKeepsBlock, EncKeepsTurns, EncKeepsFlow, EncKeepsStream, Enc!ThreadType
<1> QED
  BY <1>2, <1>3

(* CS is left by the thread that is in it, in ReadBlock, CloseThread and   *)
(* FinishStream, and entered by nobody else before.                        *)
LEMMA EncThreadSection ==
  ASSUME Enc!IInv, NEW t \in Enc!Threads, Enc!ThreadStep(t)
  PROVE  Enc!SectionIsOwned'
<1> USE EncSlotProperties
<1>1. Enc!TypeOK /\ Enc!SectionIsOwned /\ coder \in Enc!EncoderType /\ th \in [Enc!Threads -> Enc!ThreadType]
  BY DEF Enc!IInv, Enc!TypeOK
<1>2. \A u \in Enc!Threads \ {t} : th'[u].pc = th[u].pc
  BY <1>1, EncThreadFrame
<1>3. CASE Enc!EnterCS(t)
  <2>1. coder.cs = Enc!Nobody /\ coder'.cs = t /\ th'[t].pc = "inside"
    BY <1>1, <1>3 DEF Enc!EnterCS, Enc!Goto, Enc!EncoderType, Enc!ThreadType
  <2> QED
    BY <1>1, <1>2, <2>1 DEF Enc!SectionIsOwned
<1>4. CASE Enc!CloseThread(t)
  <2>1. th[t].pc = "inside" /\ coder'.cs = Enc!Nobody /\ th'[t].pc = "exited"
    BY <1>1, <1>4 DEF Enc!CloseThread, Enc!Goto, Enc!EncoderType, Enc!ThreadType
  <2> QED
    BY <1>1, <1>2, <2>1 DEF Enc!SectionIsOwned
<1>5. CASE Enc!SeeFinished(t) \/ Enc!ReadFails(t)
  <2>1. th[t].pc = "inside" /\ coder'.cs = coder.cs /\ th'[t].pc = "finish"
    BY <1>1, <1>5 DEF Enc!SeeFinished, Enc!ReadFails, Enc!Goto, Enc!EncoderType, Enc!ThreadType
  <2> QED
    BY <1>1, <1>2, <2>1 DEF Enc!SectionIsOwned
<1>6. CASE Enc!ReadBlock(t)
  <2>1. /\ th[t].pc = "inside"
        /\ \/ coder'.cs = coder.cs /\ th'[t].pc = "finish"
           \/ coder'.cs = Enc!Nobody /\ th'[t].pc = "encode"
    <3>1. CASE io.read = NumBlocks
      BY <1>1, <1>6, <3>1 DEF Enc!ReadBlock, Enc!EncoderType, Enc!ThreadType
    <3>2. CASE io.read # NumBlocks
      <4>1. coder'.cs = Enc!Nobody /\ th[t].pc = "inside"
        BY <1>1, <1>6, <3>2 DEF Enc!ReadBlock, Enc!EncoderType
      <4>2. th'[t].pc = "encode"
        BY <1>1, <1>6, <3>2 DEF Enc!ReadBlock, Enc!ThreadType
      <4> QED
        BY <4>1, <4>2
    <3> QED
      BY <3>1, <3>2
  <2> QED
    BY <1>1, <1>2, <2>1 DEF Enc!SectionIsOwned
<1>7. CASE Enc!TakeTurn(t) \/ Enc!WriteBlock(t) \/ Enc!PassTurn(t) \/ Enc!StartWaiting(t)
  <2>1. th[t].slot \in Enc!Threads /\ Enc!NextSlot(th[t].slot) \in Enc!Threads
    BY <1>1 DEF Enc!ThreadType
  <2>2. th[t].pc \in {"encode", "write", "pass", "rest"} /\ coder'.cs = coder.cs
    BY <1>1, <1>7 DEF Enc!TakeTurn, Enc!WriteBlock, Enc!PassTurn, Enc!StartWaiting, Enc!EncoderType
  <2>3. th'[t].pc \in {"write", "pass", "finish", "wait"}
    BY <1>1, <1>7, <2>1 DEF Enc!TakeTurn, Enc!WriteBlock, Enc!PassTurn, Enc!StartWaiting, Enc!Goto, Enc!ThreadType
  <2>4. coder.cs # Enc!Nobody => coder.cs \in Enc!Threads \ {t}
    <3>1. coder.cs \in 0..NumThreads
      BY <1>1 DEF Enc!EncoderType
    <3>2. coder.cs # Enc!Nobody => coder.cs \in Enc!Threads
      BY <3>1, ConstantsAssumption DEF Enc!Nobody, Enc!Threads
    <3>3. coder.cs # Enc!Nobody => coder.cs # t
      BY <1>1, <2>2 DEF Enc!SectionIsOwned
    <3> QED
      BY <3>2, <3>3
  <2> QED
    BY <1>1, <1>2, <2>2, <2>3, <2>4 DEF Enc!SectionIsOwned
<1>8. CASE Enc!FinishStream(t)
  <2>1. /\ th[t].pc = "finish" /\ th'[t].pc = "rest"
        /\ coder'.cs = IF coder.cs = t THEN Enc!Nobody ELSE coder.cs
    BY <1>1, <1>8 DEF Enc!FinishStream, Enc!EncoderType, Enc!ThreadType
  <2>2. coder'.cs # Enc!Nobody => coder'.cs = coder.cs /\ coder.cs \in Enc!Threads \ {t}
    BY <1>1, <2>1, ConstantsAssumption DEF Enc!EncoderType, Enc!Nobody, Enc!Threads
  <2> QED
    BY <1>1, <1>2, <2>1, <2>2 DEF Enc!SectionIsOwned
<1> QED
  BY <1>3, <1>4, <1>5, <1>6, <1>7, <1>8 DEF Enc!ThreadStep

(* The turn is taken from the event of a slot by one thread and put into   *)
(* the event of the next; after an exception it is gone.                   *)
LEMMA EncThreadTurn ==
  ASSUME Enc!IInv, NEW t \in Enc!Threads, Enc!ThreadStep(t)
  PROVE  Enc!OneTurn'
<1> USE EncSlotProperties
<1>1. Enc!TypeOK /\ Enc!OneTurn /\ th \in [Enc!Threads -> Enc!ThreadType]
  BY DEF Enc!IInv, Enc!TypeOK
<1>2. \A u \in Enc!Threads \ {t} : th'[u].pc = th[u].pc
  BY <1>1, EncThreadFrame
<1>3. th[t].slot \in Enc!Threads /\ Enc!NextSlot(th[t].slot) \in Enc!Threads
  BY <1>1 DEF Enc!ThreadType
<1>4. CASE Enc!TakeTurn(t)
  <2>1. /\ th[th[t].slot].canWrite /\ ~th'[th[t].slot].canWrite
        /\ \A u \in Enc!Threads : th'[u].canWrite => th[u].canWrite /\ u # th[t].slot
    <3>1. th[th[t].slot].canWrite /\ th' = [th EXCEPT ![th[t].slot].canWrite = FALSE, ![t].pc = "write"]
      BY <1>4 DEF Enc!TakeTurn
    <3>2. ~th'[th[t].slot].canWrite
      BY <1>1, <1>3, <3>1 DEF Enc!ThreadType
    <3>3. \A u \in Enc!Threads \ {t, th[t].slot} : th'[u] = th[u]
      BY <1>1, <1>3, <3>1 DEF Enc!ThreadType
    <3>4. t # th[t].slot => th'[t] = [th[t] EXCEPT !.pc = "write"]
      BY <1>1, <1>3, <3>1 DEF Enc!ThreadType
    <3>5. t # th[t].slot /\ th'[t].canWrite => th[t].canWrite
      BY <1>1, <3>4 DEF Enc!ThreadType
    <3> QED
      BY <3>1, <3>2, <3>3, <3>5
  <2> QED
    BY <1>1, <1>2, <1>3, <2>1 DEF Enc!OneTurn
<1>5. CASE Enc!PassTurn(t)
  <2>1. /\ th[t].pc = "pass" /\ th'[t].pc \in {"wait", "finish"}
        /\ \A u \in Enc!Threads \ {Enc!NextSlot(th[t].slot)} : th'[u].canWrite = th[u].canWrite
    BY <1>1, <1>3, <1>5 DEF Enc!PassTurn, Enc!ThreadType
  <2> QED
    BY <1>1, <1>2, <1>3, <2>1 DEF Enc!OneTurn
<1>6. CASE ~(Enc!TakeTurn(t) \/ Enc!PassTurn(t))
  <2>1. \A u \in Enc!Threads : th'[u].canWrite => th[u].canWrite
    <3>1. \A u \in Enc!Threads \ {t} : th'[u] = th[u]
      BY <1>1, <1>6 DEF Enc!ThreadStep, Enc!EnterCS, Enc!CloseThread, Enc!SeeFinished, Enc!ReadBlock, Enc!ReadFails,
         Enc!WriteBlock, Enc!FinishStream, Enc!StartWaiting, Enc!Goto
    <3>2. th'[t].canWrite => th[t].canWrite
      <4>1. CASE Enc!ReadBlock(t)
        BY <1>1, <4>1 DEF Enc!ReadBlock, Enc!ThreadType
      <4>2. CASE Enc!FinishStream(t) \/ Enc!StartWaiting(t)
        BY <1>1, <4>2 DEF Enc!FinishStream, Enc!StartWaiting, Enc!ThreadType
      <4>3. CASE ~(Enc!ReadBlock(t) \/ Enc!FinishStream(t) \/ Enc!StartWaiting(t))
        BY <1>1, <1>6, <4>3 DEF Enc!ThreadStep, Enc!EnterCS, Enc!CloseThread, Enc!SeeFinished, Enc!ReadFails,
           Enc!WriteBlock, Enc!Goto, Enc!ThreadType
      <4> QED
        BY <4>1, <4>2, <4>3
    <3> QED
      BY <3>1, <3>2
  <2>2. th'[t].pc \in {"write", "pass"} => th[t].pc \in {"write", "pass"}
    BY <1>1, <1>6 DEF Enc!ThreadStep, Enc!EnterCS, Enc!CloseThread, Enc!SeeFinished, Enc!ReadBlock, Enc!ReadFails,
       Enc!WriteBlock, Enc!FinishStream, Enc!StartWaiting, Enc!Goto, Enc!ThreadType
  <2> QED
    BY <1>1, <1>2, <2>1, <2>2 DEF Enc!OneTurn
<1> QED
  BY <1>4, <1>5, <1>6

(* A thread that is at rest stays there until CanStartWaitingEvent, and    *)
(* one that is back at its start until CanProcessEvent.                    *)
LEMMA EncThreadRendezvous ==
  ASSUME Enc!IInv, NEW t \in Enc!Threads, Enc!ThreadStep(t)
  PROVE  \A u \in Enc!Threads : Enc!Rendezvous(u)' /\ (main'.pc = "reset" => ~th'[u].canWrite)
<1> USE EncSlotProperties
<1>1. Enc!TypeOK /\ Enc!Phases /\ Enc!Rendezvous(t) /\ coder \in Enc!EncoderType /\ th \in [Enc!Threads -> Enc!ThreadType]
  BY DEF Enc!IInv, Enc!TypeOK
<1>2. main.pc \notin {"idle", "reset", "done"}
  <2>1. SUFFICES ASSUME main.pc \in {"idle", "reset", "done"} PROVE FALSE
    OBVIOUS
  <2>2. th[t].pc \in {"wait", "exited"} /\ (th[t].pc = "wait" => ~coder.canProcess)
    BY <1>1, <2>1 DEF Enc!Rendezvous, Enc!Phases
  <2> QED
    BY <2>2 DEF Enc!ThreadStep, Enc!EnterCS, Enc!CloseThread, Enc!SeeFinished, Enc!ReadBlock, Enc!ReadFails, Enc!TakeTurn,
       Enc!WriteBlock, Enc!PassTurn, Enc!FinishStream, Enc!StartWaiting
<1>3. main' = main
  BY <1>1, EncThreadFrame
<1>4. ASSUME NEW u \in Enc!Threads \ {t} PROVE Enc!Rendezvous(u)'
  <2>1. /\ th'[u].pc = th[u].pc
        /\ th'[u].finished = th[u].finished /\ th'[u].started = th[u].started
    BY <1>1, EncThreadFrame
  <2> QED
    BY <1>3, <2>1 DEF Enc!IInv, Enc!Rendezvous
<1>5. Enc!Rendezvous(t)'
  <2>1. CASE main.pc = "finished"
    <3>1. /\ ~coder.closeThreads /\ ~coder.canStartWaiting /\ ~th[t].started
          /\ th[t].pc # "exited" /\ (th[t].pc = "rest" <=> th[t].finished \/ t < main.t)
      BY <1>1, <2>1 DEF Enc!Phases, Enc!Rendezvous
    <3>2. th[t].pc # "rest" /\ th'[t].pc # "exited" /\ ~th'[t].started
      BY <1>1, <3>1 DEF Enc!ThreadStep, Enc!EnterCS, Enc!CloseThread, Enc!SeeFinished, Enc!ReadBlock, Enc!ReadFails,
         Enc!TakeTurn, Enc!WriteBlock, Enc!PassTurn, Enc!FinishStream, Enc!StartWaiting, Enc!Goto, Enc!ThreadType
    <3>3. IF Enc!FinishStream(t) THEN th'[t].pc = "rest" /\ th'[t].finished
                                 ELSE th'[t].pc # "rest" /\ ~th'[t].finished
      BY <1>1, <3>1, <3>2 DEF Enc!ThreadStep, Enc!EnterCS, Enc!CloseThread, Enc!SeeFinished, Enc!ReadBlock, Enc!ReadFails,
         Enc!TakeTurn, Enc!WriteBlock, Enc!PassTurn, Enc!FinishStream, Enc!StartWaiting, Enc!Goto, Enc!ThreadType
    <3>4. main.t <= t
      BY <3>1, <3>2, <1>1, ConstantsAssumption DEF Enc!TypeOK, Enc!MainType, Enc!Threads
    <3> QED
      BY <1>3, <2>1, <3>1, <3>2, <3>3, <3>4 DEF Enc!Rendezvous
  <2>2. CASE main.pc = "started"
    <3>1. /\ ~coder.canProcess /\ th[t].pc \in {"rest", "wait"} /\ ~th[t].finished
          /\ (th[t].pc = "wait" <=> th[t].started \/ t < main.t)
      BY <1>1, <2>2 DEF Enc!Phases, Enc!Rendezvous
    <3>2. Enc!StartWaiting(t) /\ th[t].pc = "rest"
      BY <3>1 DEF Enc!ThreadStep, Enc!EnterCS, Enc!CloseThread, Enc!SeeFinished, Enc!ReadBlock, Enc!ReadFails, Enc!TakeTurn,
         Enc!WriteBlock, Enc!PassTurn, Enc!FinishStream, Enc!StartWaiting
    <3>3. th'[t].pc = "wait" /\ th'[t].started /\ ~th'[t].finished
      BY <1>1, <3>1, <3>2 DEF Enc!StartWaiting, Enc!ThreadType
    <3>4. main.t <= t
      BY <3>1, <3>2, <1>1, ConstantsAssumption DEF Enc!TypeOK, Enc!MainType, Enc!Threads
    <3> QED
      BY <1>3, <2>2, <3>3, <3>4 DEF Enc!Rendezvous
  <2>3. CASE main.pc = "close"
    <3>1. coder.closeThreads /\ th[t].pc \in {"wait", "inside", "exited"}
      BY <1>1, <2>3 DEF Enc!Phases, Enc!Rendezvous
    <3>2. th'[t].pc \in {"inside", "exited"}
      BY <1>1, <3>1 DEF Enc!ThreadStep, Enc!EnterCS, Enc!CloseThread, Enc!SeeFinished, Enc!ReadBlock, Enc!ReadFails,
         Enc!TakeTurn, Enc!WriteBlock, Enc!PassTurn, Enc!FinishStream, Enc!StartWaiting, Enc!Goto, Enc!ThreadType
    <3> QED
      BY <1>3, <2>3, <3>2 DEF Enc!Rendezvous
  <2> QED
    BY <1>1, <1>2, <2>1, <2>2, <2>3 DEF Enc!TypeOK, Enc!MainType
<1> QED
  BY <1>2, <1>3, <1>4, <1>5

-----------------------------------------------------------------------------
(* The blocks under a step of a thread.                                    *)

(* Blocks that are held by one thread each are no more than there are      *)
(* threads.                                                                *)
LEMMA EncPigeonhole ==
  ASSUME NEW a \in Nat, NEW b \in Nat, NEW holder \in [(a + 1)..b -> Enc!Threads],
         \A j, k \in (a + 1)..b : holder[j] = holder[k] => j = k
  PROVE  b - a <= NumThreads
<1>1. IsFiniteSet(Enc!Threads) /\ Cardinality(Enc!Threads) = NumThreads
  BY EncSlotProperties, FS_Interval DEF Enc!Threads
<1>2. holder \in Injection((a + 1)..b, Enc!Threads)
  BY DEF Injection, IsInjective
<1>3. Cardinality((a + 1)..b) <= NumThreads
  BY <1>1, <1>2, FS_Injection
<1>4. Cardinality((a + 1)..b) = IF a + 1 > b THEN 0 ELSE b - (a + 1) + 1
  BY FS_Interval
<1> QED
  BY <1>3, <1>4, EncSlotProperties

LEMMA EncWindow ==
  ASSUME Enc!TypeOK, Enc!BlocksAreHeld
  PROVE  io.read - Len(io.written) <= NumThreads
<1> DEFINE a == Len(io.written)
           holder == [b \in (a + 1)..io.read |-> CHOOSE t \in Enc!Threads : Enc!Holding(t) /\ th[t].block = b]
<1>1. \A b \in (a + 1)..io.read : holder[b] \in Enc!Threads /\ th[holder[b]].block = b
  BY DEF Enc!BlocksAreHeld
<1>2. a \in Nat /\ io.read \in Nat
  BY EncFlowProperties
<1>3. holder \in [(a + 1)..io.read -> Enc!Threads]
  BY <1>1
<1> HIDE DEF holder
<1>4. \A j, k \in (a + 1)..io.read : holder[j] = holder[k] => j = k
  BY <1>1
<1> HIDE DEF a
<1>5. io.read - a <= NumThreads
  BY <1>2, <1>3, <1>4, EncPigeonhole
<1> QED
  BY <1>5 DEF a

(* The same while a thread that holds none reads the next one.             *)
LEMMA EncWindowOfReader ==
  ASSUME Enc!TypeOK, Enc!BlocksAreHeld, NEW t \in Enc!Threads, ~Enc!Holding(t)
  PROVE  io.read - Len(io.written) < NumThreads
<1> DEFINE a == Len(io.written)
           b == io.read + 1
           holder == [k \in (a + 1)..b |-> IF k = b THEN t
                        ELSE CHOOSE u \in Enc!Threads : Enc!Holding(u) /\ th[u].block = k]
<1>1. a \in Nat /\ io.read \in Nat /\ b \in Nat
  BY EncFlowProperties
<1>2. \A k \in (a + 1)..b : k # b => /\ holder[k] \in Enc!Threads /\ holder[k] # t
                                     /\ th[holder[k]].block = k
  <2> SUFFICES ASSUME NEW k \in (a + 1)..b, k # b
               PROVE  /\ holder[k] \in Enc!Threads /\ holder[k] # t
                      /\ th[holder[k]].block = k
    OBVIOUS
  <2>1. k \in (a + 1)..io.read
    BY <1>1
  <2>2. \E u \in Enc!Threads : Enc!Holding(u) /\ th[u].block = k
    BY <2>1 DEF Enc!BlocksAreHeld
  <2>3. holder[k] = CHOOSE u \in Enc!Threads : Enc!Holding(u) /\ th[u].block = k
    OBVIOUS
  <2> QED
    BY <2>2, <2>3
<1>3. \A k \in (a + 1)..b : k = b => holder[k] = t
  OBVIOUS
<1>4. holder \in [(a + 1)..b -> Enc!Threads]
  BY <1>2, <1>3
<1> HIDE DEF holder
<1>5. \A j, k \in (a + 1)..b : holder[j] = holder[k] => j = k
  BY <1>2, <1>3
<1>6. b - a <= NumThreads
  BY <1>1, <1>4, <1>5, EncPigeonhole
<1> QED
  BY <1>1, <1>6, EncSlotProperties

(* The thread that writes has the first block that is not written.         *)
LEMMA EncWriterHasFirst ==
  ASSUME Enc!TypeOK, Enc!BlocksAreHeld, Enc!SlotsFollowTurn, NEW t \in Enc!Threads, th[t].pc = "write"
  PROVE  th[t].block = Len(io.written) + 1 /\ Len(io.written) + 1 <= io.read
<1> DEFINE d == th[t].block - Len(io.written) - 1
<1>1. th[t].slot \in Enc!Threads /\ Enc!TurnAt(th[t].slot) /\ Enc!Holding(t)
  BY EncTurnEffect DEF Enc!TurnAt, Enc!Holding
<1>2. th[t].block \in (Len(io.written) + 1)..io.read /\ Enc!Ahead(th[t].slot, th[t].slot, d)
  BY <1>1 DEF Enc!BlocksAreHeld, Enc!SlotsFollowTurn
<1>3. io.read - Len(io.written) <= NumThreads /\ Len(io.written) \in Nat /\ io.read \in Nat
  BY EncWindow, EncFlowProperties
<1>4. d \in Nat /\ d < NumThreads
  BY <1>2, <1>3, EncSlotProperties
<1> HIDE DEF d
<1>5. d = 0
  BY <1>1, <1>2, <1>4, EncAheadSame, EncSlotProperties
<1> QED
  BY <1>2, <1>3, <1>5 DEF d

(* Threads work on blocks in CodeReal only.                                *)
LEMMA EncAtWork ==
  ASSUME Enc!IInv, NEW t \in Enc!Threads, th[t].pc \in {"encode", "write", "pass", "finish"}
  PROVE  main.pc = "finished"
BY DEF Enc!IInv, Enc!TypeOK, Enc!MainType, Enc!Rendezvous

(* The turn goes on by a block that is written, and only so.               *)
LEMMA EncTurnMoves ==
  ASSUME Enc!IInv, NEW t \in Enc!Threads, Enc!ThreadStep(t), NEW z \in Enc!Threads, Enc!TurnAt(z)'
  PROVE  \/ Enc!TurnAt(z) /\ ~Enc!WriteBlock(t)
         \/ Enc!WriteBlock(t) /\ th'[t].pc = "pass" /\ z = Enc!NextSlot(th[t].slot)
<1>1. Enc!TypeOK /\ Enc!OneTurn /\ \A u \in Enc!Threads \ {t} : th'[u].pc = th[u].pc /\ th'[u].slot = th[u].slot
  BY EncThreadFrame DEF Enc!IInv
<1>2. CASE Enc!WriteBlock(t)
  <2>1. th[t].pc = "write" /\ th'[t].pc \in {"pass", "finish"} /\ EncKeepsBlock(t) /\ EncKeepsTurns
    BY <1>1, <1>2, EncWriteEffect
  <2> QED
    BY <1>1, <1>2, <2>1 DEF Enc!TurnAt, Enc!OneTurn, EncKeepsBlock, EncKeepsTurns
<1>3. CASE Enc!TakeTurn(t) \/ Enc!PassTurn(t)
  <2>1. ~Enc!WriteBlock(t)
    BY <1>3 DEF Enc!TakeTurn, Enc!PassTurn, Enc!WriteBlock
  <2>2. CASE Enc!TakeTurn(t)
    BY <1>1, <2>1, <2>2, EncTurnEffect DEF Enc!TurnAt, EncMoves, EncKeepsBlock
  <2>3. CASE Enc!PassTurn(t)
    <3>1. /\ th[t].pc = "pass" /\ th'[t].pc \notin {"write", "pass"}
          /\ \A u \in Enc!Threads : th'[u].canWrite => th[u].canWrite \/ u = Enc!NextSlot(th[t].slot)
      BY <1>1, <2>3, EncTurnEffect DEF EncMoves
    <3> QED
      BY <1>1, <2>1, <3>1 DEF Enc!TurnAt
  <2> QED
    BY <1>3, <2>2, <2>3
<1>4. CASE ~Enc!WriteBlock(t) /\ ~Enc!TakeTurn(t) /\ ~Enc!PassTurn(t)
  <2>1. EncKeepsTurns /\ th'[t].pc \notin {"write", "pass"}
    BY <1>1, <1>4, EncSectionEffect, EncReadEffect, EncReadFailsEffect, EncRestEffect DEF Enc!ThreadStep, EncMoves
  <2> QED
    BY <1>1, <1>4, <2>1 DEF Enc!TurnAt, EncKeepsTurns
<1> QED
  BY <1>2, <1>3, <1>4

LEMMA EncFailedStays ==
  ASSUME Enc!TypeOK, NEW t \in Enc!Threads, Enc!ThreadStep(t), ~io'.failed
  PROVE  ~io.failed
BY EncSectionEffect, EncReadEffect, EncReadFailsEffect, EncTurnEffect, EncWriteEffect, EncRestEffect
   DEF Enc!ThreadStep, EncKeepsFlow

LEMMA EncThreadHeld ==
  ASSUME Enc!IInv, NEW t \in Enc!Threads, Enc!ThreadStep(t), main.pc \in {"finished", "started"},
         ~io'.failed
  PROVE  Enc!BlocksAreHeld'
<1>1. /\ Enc!TypeOK /\ Enc!BlocksAreHeld /\ Enc!SlotsFollowTurn /\ ~io.failed
      /\ Len(io.written) \in Nat /\ io.read \in Nat
  BY EncFailedStays, EncFlowProperties DEF Enc!IInv, Enc!InCall
<1>2. \A u \in Enc!Threads \ {t} : th'[u].pc = th[u].pc /\ th'[u].block = th[u].block
  BY <1>1, EncThreadFrame
<1>3. CASE Enc!ReadBlock(t) /\ io.read # NumBlocks
  <2>1. /\ ~Enc!Holding(t) /\ Enc!Holding(t)' /\ th'[t].block = io.read + 1
        /\ io'.read = io.read + 1 /\ io'.written = io.written
    BY <1>1, <1>3, EncReadEffect DEF EncMoves, Enc!Holding
  <2>2. \A u \in Enc!Threads \ {t} : Enc!Holding(u)' <=> Enc!Holding(u)
    BY <1>2 DEF Enc!Holding
  <2>3. Len(io.written) <= io.read
    BY <1>1 DEF Enc!BlocksAreHeld
  <2>4. \A u \in Enc!Threads \ {t} : Enc!Holding(u) => th[u].block \in (Len(io.written) + 1)..io.read
    BY <1>1 DEF Enc!BlocksAreHeld
  <2>5. \A u, v \in Enc!Threads : Enc!Holding(u)' /\ Enc!Holding(v)' /\ th'[u].block = th'[v].block => u = v
    BY <1>1, <1>2, <2>1, <2>2, <2>4 DEF Enc!BlocksAreHeld
  <2>6. \A b \in (Len(io.written) + 1)..(io.read + 1) :
          \E u \in Enc!Threads : Enc!Holding(u)' /\ th'[u].block = b
    <3>1. ASSUME NEW b \in (Len(io.written) + 1)..(io.read + 1), b # io.read + 1
          PROVE  \E u \in Enc!Threads : Enc!Holding(u)' /\ th'[u].block = b
      <4>1. PICK u \in Enc!Threads : Enc!Holding(u) /\ th[u].block = b
        BY <1>1, <3>1 DEF Enc!BlocksAreHeld
      <4> QED
        BY <1>2, <2>1, <2>2, <4>1
    <3> QED
      BY <2>1, <3>1
  <2>7. \A u \in Enc!Threads : Enc!Holding(u)' => th'[u].block \in (Len(io.written) + 1)..(io.read + 1)
    BY <1>1, <1>2, <2>1, <2>2, <2>3, <2>4
  <2> QED
    BY <1>1, <2>1, <2>3, <2>5, <2>6, <2>7 DEF Enc!BlocksAreHeld
<1>4. CASE Enc!WriteBlock(t)
  <2>1. th[t].block = Len(io.written) + 1 /\ Len(io.written) + 1 <= io.read
    BY <1>1, <1>4, EncWriterHasFirst DEF Enc!WriteBlock
  <2>2. /\ Enc!Holding(t) /\ ~Enc!Holding(t)' /\ th'[t].block = th[t].block
        /\ io'.read = io.read /\ io'.written = Append(io.written, th[t].block)
    BY <1>1, <1>4, EncWriteEffect DEF EncKeepsBlock, Enc!Holding
  <2>3. Len(io'.written) = Len(io.written) + 1
    BY <1>1, <2>2, EncFlowProperties, AppendProperties, <2>1 DEF Enc!TypeOK, Enc!ThreadType
  <2>4. \A u \in Enc!Threads \ {t} : Enc!Holding(u)' <=> Enc!Holding(u)
    BY <1>2 DEF Enc!Holding
  <2> QED
    BY <1>1, <1>2, <2>1, <2>2, <2>3, <2>4 DEF Enc!BlocksAreHeld
<1>5. CASE ~(Enc!ReadBlock(t) /\ io.read # NumBlocks) /\ ~Enc!WriteBlock(t)
  <2>1. (Enc!Holding(t)' <=> Enc!Holding(t)) /\ th'[t].block = th[t].block /\ io' = io
    BY <1>1, <1>5, EncSectionEffect, EncReadEffect, EncReadFailsEffect, EncTurnEffect, EncRestEffect
       DEF Enc!ThreadStep, EncMoves, EncKeepsBlock, EncKeepsFlow, Enc!Holding
  <2>2. \A u \in Enc!Threads : (Enc!Holding(u)' <=> Enc!Holding(u)) /\ th'[u].block = th[u].block
    BY <1>2, <2>1 DEF Enc!Holding
  <2> QED
    BY <1>1, <2>1, <2>2 DEF Enc!BlocksAreHeld
<1> QED
  BY <1>3, <1>4, <1>5

(* While no thread has seen the end of the input, NextBlockIndex is right. *)
LEMMA EncAtEndStays ==
  ASSUME Enc!IInv, NEW t \in Enc!Threads, Enc!ThreadStep(t)
  PROVE  /\ Enc!AtEnd => Enc!AtEnd'
         /\ ~Enc!AtEnd' => (Enc!ReadBlock(t) /\ io.read # NumBlocks) \/ coder'.next = coder.next
         /\ Enc!ReadBlock(t) => ~Enc!AtEnd
<1>1. /\ Enc!TypeOK /\ Enc!SectionIsOwned /\ Enc!SectionIsOwned'
      /\ \A u \in Enc!Threads \ {t} : th'[u].pc = th[u].pc
  BY EncThreadFrame, EncThreadSection DEF Enc!IInv
<1>2. coder.streamWasFinished => coder'.streamWasFinished
  BY <1>1, EncSectionEffect, EncReadEffect, EncReadFailsEffect, EncTurnEffect, EncWriteEffect, EncRestEffect
     DEF Enc!ThreadStep, EncKeepsFlow, EncKeepsStream
<1>3. Enc!AtEnd => Enc!AtEnd'
  <2> SUFFICES ASSUME NEW u \in Enc!Threads, th[u].pc = "finish", coder.cs = u, ~coder'.streamWasFinished
               PROVE  Enc!AtEnd'
    BY <1>2 DEF Enc!AtEnd
  <2>1. CASE u = t
    BY <1>1, <2>1, EncSectionEffect, EncReadEffect, EncReadFailsEffect, EncTurnEffect, EncWriteEffect, EncRestEffect
       DEF Enc!ThreadStep, EncMoves
  <2>2. CASE u # t
    <3>1. coder.cs # Enc!Nobody /\ th[t].pc # "inside"
      BY <1>1, <2>2, EncSlotProperties DEF Enc!SectionIsOwned
    <3>2. coder'.cs = coder.cs
      BY <1>1, <3>1, EncSectionEffect, EncReadEffect, EncReadFailsEffect, EncTurnEffect, EncWriteEffect, EncRestEffect
         DEF Enc!ThreadStep, EncMoves
    <3> QED
      BY <1>1, <2>2, <3>2 DEF Enc!AtEnd
  <2> QED
    BY <2>1, <2>2
<1>4. Enc!ReadBlock(t) => ~Enc!AtEnd
  <2>1. Enc!ReadBlock(t) => th[t].pc = "inside" /\ ~coder.streamWasFinished
    BY DEF Enc!ReadBlock
  <2> QED
    BY <1>1, <2>1 DEF Enc!SectionIsOwned, Enc!AtEnd
<1>5. ~Enc!AtEnd' => (Enc!ReadBlock(t) /\ io.read # NumBlocks) \/ coder'.next = coder.next
  <2>1. Enc!ReadBlock(t) /\ io.read = NumBlocks => Enc!AtEnd'
    BY <1>1, EncReadEffect DEF Enc!AtEnd, EncMoves, Enc!SectionIsOwned
  <2> QED
    BY <1>1, <2>1, EncSectionEffect, EncReadFailsEffect, EncTurnEffect, EncWriteEffect, EncRestEffect
       DEF Enc!ThreadStep, EncKeepsFlow, EncKeepsStream
<1> QED
  BY <1>3, <1>4, <1>5

LEMMA EncThreadSlots ==
  ASSUME Enc!IInv, NEW t \in Enc!Threads, Enc!ThreadStep(t), main.pc \in {"finished", "started"},
         ~io'.failed
  PROVE  Enc!SlotsFollowTurn'
<1> DEFINE w == Len(io.written)
<1>1. /\ Enc!TypeOK /\ Enc!OneTurn /\ Enc!BlocksAreHeld /\ Enc!SlotsFollowTurn /\ ~io.failed
      /\ w \in Nat /\ io.read \in Nat /\ coder.next \in Enc!Threads
      /\ \A u \in Enc!Threads : th[u].slot \in Enc!Threads
  BY EncFailedStays, EncFlowProperties
     DEF Enc!IInv, Enc!InCall, Enc!TypeOK, Enc!EncoderType, Enc!ThreadType
<1>2. \A u \in Enc!Threads \ {t} : /\ th'[u].pc = th[u].pc /\ th'[u].block = th[u].block
                                   /\ th'[u].slot = th[u].slot
  BY <1>1, EncThreadFrame
<1>3. w <= io.read /\ io.read - w <= NumThreads
  BY <1>1, EncWindow DEF Enc!BlocksAreHeld
<1>4. ASSUME NEW z \in Enc!Threads, Enc!TurnAt(z), NEW u \in Enc!Threads, Enc!Holding(u)
      PROVE  th[u].block - w - 1 \in Nat /\ th[u].block - w - 1 < NumThreads
  BY <1>1, <1>3, <1>4, EncSlotProperties DEF Enc!BlocksAreHeld
<1>5. CASE Enc!ReadBlock(t) /\ io.read # NumBlocks
  <2>1. /\ ~Enc!Holding(t) /\ th'[t].block = io.read + 1 /\ th'[t].slot = coder.next
        /\ coder'.next = Enc!NextSlot(coder.next) /\ EncKeepsTurns
        /\ io'.read = io.read + 1 /\ io'.written = io.written
        /\ th[t].pc \notin {"write", "pass"} /\ th'[t].pc \notin {"write", "pass"}
    BY <1>1, <1>5, EncReadEffect DEF EncMoves, Enc!Holding
  <2>2. io.read - w < NumThreads
    BY <1>1, <2>1, EncWindowOfReader
  <2>9. Len(io'.written) = w
    BY <2>1 DEF w
  <2> SUFFICES ASSUME NEW z \in Enc!Threads, Enc!TurnAt(z)'
               PROVE  /\ Enc!AtEnd' \/ Enc!Ahead(z, coder'.next, io'.read - w)
                      /\ \A u \in Enc!Threads : Enc!Holding(u)' =>
                           Enc!Ahead(z, th'[u].slot, th'[u].block - w - 1)
    BY <2>9 DEF Enc!SlotsFollowTurn, Enc!Ahead
  <2>3. Enc!TurnAt(z)
    BY <1>1, <1>2, <2>1 DEF Enc!TurnAt, EncKeepsTurns
  <2>4. ~Enc!AtEnd
    BY <1>5, EncAtEndStays
  <2>5. Enc!Ahead(z, coder.next, io.read - w)
    BY <1>1, <2>3, <2>4 DEF Enc!SlotsFollowTurn, w
  <2>6. io.read - w \in Nat /\ io.read - w + 1 = io.read + 1 - w
    BY <1>1, <1>3
  <2>7. Enc!Ahead(z, Enc!NextSlot(coder.next), io.read + 1 - w)
    BY <1>1, <1>3, <2>2, <2>5, <2>6, EncAheadNext
  <2>8. ASSUME NEW u \in Enc!Threads, Enc!Holding(u)'
        PROVE  Enc!Ahead(z, th'[u].slot, th'[u].block - w - 1)
    <3>1. CASE u = t
      <4>1. th'[u].block - w - 1 = io.read - w
        BY <1>1, <2>1, <3>1
      <4> QED
        BY <2>1, <2>5, <3>1, <4>1
    <3>2. CASE u # t
      <4>1. Enc!Holding(u)
        BY <1>2, <2>8, <3>2 DEF Enc!Holding
      <4> QED
        BY <1>1, <1>2, <2>3, <3>2, <4>1 DEF Enc!SlotsFollowTurn, w
    <3> QED
      BY <3>1, <3>2
  <2>10. coder'.next = Enc!NextSlot(coder.next) /\ io'.read = io.read + 1
    BY <2>1
  <2>11. io'.read - w = io.read + 1 - w
    BY <1>1, <2>10
  <2>12. Enc!Ahead(z, coder'.next, io'.read - w)
    BY <2>7, <2>10, <2>11
  <2> QED
    BY <2>8, <2>12
<1>6. CASE Enc!WriteBlock(t)
  <2> DEFINE s == th[t].slot
             n == Enc!NextSlot(s)
  <2>1. /\ th[t].pc = "write" /\ th'[t].pc = "pass" /\ ~Enc!Holding(t)' /\ EncKeepsTurns
        /\ th'[t].slot = s /\ coder'.next = coder.next
        /\ io'.read = io.read /\ io'.written = Append(io.written, th[t].block)
        /\ s \in Enc!Threads /\ n \in Enc!Threads
    BY <1>1, <1>6, EncWriteEffect, EncTurnEffect DEF EncKeepsBlock, EncKeepsStream, Enc!Holding
  <2>2. th[t].block = w + 1 /\ w + 1 <= io.read
    BY <1>1, <2>1, EncWriterHasFirst DEF w
  <2>3. Len(io'.written) = w + 1
    BY <1>1, <2>1, EncFlowProperties, AppendProperties DEF Enc!TypeOK, Enc!ThreadType, w
  <2>4. Enc!TurnAt(s)
    BY <2>1 DEF Enc!TurnAt
  <2> SUFFICES ASSUME NEW z \in Enc!Threads, Enc!TurnAt(z)'
               PROVE  /\ Enc!AtEnd' \/ Enc!Ahead(z, coder.next, io.read - (w + 1))
                      /\ \A u \in Enc!Threads : Enc!Holding(u)' =>
                           Enc!Ahead(z, th'[u].slot, th'[u].block - (w + 1) - 1)
    BY <2>1, <2>3 DEF Enc!SlotsFollowTurn, Enc!Ahead
  <2>5. z = n
    BY <1>6, EncTurnMoves
  <2>6. ~Enc!AtEnd' => Enc!Ahead(n, coder.next, io.read - (w + 1))
    <3>1. ~Enc!AtEnd' => Enc!Ahead(s, coder.next, io.read - w)
      BY <1>1, <2>1, <2>4, EncAtEndStays DEF Enc!SlotsFollowTurn, w
    <3>2. /\ io.read - w \in Nat /\ io.read - w > 0 /\ io.read - w <= NumThreads
          /\ io.read - w - 1 = io.read - (w + 1)
      BY <1>1, <1>3, <2>2
    <3> QED
      BY <1>1, <2>1, <3>1, <3>2, EncAheadNext
  <2>7. ASSUME NEW u \in Enc!Threads, Enc!Holding(u)'
        PROVE  Enc!Ahead(n, th'[u].slot, th'[u].block - (w + 1) - 1)
    <3>1. u # t /\ Enc!Holding(u) /\ th'[u].block = th[u].block /\ th'[u].slot = th[u].slot
      BY <1>2, <2>1, <2>7 DEF Enc!Holding
    <3>2. Enc!Ahead(s, th[u].slot, th[u].block - w - 1)
      BY <1>1, <2>1, <2>4, <3>1 DEF Enc!SlotsFollowTurn, w
    <3>3. th[u].block # w + 1
      BY <1>1, <2>1, <2>2, <3>1 DEF Enc!BlocksAreHeld, Enc!Holding
    <3>4. /\ th[u].block - w - 1 \in Nat /\ th[u].block - w - 1 <= NumThreads
          /\ th[u].block - w - 1 > 0
          /\ th[u].block - w - 1 - 1 = th[u].block - (w + 1) - 1
      <4>1. th[u].block - w - 1 \in Nat /\ th[u].block - w - 1 < NumThreads
        BY <1>4, <2>1, <2>4, <3>1
      <4>2. th[u].block \in Nat
        BY <1>1, <3>1 DEF Enc!BlocksAreHeld
      <4>3. w \in Nat /\ NumThreads \in Nat
        BY <1>1, EncSlotProperties
      <4> QED
        BY <3>3, <4>1, <4>2, <4>3
    <3> HIDE DEF s, n
    <3>5. Enc!Ahead(Enc!NextSlot(s), th[u].slot, th[u].block - w - 1 - 1)
      BY <1>1, <2>1, <3>2, <3>4, EncAheadNext
    <3> QED
      BY <3>1, <3>4, <3>5 DEF n
  <2> QED
    BY <2>5, <2>6, <2>7
<1>7. CASE ~(Enc!ReadBlock(t) /\ io.read # NumBlocks) /\ ~Enc!WriteBlock(t)
  <2>1. /\ (Enc!Holding(t)' <=> Enc!Holding(t)) /\ th'[t].block = th[t].block /\ io' = io
        /\ Enc!Holding(t) => th'[t].slot = th[t].slot
    BY <1>1, <1>7, EncSectionEffect, EncReadEffect, EncReadFailsEffect, EncTurnEffect, EncRestEffect
       DEF Enc!ThreadStep, EncMoves, EncKeepsBlock, EncKeepsFlow, Enc!Holding
  <2>2. \A u \in Enc!Threads : Enc!Holding(u)' =>
          Enc!Holding(u) /\ th'[u].block = th[u].block /\ th'[u].slot = th[u].slot
    BY <1>2, <2>1 DEF Enc!Holding
  <2>3. ~Enc!AtEnd' => ~Enc!AtEnd /\ coder'.next = coder.next
    BY <1>7, EncAtEndStays
  <2>4. ASSUME NEW z \in Enc!Threads, Enc!TurnAt(z)' PROVE Enc!TurnAt(z)
    BY <1>7, <2>4, EncTurnMoves
  <2> QED
    BY <1>1, <2>1, <2>2, <2>3, <2>4 DEF Enc!SlotsFollowTurn, Enc!Ahead
<1> QED
  BY <1>5, <1>6, <1>7

(* A thread that goes to rest has seen the end of the input, or an error;  *)
(* the results are errors that happened.                                   *)
LEMMA EncThreadEnd ==
  ASSUME Enc!IInv, NEW t \in Enc!Threads, Enc!ThreadStep(t), main.pc \in {"finished", "started"}
  PROVE  coder'.result \in Enc!Faults \cup {"ok"} /\ Enc!EndIsCaused'
<1>1. /\ Enc!TypeOK /\ Enc!OneTurn /\ Enc!EndIsCaused /\ coder.result \in Enc!Faults \cup {"ok"} /\ main' = main
      /\ \A u \in Enc!Threads \ {t} : th'[u].pc = th[u].pc
  BY EncThreadFrame DEF Enc!IInv, Enc!InCall
<1>2. coder.streamWasFinished => coder'.streamWasFinished
  BY <1>1, EncSectionEffect, EncReadEffect, EncReadFailsEffect, EncTurnEffect, EncWriteEffect, EncRestEffect
     DEF Enc!ThreadStep, EncKeepsFlow, EncKeepsStream
<1>3. /\ coder'.result \in Enc!Faults \cup {"ok"}
      /\ coder'.result = "ok" => coder.result = "ok"
  BY <1>1, EncSectionEffect, EncReadEffect, EncReadFailsEffect, EncTurnEffect, EncWriteEffect, EncRestEffect
     DEF Enc!ThreadStep, EncKeepsFlow, Enc!Faults
<1>4. ASSUME coder'.result = "ok", coder'.streamWasFinished \/ \E u \in Enc!Threads : th'[u].pc = "finish"
      PROVE  io'.read = NumBlocks
  <2>1. CASE coder.streamWasFinished \/ \E u \in Enc!Threads : th[u].pc = "finish"
    <3>1. io.read = NumBlocks
      BY <1>1, <1>3, <1>4, <2>1 DEF Enc!EndIsCaused
    <3> QED
      BY <1>1, <3>1, EncSectionEffect, EncReadEffect, EncReadFailsEffect, EncTurnEffect, EncWriteEffect, EncRestEffect
         DEF Enc!ThreadStep, EncKeepsFlow
  <2>2. CASE ~coder.streamWasFinished /\ \A u \in Enc!Threads : th[u].pc # "finish"
    <3>1. ~coder'.streamWasFinished
      BY <1>1, <2>2, EncSectionEffect, EncReadEffect, EncReadFailsEffect, EncTurnEffect, EncWriteEffect, EncRestEffect
         DEF Enc!ThreadStep, EncKeepsFlow, EncKeepsStream, EncMoves
    <3>2. th'[t].pc = "finish" /\ th[t].pc # "finish"
      BY <1>1, <1>4, <2>2, <3>1
    <3>3. Enc!ReadBlock(t) /\ io.read = NumBlocks
      BY <1>1, <1>4, <2>2, <3>2, EncSectionEffect, EncReadEffect, EncReadFailsEffect, EncTurnEffect,
         EncWriteEffect, EncRestEffect DEF Enc!ThreadStep, EncKeepsFlow, EncMoves
    <3> QED
      BY <1>1, <3>3, EncReadEffect
  <2> QED
    BY <2>1, <2>2
<1>5. \A u \in Enc!Threads : th'[u].pc = "rest" => coder'.streamWasFinished
  <2>1. th'[t].pc = "rest" => coder'.streamWasFinished
    BY <1>1, EncSectionEffect, EncReadEffect, EncReadFailsEffect, EncTurnEffect, EncWriteEffect, EncRestEffect
       DEF Enc!ThreadStep, EncMoves
  <2> QED
    BY <1>1, <1>2, <2>1 DEF Enc!EndIsCaused
<1>6. io'.failed => coder'.result # "ok" /\ \A z \in Enc!Threads : ~Enc!TurnAt(z)'
  <2>1. CASE io.failed
    <3>1. coder.result # "ok" /\ ~Enc!WriteBlock(t)
      BY <1>1, <2>1, EncTurnEffect DEF Enc!EndIsCaused, Enc!TurnAt, Enc!WriteBlock
    <3> QED
      BY <1>1, <1>3, <2>1, <3>1, EncTurnMoves DEF Enc!EndIsCaused
  <2>2. CASE ~io.failed /\ io'.failed
    <3>1. Enc!WriteBlock(t)
      BY <1>1, <2>2, EncSectionEffect, EncReadEffect, EncReadFailsEffect, EncTurnEffect, EncRestEffect
         DEF Enc!ThreadStep, EncKeepsFlow
    <3>2. th'[t].pc = "finish" /\ coder'.result = "write"
      BY <1>1, <2>2, <3>1, EncWriteEffect
    <3> QED
      BY <3>1, <3>2, EncTurnMoves
  <2> QED
    BY <2>1, <2>2
<1> QED
  BY <1>1, <1>2, <1>3, <1>4, <1>5, <1>6 DEF Enc!EndIsCaused

LEMMA EncThreadInCall ==
  ASSUME Enc!IInv, NEW t \in Enc!Threads, Enc!ThreadStep(t)
  PROVE  Enc!InCall' /\ main'.pc # "reset"
<1>1. Enc!TypeOK /\ main' = main
  BY EncThreadFrame DEF Enc!IInv
<1>2. main.pc # "reset"
  <2>1. main.pc = "reset" => th[t].pc = "wait" /\ ~coder.canProcess
    BY DEF Enc!IInv, Enc!Rendezvous, Enc!Phases
  <2> QED
    BY <2>1 DEF Enc!ThreadStep, Enc!EnterCS, Enc!CloseThread, Enc!SeeFinished, Enc!ReadBlock, Enc!ReadFails, Enc!TakeTurn,
       Enc!WriteBlock, Enc!PassTurn, Enc!FinishStream, Enc!StartWaiting
<1> QED
  BY <1>1, <1>2, EncThreadEnd, EncThreadHeld, EncThreadSlots DEF Enc!InCall

-----------------------------------------------------------------------------
(* The steps of the calling thread.                                        *)

LEMMA EncMainTypeOK ==
  ASSUME Enc!TypeOK, Enc!MainStep
  PROVE  Enc!TypeOK'
<1> USE EncSlotProperties DEF Enc!TypeOK
<1>1. CASE Enc!CodeReset
  <2>1. main' \in Enc!MainType
    <3>1. main.round + 1 \in 0..MaxRounds
      <4>1. main.round \in 0..MaxRounds /\ main.round < MaxRounds
        BY <1>1 DEF Enc!CodeReset, Enc!MainType
      <4> QED
        BY <4>1, ConstantsAssumption
    <3> QED
      BY <1>1, <3>1 DEF Enc!CodeReset, Enc!MainType
  <2>2. coder' \in Enc!EncoderType
    BY <1>1 DEF Enc!CodeReset, Enc!EncoderType
  <2>3. th' \in [Enc!Threads -> Enc!ThreadType]
    BY <1>1 DEF Enc!CodeReset, Enc!ThreadType
  <2>4. io' \in Enc!IoType
    <3>1. 0 \in 0..NumBlocks /\ <<>> \in Seq(0..NumBlocks)
      BY ConstantsAssumption
    <3> QED
      BY <1>1, <3>1 DEF Enc!CodeReset, Enc!IoType
  <2> QED
    BY <2>1, <2>2, <2>3, <2>4
<1>2. CASE Enc!CodeStart
  <2>1. main' \in Enc!MainType
    BY <1>2, ConstantsAssumption DEF Enc!CodeStart, Enc!MainType
  <2>2. coder' \in Enc!EncoderType
    BY <1>2 DEF Enc!CodeStart, Enc!EncoderType, Enc!Results
  <2>3. th' \in [Enc!Threads -> Enc!ThreadType]
    BY <1>2 DEF Enc!CodeStart, Enc!ThreadType
  <2> QED
    BY <1>2, <2>1, <2>2, <2>3 DEF Enc!CodeStart
<1>3. CASE Enc!AwaitFinished
  <2>1. main' \in Enc!MainType
    BY <1>3 DEF Enc!AwaitFinished, Enc!MainType
  <2>2. th' \in [Enc!Threads -> Enc!ThreadType]
    BY <1>3 DEF Enc!AwaitFinished, Enc!ThreadType
  <2> QED
    BY <1>3, <2>1, <2>2 DEF Enc!AwaitFinished
<1>4. CASE Enc!LetWait
  <2>1. main' \in Enc!MainType
    BY <1>4, ConstantsAssumption DEF Enc!LetWait, Enc!MainType
  <2>2. coder' \in Enc!EncoderType
    BY <1>4 DEF Enc!LetWait, Enc!EncoderType
  <2> QED
    BY <1>4, <2>1, <2>2 DEF Enc!LetWait
<1>5. CASE Enc!AwaitStarted
  <2>1. main' \in Enc!MainType
    BY <1>5 DEF Enc!AwaitStarted, Enc!MainType
  <2>2. th' \in [Enc!Threads -> Enc!ThreadType]
    BY <1>5 DEF Enc!AwaitStarted, Enc!ThreadType
  <2> QED
    BY <1>5, <2>1, <2>2 DEF Enc!AwaitStarted
<1>6. CASE Enc!CodeReturn
  <2>1. main' \in Enc!MainType
    BY <1>6 DEF Enc!CodeReturn, Enc!MainType, Enc!EncoderType
  <2>2. coder' \in Enc!EncoderType
    BY <1>6 DEF Enc!CodeReturn, Enc!EncoderType
  <2> QED
    BY <1>6, <2>1, <2>2 DEF Enc!CodeReturn
<1>7. CASE Enc!Close
  <2>1. main' \in Enc!MainType
    BY <1>7 DEF Enc!Close, Enc!MainType
  <2>2. coder' \in Enc!EncoderType
    BY <1>7 DEF Enc!Close, Enc!EncoderType
  <2> QED
    BY <1>7, <2>1, <2>2 DEF Enc!Close
<1>8. CASE Enc!Join
  BY <1>8 DEF Enc!Join, Enc!MainType
<1> QED
  BY <1>1, <1>2, <1>3, <1>4, <1>5, <1>6, <1>7, <1>8 DEF Enc!MainStep

(* The calling thread moves no other thread, and takes no part in CS.      *)
LEMMA EncMainFrame ==
  ASSUME Enc!TypeOK, Enc!MainStep
  PROVE  /\ coder'.cs = coder.cs
         /\ \A t \in Enc!Threads : /\ th'[t].pc = th[t].pc /\ th'[t].block = th[t].block
                                   /\ th'[t].slot = th[t].slot
<1> USE EncSlotProperties
<1>1. th \in [Enc!Threads -> Enc!ThreadType] /\ coder \in Enc!EncoderType
  BY DEF Enc!TypeOK
<1>2. coder'.cs = coder.cs
  BY <1>1 DEF Enc!MainStep, Enc!CodeReset, Enc!CodeStart, Enc!AwaitFinished, Enc!LetWait, Enc!AwaitStarted,
     Enc!CodeReturn, Enc!Close, Enc!Join, Enc!EncoderType
<1>3. ASSUME NEW t \in Enc!Threads
      PROVE  th'[t].pc = th[t].pc /\ th'[t].block = th[t].block /\ th'[t].slot = th[t].slot
  <2>1. CASE Enc!CodeReset
    <3>1. th'[t] = [th[t] EXCEPT !.finished = FALSE, !.started = FALSE, !.canWrite = FALSE]
      BY <2>1 DEF Enc!CodeReset
    <3> QED
      BY <1>1, <3>1 DEF Enc!ThreadType
  <2>2. CASE Enc!CodeStart
    BY <1>1, <2>2 DEF Enc!CodeStart, Enc!ThreadType
  <2>3. CASE Enc!AwaitFinished \/ Enc!AwaitStarted
    BY <1>1, <2>3 DEF Enc!AwaitFinished, Enc!AwaitStarted, Enc!ThreadType
  <2>4. CASE Enc!LetWait \/ Enc!CodeReturn \/ Enc!Close \/ Enc!Join
    BY <2>4 DEF Enc!LetWait, Enc!CodeReturn, Enc!Close, Enc!Join
  <2> QED
    BY <2>1, <2>2, <2>3, <2>4 DEF Enc!MainStep
<1> QED
  BY <1>2, <1>3

LEMMA EncMainPhases ==
  ASSUME Enc!IInv, Enc!MainStep
  PROVE  Enc!Phases' /\ Enc!SectionIsOwned'
<1>1. Enc!TypeOK /\ Enc!Phases /\ Enc!SectionIsOwned /\ coder \in Enc!EncoderType /\ main \in Enc!MainType
  BY DEF Enc!IInv, Enc!TypeOK
<1>2. Enc!Phases'
  BY <1>1 DEF Enc!MainStep, Enc!CodeReset, Enc!CodeStart, Enc!AwaitFinished, Enc!LetWait, Enc!AwaitStarted,
     Enc!CodeReturn, Enc!Close, Enc!Join, Enc!EncoderType, Enc!MainType, Enc!Phases
<1>3. coder.cs # Enc!Nobody => coder.cs \in Enc!Threads
  BY <1>1, ConstantsAssumption DEF Enc!EncoderType, Enc!Nobody, Enc!Threads
<1>4. Enc!SectionIsOwned'
  BY <1>1, <1>3, EncMainFrame DEF Enc!SectionIsOwned
<1> QED
  BY <1>2, <1>4

(* CodeReset takes every turn away, and CodeStart gives out one.           *)
LEMMA EncMainTurn ==
  ASSUME Enc!IInv, Enc!MainStep
  PROVE  Enc!OneTurn' /\ (main'.pc = "reset" => \A t \in Enc!Threads : ~th'[t].canWrite)
<1> USE EncSlotProperties
<1>1. /\ Enc!TypeOK /\ Enc!OneTurn /\ th \in [Enc!Threads -> Enc!ThreadType] /\ main \in Enc!MainType
      /\ main.pc = "reset" =>
           \A t \in Enc!Threads : ~th[t].canWrite /\ th[t].pc \notin {"write", "pass"}
  BY DEF Enc!IInv, Enc!TypeOK, Enc!Rendezvous
<1>2. CASE Enc!CodeReset
  <2>1. \A t \in Enc!Threads : ~th'[t].canWrite /\ th'[t].pc = "wait"
    <3>1. \A t \in Enc!Threads : th[t].pc = "wait"
      BY <1>2 DEF Enc!CodeReset, Enc!IInv, Enc!Rendezvous
    <3>2. ASSUME NEW t \in Enc!Threads PROVE ~th'[t].canWrite
      <4>1. th'[t] = [th[t] EXCEPT !.finished = FALSE, !.started = FALSE, !.canWrite = FALSE]
        BY <1>2 DEF Enc!CodeReset
      <4> QED
        BY <1>1, <4>1 DEF Enc!ThreadType
    <3> QED
      BY <1>1, <3>1, <3>2, EncMainFrame
  <2> QED
    BY <2>1 DEF Enc!OneTurn
<1>3. CASE Enc!CodeStart
  <2>1. main'.pc # "reset"
    BY <1>1, <1>3 DEF Enc!CodeStart, Enc!MainType
  <2>2. \A t \in Enc!Threads : th'[t].pc \notin {"write", "pass"}
    BY <1>1, <1>3, EncMainFrame DEF Enc!CodeStart
  <2>3. \A t \in Enc!Threads : th'[t].canWrite => t = 0
    BY <1>1, <1>3 DEF Enc!CodeStart, Enc!ThreadType
  <2>4. \A t, u \in Enc!Threads : th'[t].canWrite /\ th'[u].canWrite => t = u
    BY <2>3
  <2> QED
    BY <2>1, <2>2, <2>4 DEF Enc!OneTurn
<1>4. CASE ~(Enc!CodeReset \/ Enc!CodeStart)
  <2>1. main'.pc # "reset"
    BY <1>1, <1>4 DEF Enc!MainStep, Enc!AwaitFinished, Enc!LetWait, Enc!AwaitStarted, Enc!CodeReturn, Enc!Close, Enc!Join,
       Enc!MainType
  <2>2. \A t \in Enc!Threads : th'[t].pc = th[t].pc
    BY <1>1, EncMainFrame
  <2>3. \A t \in Enc!Threads : th'[t].canWrite => th[t].canWrite
    BY <1>1, <1>4 DEF Enc!MainStep, Enc!AwaitFinished, Enc!LetWait, Enc!AwaitStarted, Enc!CodeReturn, Enc!Close, Enc!Join,
       Enc!ThreadType
  <2> QED
    BY <1>1, <2>1, <2>2, <2>3 DEF Enc!OneTurn
<1> QED
  BY <1>2, <1>3, <1>4

LEMMA EncMainRendezvous ==
  ASSUME Enc!IInv, Enc!MainStep, NEW t \in Enc!Threads
  PROVE  Enc!Rendezvous(t)'
<1> USE EncSlotProperties
<1>1. /\ Enc!TypeOK /\ th \in [Enc!Threads -> Enc!ThreadType] /\ main \in Enc!MainType /\ t \in 0..NumThreads
      /\ Enc!Rendezvous(t) /\ th[t] \in Enc!ThreadType /\ main.t \in 0..NumThreads
      /\ NumThreads \in Nat \ {0} /\ t < NumThreads
  BY ConstantsAssumption DEF Enc!IInv, Enc!TypeOK, Enc!MainType, Enc!Threads
<1>2. th'[t].pc = th[t].pc
  BY <1>1, EncMainFrame
<1>3. CASE Enc!CodeReset
  <2>1. main'.pc = "reset" /\ ~th'[t].finished /\ ~th'[t].started
    BY <1>1, <1>3 DEF Enc!CodeReset, Enc!MainType, Enc!ThreadType
  <2> QED
    BY <1>1, <1>2, <1>3, <2>1 DEF Enc!CodeReset, Enc!Rendezvous
<1>4. CASE Enc!CodeStart
  <2>1. main'.pc = "finished" /\ main'.t = 0 /\ ~th'[t].finished /\ ~th'[t].started
    BY <1>1, <1>4 DEF Enc!CodeStart, Enc!MainType, Enc!ThreadType, Enc!Rendezvous
  <2>2. th[t].pc = "wait"
    BY <1>1, <1>4 DEF Enc!CodeStart, Enc!Rendezvous
  <2>3. ~(t < 0)
    BY <1>1
  <2> QED
    BY <1>2, <2>1, <2>2, <2>3 DEF Enc!Rendezvous
<1>5. CASE Enc!AwaitFinished
  <2>1. /\ main.pc = "finished" /\ main'.pc = "finished" /\ main'.t = main.t + 1
        /\ main.t \in Enc!Threads /\ th[main.t].finished
    BY <1>1, <1>5 DEF Enc!AwaitFinished, Enc!MainType
  <2>2. IF t = main.t THEN ~th'[t].finished /\ ~th'[t].started /\ th[t].finished
        ELSE th'[t] = th[t]
    BY <1>1, <1>5, <2>1 DEF Enc!AwaitFinished, Enc!ThreadType, Enc!Rendezvous
  <2>3. t < main.t + 1 <=> t < main.t \/ t = main.t
    BY <1>1
  <2>4. t # main.t /\ main.t <= t => main.t + 1 <= t
    BY <1>1
  <2> QED
    BY <1>1, <1>2, <2>1, <2>2, <2>3, <2>4 DEF Enc!Rendezvous
<1>6. CASE Enc!LetWait
  <2>1. /\ main.pc = "finished" /\ main.t = NumThreads /\ main'.pc = "started" /\ main'.t = 0
        /\ th' = th
    BY <1>1, <1>6 DEF Enc!LetWait, Enc!MainType
  <2>2. t < main.t /\ ~(main.t <= t) /\ ~(t < 0)
    BY <1>1, <2>1
  <2>3. th[t].pc = "rest" /\ ~th[t].finished /\ ~th[t].started
    BY <1>1, <2>1, <2>2 DEF Enc!Rendezvous
  <2> QED
    BY <2>1, <2>2, <2>3 DEF Enc!Rendezvous
<1>7. CASE Enc!AwaitStarted
  <2>1. /\ main.pc = "started" /\ main'.pc = "started" /\ main'.t = main.t + 1
        /\ main.t \in Enc!Threads /\ th[main.t].started
    BY <1>1, <1>7 DEF Enc!AwaitStarted, Enc!MainType
  <2>2. IF t = main.t THEN ~th'[t].finished /\ ~th'[t].started /\ th[t].started
        ELSE th'[t] = th[t]
    BY <1>1, <1>7, <2>1 DEF Enc!AwaitStarted, Enc!ThreadType, Enc!Rendezvous
  <2>3. t < main.t + 1 <=> t < main.t \/ t = main.t
    BY <1>1
  <2>4. t # main.t /\ main.t <= t => main.t + 1 <= t
    BY <1>1
  <2> QED
    BY <1>1, <1>2, <2>1, <2>2, <2>3, <2>4 DEF Enc!Rendezvous
<1>8. CASE Enc!CodeReturn
  <2>1. main.pc = "started" /\ main.t = NumThreads /\ main'.pc = "idle" /\ th' = th
    BY <1>1, <1>8 DEF Enc!CodeReturn, Enc!MainType
  <2>2. t < main.t /\ ~(main.t <= t)
    BY <1>1, <2>1
  <2>3. th[t].pc = "wait" /\ ~th[t].finished /\ ~th[t].started
    BY <1>1, <2>1, <2>2 DEF Enc!Rendezvous
  <2> QED
    BY <2>1, <2>3 DEF Enc!Rendezvous
<1>9. CASE Enc!Close
  <2>1. main.pc = "idle" /\ main'.pc = "close"
    BY <1>1, <1>9 DEF Enc!Close, Enc!MainType
  <2> QED
    BY <1>1, <1>2, <2>1 DEF Enc!Rendezvous
<1>10. CASE Enc!Join
  <2>1. main'.pc = "done" /\ th[t].pc = "exited"
    BY <1>1, <1>10 DEF Enc!Join, Enc!MainType
  <2> QED
    BY <1>2, <2>1 DEF Enc!Rendezvous
<1> QED
  BY <1>3, <1>4, <1>5, <1>6, <1>7, <1>8, <1>9, <1>10 DEF Enc!MainStep

(* What the calling thread does, field by field.                           *)
EncGoes(from, to) == main.pc = from /\ main'.pc = to

LEMMA EncMainEffect ==
  ASSUME Enc!TypeOK
  PROVE  /\ Enc!CodeReset =>
              /\ EncGoes("idle", "reset") /\ main'.returned = "none"
              /\ io'.read = 0 /\ io'.written = <<>> /\ ~io'.failed
              /\ coder'.next = 0 /\ ~coder'.streamWasFinished
         /\ Enc!CodeStart =>
              /\ EncGoes("reset", "finished") /\ main'.returned = main.returned
              /\ io' = io /\ EncKeepsStream /\ coder'.result = "ok"
              /\ \A t \in Enc!Threads : th'[t].canWrite <=> (th[t].canWrite \/ t = 0)
         /\ Enc!AwaitFinished =>
              /\ EncGoes("finished", "finished") /\ main'.returned = main.returned
              /\ EncKeepsFlow /\ EncKeepsTurns
         /\ Enc!LetWait =>
              /\ EncGoes("finished", "started") /\ main'.returned = main.returned
              /\ main.t = NumThreads /\ EncKeepsFlow /\ EncKeepsTurns
         /\ Enc!AwaitStarted =>
              /\ EncGoes("started", "started") /\ main'.returned = main.returned
              /\ EncKeepsFlow /\ EncKeepsTurns
         /\ Enc!CodeReturn =>
              /\ EncGoes("started", "idle") /\ main'.returned = coder.result
              /\ main.t = NumThreads /\ io' = io
         /\ Enc!Close => EncGoes("idle", "close") /\ main'.returned = main.returned /\ io' = io
         /\ Enc!Join => EncGoes("close", "done") /\ main'.returned = main.returned /\ io' = io
<1>1. main \in Enc!MainType /\ coder \in Enc!EncoderType /\ th \in [Enc!Threads -> Enc!ThreadType]
  BY DEF Enc!TypeOK
<1>2. ASSUME Enc!CodeReset
      PROVE  /\ EncGoes("idle", "reset") /\ main'.returned = "none"
             /\ io'.read = 0 /\ io'.written = <<>> /\ ~io'.failed
             /\ coder'.next = 0 /\ ~coder'.streamWasFinished
  <2>1. EncGoes("idle", "reset") /\ main'.returned = "none"
    BY <1>1, <1>2 DEF Enc!CodeReset, EncGoes, Enc!MainType
  <2>2. io'.read = 0 /\ io'.written = <<>> /\ ~io'.failed
    <3>1. io' = [read |-> 0, written |-> <<>>, failed |-> FALSE]
      BY <1>2 DEF Enc!CodeReset
    <3> QED
      BY <3>1
  <2>3. coder'.next = 0 /\ ~coder'.streamWasFinished
    BY <1>1, <1>2 DEF Enc!CodeReset, Enc!EncoderType
  <2> QED
    BY <2>1, <2>2, <2>3
<1>3. ASSUME Enc!CodeStart
      PROVE  /\ EncGoes("reset", "finished") /\ main'.returned = main.returned
             /\ io' = io /\ EncKeepsStream /\ coder'.result = "ok"
             /\ \A t \in Enc!Threads : th'[t].canWrite <=> (th[t].canWrite \/ t = 0)
  <2>1. \A t \in Enc!Threads : th'[t].canWrite <=> (th[t].canWrite \/ t = 0)
    BY <1>1, <1>3, EncSlotProperties DEF Enc!CodeStart, Enc!ThreadType
  <2>2. EncKeepsStream /\ coder'.result = "ok"
    BY <1>1, <1>3 DEF Enc!CodeStart, EncKeepsStream, Enc!EncoderType
  <2> QED
    BY <1>1, <1>3, <2>1, <2>2 DEF Enc!CodeStart, EncGoes, Enc!MainType
<1>4. ASSUME Enc!AwaitFinished \/ Enc!AwaitStarted
      PROVE  EncKeepsFlow /\ EncKeepsTurns /\ main'.pc = main.pc /\ main'.returned = main.returned
  BY <1>1, <1>4 DEF Enc!AwaitFinished, Enc!AwaitStarted, EncKeepsFlow, EncKeepsStream, EncKeepsTurns, Enc!MainType,
     Enc!ThreadType
<1>5. Enc!LetWait =>
        /\ EncGoes("finished", "started") /\ main'.returned = main.returned
        /\ main.t = NumThreads /\ EncKeepsFlow /\ EncKeepsTurns
  BY <1>1 DEF Enc!LetWait, EncGoes, EncKeepsFlow, EncKeepsStream, EncKeepsTurns, Enc!MainType, Enc!EncoderType
<1>6. Enc!CodeReturn =>
        /\ EncGoes("started", "idle") /\ main'.returned = coder.result
        /\ main.t = NumThreads /\ io' = io
  BY <1>1 DEF Enc!CodeReturn, EncGoes, Enc!MainType
<1>7. Enc!Close => EncGoes("idle", "close") /\ main'.returned = main.returned /\ io' = io
  BY <1>1 DEF Enc!Close, EncGoes, Enc!MainType
<1>8. Enc!Join => EncGoes("close", "done") /\ main'.returned = main.returned /\ io' = io
  BY <1>1 DEF Enc!Join, EncGoes, Enc!MainType
<1> QED
  BY <1>2, <1>3, <1>4, <1>5, <1>6, <1>7, <1>8 DEF Enc!AwaitFinished, Enc!AwaitStarted, EncGoes

(* CodeStart: no block read, and the turn at the slot of the first.        *)
LEMMA EncStartInCall ==
  ASSUME Enc!IInv, Enc!CodeStart
  PROVE  Enc!InCall'
<1>1. /\ Enc!TypeOK /\ EncGoes("reset", "finished") /\ io' = io /\ EncKeepsStream /\ coder'.result = "ok"
      /\ \A t \in Enc!Threads : th'[t].canWrite <=> (th[t].canWrite \/ t = 0)
  BY EncMainEffect DEF Enc!IInv
<1>2. /\ io.read = 0 /\ io.written = <<>> /\ Len(io.written) = 0 /\ ~io.failed
      /\ coder.next = 0 /\ ~coder.streamWasFinished
      /\ \A t \in Enc!Threads : ~th[t].canWrite /\ th[t].pc = "wait"
  BY <1>1 DEF EncGoes, Enc!IInv, Enc!Rendezvous
<1>3. \A t \in Enc!Threads : th'[t].pc = "wait"
  BY <1>1, <1>2, EncMainFrame DEF Enc!MainStep
<1>4. Enc!BlocksAreHeld'
  BY <1>1, <1>2, <1>3 DEF Enc!BlocksAreHeld, Enc!Holding
<1>5. Enc!SlotsFollowTurn'
  <2>1. \A z \in Enc!Threads : Enc!TurnAt(z)' => z = 0
    BY <1>1, <1>2, <1>3 DEF Enc!TurnAt
  <2>2. Enc!Ahead(0, coder'.next, io'.read - Len(io'.written))
    <3>1. coder'.next = 0 /\ io'.read = 0 /\ Len(io'.written) = 0
      BY <1>1, <1>2 DEF EncKeepsStream
    <3> QED
      BY <3>1 DEF Enc!Ahead
  <2> QED
    BY <1>3, <2>1, <2>2 DEF Enc!SlotsFollowTurn, Enc!Holding, Enc!Ahead
<1>6. Enc!EndIsCaused'
  BY <1>1, <1>2, <1>3 DEF Enc!EndIsCaused, EncGoes, EncKeepsStream
<1> QED
  BY <1>1, <1>4, <1>5, <1>6 DEF Enc!InCall, EncGoes

(* Until CodeReturn the calling thread leaves blocks and slots alone.      *)
LEMMA EncMainInCall ==
  ASSUME Enc!IInv, Enc!MainStep
  PROVE  /\ Enc!InCall'
         /\ main'.pc = "reset" => /\ io'.read = 0 /\ io'.written = <<>> /\ ~io'.failed
                                  /\ coder'.next = 0 /\ ~coder'.streamWasFinished
         /\ main'.pc \in {"reset", "finished", "started"} <=> main'.returned = "none"
<1>1. /\ Enc!TypeOK /\ coder.result # "none"
      /\ main.pc \in {"reset", "finished", "started"} <=> main.returned = "none"
  BY DEF Enc!IInv, Enc!TypeOK, Enc!EncoderType, Enc!Results
<1>2. CASE Enc!CodeReset
  BY <1>1, <1>2, EncMainEffect DEF EncGoes, Enc!InCall
<1>3. CASE Enc!CodeStart
  BY <1>1, <1>3, EncMainEffect, EncStartInCall DEF EncGoes
<1>4. CASE Enc!AwaitFinished \/ Enc!LetWait \/ Enc!AwaitStarted
  <2>1. /\ main.pc \in {"finished", "started"} /\ main'.pc \in {"finished", "started"}
        /\ main'.returned = main.returned /\ EncKeepsFlow /\ EncKeepsTurns
    BY <1>1, <1>4, EncMainEffect DEF EncGoes
  <2>2. /\ coder'.cs = coder.cs
        /\ \A t \in Enc!Threads : /\ th'[t].pc = th[t].pc /\ th'[t].block = th[t].block
                                  /\ th'[t].slot = th[t].slot
    BY <1>1, EncMainFrame
  <2>3. Enc!InCall /\ Enc!EndIsCaused /\ coder'.result \in Enc!Faults \cup {"ok"}
    BY <2>1 DEF Enc!IInv, Enc!InCall, EncKeepsFlow
  <2>4. \A z \in Enc!Threads : Enc!TurnAt(z)' <=> Enc!TurnAt(z)
    BY <2>1, <2>2, EncSlotProperties DEF Enc!TurnAt, Enc!NextSlot, EncKeepsTurns
  <2>5. Enc!EndIsCaused'
    <3>1. main'.pc = "started" => coder.streamWasFinished
      <4>1. CASE Enc!LetWait
        <5>1. main.pc = "finished" /\ main.t = NumThreads
          BY <1>1, <4>1, EncMainEffect DEF EncGoes
        <5>2. 0 \in Enc!Threads /\ Enc!Rendezvous(0) /\ 0 < NumThreads
          BY EncSlotProperties DEF Enc!IInv
        <5>3. th[0].pc = "rest"
          BY <5>1, <5>2 DEF Enc!Rendezvous
        <5> QED
          BY <2>3, <5>2, <5>3 DEF Enc!EndIsCaused
      <4>2. CASE Enc!AwaitFinished \/ Enc!AwaitStarted
        BY <1>1, <2>3, <4>2, EncMainEffect DEF EncGoes, Enc!EndIsCaused
      <4> QED
        BY <1>4, <4>1, <4>2
    <3> QED
      BY <2>1, <2>2, <2>3, <2>4, <3>1 DEF Enc!EndIsCaused, EncKeepsFlow, EncKeepsStream
  <2>6. Enc!BlocksAreHeld' <=> Enc!BlocksAreHeld
    BY <2>1, <2>2 DEF Enc!BlocksAreHeld, Enc!Holding, EncKeepsFlow
  <2>7. Enc!SlotsFollowTurn => Enc!SlotsFollowTurn'
    <3>1. Enc!AtEnd' <=> Enc!AtEnd
      BY <2>1, <2>2 DEF Enc!AtEnd, EncKeepsFlow, EncKeepsStream
    <3> QED
      BY <2>1, <2>2, <2>4, <3>1 DEF Enc!SlotsFollowTurn, Enc!Holding, Enc!Ahead, EncKeepsFlow, EncKeepsStream
  <2>8. io' = io
    BY <2>1 DEF EncKeepsFlow
  <2> QED
    BY <1>1, <2>1, <2>3, <2>5, <2>6, <2>7, <2>8 DEF Enc!InCall
<1>5. CASE Enc!CodeReturn \/ Enc!Close \/ Enc!Join
  BY <1>1, <1>5, EncMainEffect DEF EncGoes, Enc!InCall
<1> QED
  BY <1>2, <1>3, <1>4, <1>5 DEF Enc!MainStep

-----------------------------------------------------------------------------
(* The theorems.                                                           *)

LEMMA EncStepIInv == Enc!IInv /\ [Enc!Next]_Enc!vars => Enc!IInv'
<1> SUFFICES ASSUME Enc!IInv, [Enc!Next]_Enc!vars PROVE Enc!IInv'
  OBVIOUS
<1>1. ASSUME NEW t \in Enc!Threads, Enc!ThreadStep(t) PROVE Enc!IInv'
  <2>1. Enc!TypeOK' /\ UNCHANGED main
        /\ UNCHANGED <<coder.closeThreads, coder.canProcess, coder.canStartWaiting>>
    BY <1>1, EncThreadTypeOK, EncThreadFrame DEF Enc!IInv
  <2>2. Enc!Phases'
    BY <2>1 DEF Enc!IInv, Enc!Phases
  <2>3. Enc!SectionIsOwned' /\ Enc!OneTurn'
    BY <1>1, EncThreadSection, EncThreadTurn
  <2>4. \A u \in Enc!Threads : Enc!Rendezvous(u)' /\ (main'.pc = "reset" => ~th'[u].canWrite)
    BY <1>1, EncThreadRendezvous
  <2>5. Enc!InCall' /\ main'.pc # "reset"
    BY <1>1, EncThreadInCall
  <2> QED
    BY <2>1, <2>2, <2>3, <2>4, <2>5 DEF Enc!IInv
<1>2. CASE Enc!MainStep
  <2>1. Enc!TypeOK' /\ Enc!Phases' /\ Enc!SectionIsOwned'
    BY <1>2, EncMainTypeOK, EncMainPhases DEF Enc!IInv
  <2>2. Enc!OneTurn' /\ (main'.pc = "reset" => \A t \in Enc!Threads : ~th'[t].canWrite)
    BY <1>2, EncMainTurn
  <2>3. \A t \in Enc!Threads : Enc!Rendezvous(t)'
    BY <1>2, EncMainRendezvous
  <2> QED
    BY <1>2, <2>1, <2>2, <2>3, EncMainInCall DEF Enc!IInv
<1>3. CASE UNCHANGED Enc!vars
  <2>1. main' = main /\ coder' = coder /\ th' = th /\ io' = io
    BY <1>3 DEF Enc!vars
  <2>2. Enc!TypeOK' /\ Enc!Phases' /\ Enc!SectionIsOwned' /\ Enc!OneTurn' /\ \A t \in Enc!Threads : Enc!Rendezvous(t)'
    BY <2>1 DEF Enc!IInv, Enc!TypeOK, Enc!Phases, Enc!SectionIsOwned, Enc!OneTurn, Enc!Rendezvous
  <2>3. Enc!InCall'
    <3>1. \A z \in Enc!Threads : Enc!TurnAt(z)' <=> Enc!TurnAt(z)
      BY <2>1 DEF Enc!TurnAt, Enc!NextSlot
    <3>2. (Enc!EndIsCaused' <=> Enc!EndIsCaused) /\ (Enc!BlocksAreHeld' <=> Enc!BlocksAreHeld)
      BY <2>1, <3>1 DEF Enc!EndIsCaused, Enc!BlocksAreHeld, Enc!Holding
    <3>3. Enc!SlotsFollowTurn' <=> Enc!SlotsFollowTurn
      BY <2>1, <3>1 DEF Enc!SlotsFollowTurn, Enc!Holding, Enc!Ahead, Enc!AtEnd
    <3> QED
      BY <2>1, <3>2, <3>3 DEF Enc!IInv, Enc!InCall
  <2> QED
    BY <2>1, <2>2, <2>3 DEF Enc!IInv
<1> QED
  BY <1>1, <1>2, <1>3 DEF Enc!Next

(* The events, flags and places of the threads fit together in every       *)
(* reachable state of CEncoder.                                            *)
THEOREM EncoderInvariant == Enc!Spec => []Enc!IInv
<1>1. Enc!Init => Enc!IInv
  BY EncInitIInv
<1>2. Enc!IInv /\ [Enc!Next]_Enc!vars => Enc!IInv'
  BY EncStepIInv
<1> QED
  BY <1>1, <1>2, PTL DEF Enc!Spec

(* CanWriteEvent is never set for two blocks at a time, nor for one while  *)
(* a thread writes another: blocks cannot be written side by side.         *)
THEOREM EncoderTurns == Enc!Spec => []Enc!OneTurn
<1>1. Enc!IInv => Enc!OneTurn
  BY DEF Enc!IInv
<1> QED
  BY <1>1, EncoderInvariant, PTL

LEMMA EncRestOfIInv == Enc!IInv => Enc!ThreadsAtRest
<1> SUFFICES ASSUME Enc!IInv, main.pc \in {"idle", "reset"}
             PROVE  coder.cs = Enc!Nobody /\ \A t \in Enc!Threads : th[t].pc = "wait"
  BY DEF Enc!ThreadsAtRest
<1>1. \A t \in Enc!Threads : th[t].pc = "wait"
  BY DEF Enc!IInv, Enc!Rendezvous
<1>2. coder.cs \in 0..NumThreads
  BY DEF Enc!IInv, Enc!TypeOK, Enc!EncoderType
<1>3. coder.cs # Enc!Nobody => coder.cs \in Enc!Threads
  BY <1>2, ConstantsAssumption DEF Enc!Nobody, Enc!Threads
<1> QED
  BY <1>1, <1>3 DEF Enc!IInv, Enc!SectionIsOwned

(* When CodeReal has returned, or resets the events for the next stream,   *)
(* all threads wait at their start and none is in the critical section.    *)
THEOREM EncoderAtRest == Enc!Spec => []Enc!ThreadsAtRest
BY EncRestOfIInv, EncoderInvariant, PTL

-----------------------------------------------------------------------------
(* The order of the blocks.                                                *)

(* CodeReset begins a new output, WriteBytes adds the block that comes     *)
(* next in the input, and CodeReal returns "ok" when all are written, or   *)
(* else an error that happened; no other step changes output or result.    *)
EncStarts == main.returned # "none" /\ io'.written = <<>> /\ main'.returned = "none"
EncWrites ==
  /\ main.returned = "none" /\ Len(io.written) < NumBlocks
  /\ io'.written = Append(io.written, Len(io.written) + 1)
  /\ main'.returned = main.returned
EncReturns ==
  /\ main.returned = "none" /\ io'.written = io.written
  /\ main'.returned \in Enc!Faults \cup IF Len(io.written) = NumBlocks THEN {"ok"} ELSE {}
EncSilent == io'.written = io.written /\ main'.returned = main.returned

(* When all threads are back at their start no block is between reading    *)
(* and writing.                                                            *)
LEMMA EncReturnInOrder ==
  ASSUME Enc!IInv, Enc!CodeReturn
  PROVE  EncReturns
<1>1. /\ Enc!TypeOK /\ EncGoes("started", "idle") /\ main'.returned = coder.result
      /\ main.t = NumThreads /\ io' = io
  BY EncMainEffect DEF Enc!IInv
<1>2. /\ main.returned = "none" /\ coder.result \in Enc!Faults \cup {"ok"} /\ Enc!EndIsCaused
      /\ ~io.failed => Enc!BlocksAreHeld
  BY <1>1 DEF Enc!IInv, Enc!InCall, EncGoes
<1>3. ASSUME coder.result = "ok" PROVE Len(io.written) = NumBlocks
  <2>1. io.read = NumBlocks /\ ~io.failed /\ Enc!BlocksAreHeld
    BY <1>1, <1>2, <1>3 DEF Enc!EndIsCaused, EncGoes
  <2>2. \A t \in Enc!Threads : th[t].pc = "wait"
    BY <1>1, EncSlotProperties DEF Enc!IInv, Enc!Rendezvous, EncGoes
  <2>3. \A b \in (Len(io.written) + 1)..io.read : FALSE
    BY <2>1, <2>2 DEF Enc!BlocksAreHeld, Enc!Holding
  <2>4. Len(io.written) \in Nat /\ io.read \in Nat /\ Len(io.written) <= io.read
    BY <1>1, <2>1, EncFlowProperties DEF Enc!BlocksAreHeld
  <2>5. ~(Len(io.written) < io.read)
    BY <2>3, <2>4
  <2> QED
    BY <2>1, <2>4, <2>5
<1> QED
  BY <1>1, <1>2, <1>3 DEF EncReturns

LEMMA EncStepInOrder == Enc!IInv /\ [Enc!Next]_Enc!vars => EncStarts \/ EncWrites \/ EncReturns \/ EncSilent
<1> SUFFICES ASSUME Enc!IInv, [Enc!Next]_Enc!vars PROVE EncStarts \/ EncWrites \/ EncReturns \/ EncSilent
  OBVIOUS
<1>1. Enc!TypeOK
  BY DEF Enc!IInv
<1>2. ASSUME NEW t \in Enc!Threads, Enc!ThreadStep(t) PROVE EncWrites \/ EncSilent
  <2>1. main' = main
    BY <1>1, <1>2, EncThreadFrame
  <2>2. CASE Enc!WriteBlock(t) /\ th'[t].pc = "pass"
    <3>1. th[t].pc = "write" /\ io'.written = Append(io.written, th[t].block)
      BY <1>1, <2>2, EncWriteEffect
    <3>2. main.pc = "finished" /\ main.returned = "none"
      BY <3>1, EncAtWork DEF Enc!IInv
    <3>3. ~io.failed
      <4>1. Enc!TurnAt(th[t].slot)
        BY <3>1 DEF Enc!TurnAt
      <4> QED
        BY <1>1, <3>2, <4>1, EncTurnEffect DEF Enc!IInv, Enc!InCall, Enc!EndIsCaused
    <3>4. th[t].block = Len(io.written) + 1 /\ Len(io.written) + 1 <= io.read
      BY <1>1, <3>1, <3>2, <3>3, EncWriterHasFirst DEF Enc!IInv, Enc!InCall
    <3>5. Len(io.written) < NumBlocks
      BY <1>1, <3>4, EncFlowProperties
    <3> QED
      BY <2>1, <3>1, <3>2, <3>4, <3>5 DEF EncWrites
  <2>3. CASE ~(Enc!WriteBlock(t) /\ th'[t].pc = "pass")
    <3>1. CASE Enc!WriteBlock(t)
      BY <1>1, <2>1, <2>3, <3>1, EncWriteEffect DEF EncSilent
    <3>2. CASE Enc!ReadBlock(t)
      BY <1>1, <2>1, <3>2, EncReadEffect DEF EncSilent
    <3>3. CASE ~Enc!WriteBlock(t) /\ ~Enc!ReadBlock(t)
      BY <1>1, <1>2, <2>1, <3>3, EncSectionEffect, EncReadFailsEffect, EncTurnEffect, EncRestEffect
         DEF Enc!ThreadStep, EncKeepsFlow, EncSilent
    <3> QED
      BY <3>1, <3>2, <3>3
  <2> QED
    BY <2>2, <2>3
<1>3. CASE Enc!MainStep
  <2>1. CASE Enc!CodeReset
    <3>1. main.pc = "idle" => main.returned # "none"
      BY DEF Enc!IInv
    <3> QED
      BY <1>1, <2>1, <3>1, EncMainEffect DEF EncGoes, EncStarts
  <2>2. CASE Enc!CodeReturn
    BY <2>2, EncReturnInOrder
  <2>3. CASE ~Enc!CodeReset /\ ~Enc!CodeReturn
    BY <1>1, <1>3, <2>3, EncMainEffect DEF Enc!MainStep, EncKeepsFlow, EncSilent
  <2> QED
    BY <2>1, <2>2, <2>3
<1>4. CASE UNCHANGED Enc!vars
  BY <1>4 DEF Enc!vars, EncSilent
<1> QED
  BY <1>2, <1>3, <1>4 DEF Enc!Next

(* In every step the output grows by the next block of the input, and only *)
(* while Code runs; and a call of Code that says "ok" has written them all. *)
THEOREM EncoderInOrder ==
  Enc!Spec => [][EncStarts \/ EncWrites \/ EncReturns]_<<io.written, main.returned>>
<1>1. Enc!IInv /\ [Enc!Next]_Enc!vars => [EncStarts \/ EncWrites \/ EncReturns]_<<io.written, main.returned>>
  BY EncStepInOrder DEF EncSilent
<1> QED
  BY <1>1, EncoderInvariant, PTL DEF Enc!Spec

-----------------------------------------------------------------------------
(* The BZip2 decoder.                                                      *)

(* Slots are numbers of threads.                                           *)
LEMMA DecSlotProperties ==
  /\ NumThreads \in Nat \ {0} /\ 0 \in Dec!Threads /\ Dec!Nobody \notin Dec!Threads /\ Dec!Nobody \in 0..NumThreads
  /\ \A t \in Dec!Threads : /\ t \in 0..NumThreads /\ t + 1 \in 0..NumThreads
                            /\ t \in Nat /\ t < NumThreads /\ Dec!NextSlot(t) \in Dec!Threads
BY ConstantsAssumption DEF Dec!Threads, Dec!Nobody, Dec!NextSlot

(* Going on to the next slot.                                              *)
LEMMA DecAheadNext ==
  ASSUME NEW p \in Dec!Threads, NEW q \in Dec!Threads, NEW d \in Nat, d <= NumThreads, Dec!Ahead(p, q, d)
  PROVE  /\ d < NumThreads => Dec!Ahead(p, Dec!NextSlot(q), d + 1)
         /\ d > 0 => Dec!Ahead(Dec!NextSlot(p), q, d - 1)
BY DecSlotProperties DEF Dec!Ahead, Dec!NextSlot, Dec!Threads

LEMMA DecAheadSame ==
  ASSUME NEW p \in Dec!Threads, NEW q \in Dec!Threads, NEW d \in Nat, d <= NumThreads, Dec!Ahead(p, q, d)
  PROVE  p = q <=> d = 0 \/ d = NumThreads
BY DecSlotProperties DEF Dec!Ahead, Dec!Threads

LEMMA DecInitIInv == Dec!Init => Dec!IInv
<1> SUFFICES ASSUME Dec!Init PROVE Dec!IInv
  OBVIOUS
<1> USE DecSlotProperties, ConstantsAssumption DEF Dec!Init
<1>1. Dec!TypeOK
  BY DEF Dec!TypeOK, Dec!MainType, Dec!DecoderType, Dec!ThreadType, Dec!IoType, Dec!ThreadPcs, Dec!Results
<1>2. Dec!Phases /\ Dec!SectionIsOwned /\ Dec!OneTurn
  BY DEF Dec!Phases, Dec!SectionIsOwned, Dec!OneTurn
<1>3. \A t \in Dec!Threads : Dec!Rendezvous(t)
  BY DEF Dec!Rendezvous
<1>4. Dec!InCall /\ Dec!LikeOneThread
  BY DEF Dec!InCall, Dec!LikeOneThread
<1> QED
  BY <1>1, <1>2, <1>3, <1>4 DEF Dec!IInv

(* What the input says of a block, and what becomes of it.                 *)
LEMMA DecInputProperties ==
  ASSUME Dec!TypeOK
  PROVE  /\ io.input.blocks \in Seq({"good", "data", "crc", "write", "abort"})
         /\ io.input.end \in {"ok", "data", "crc", "read", "write", "abort", "nosig"}
         /\ Len(io.input.blocks) \in 0..NumBlocks
         /\ io.read \in 0..NumBlocks /\ io.read <= Len(io.input.blocks)
         /\ io.written \in Seq(0..NumBlocks) /\ Len(io.written) \in Nat
<1>1. io.input \in Inputs \cup {[blocks |-> <<>>, end |-> "ok"]}
  BY DEF Dec!TypeOK, Dec!IoType
<1>2. CASE io.input \in Inputs
  BY <1>2, InputsAssumption, ConstantsAssumption DEF Dec!TypeOK, Dec!IoType
<1>3. CASE io.input = [blocks |-> <<>>, end |-> "ok"]
  BY <1>3, ConstantsAssumption DEF Dec!TypeOK, Dec!IoType
<1> QED
  BY <1>1, <1>2, <1>3

LEMMA DecResultProperties ==
  ASSUME NEW q \in {"good", "ok", "data", "crc", "read", "write", "abort"}
  PROVE  Dec!HResult(q) \in Dec!Results /\ (Dec!HResult(q) = "ok" <=> q \in {"good", "ok"})
BY DEF Dec!HResult, Dec!Results

-----------------------------------------------------------------------------
(* The steps of a thread.                                                  *)

(* Threads work on blocks in DecodeFile only.                              *)
LEMMA DecAtWork ==
  ASSUME Dec!IInv, NEW t \in Dec!Threads, th[t].pc \in {"decode", "write", "pass", "stop", "finish"}
  PROVE  main.pc = "finished"
BY DEF Dec!IInv, Dec!TypeOK, Dec!MainType, Dec!Rendezvous

(* The block a thread has is a block of the input.                         *)
LEMMA DecHeldBlock ==
  ASSUME Dec!IInv, NEW t \in Dec!Threads, Dec!Holding(t), ~coder.finished2
  PROVE  /\ th[t].block \in 1..Len(io.input.blocks)
         /\ io.input.blocks[th[t].block] \in {"good", "data", "crc", "write", "abort"}
<1>1. Dec!TypeOK /\ Dec!BlocksAreHeld
  BY DecAtWork DEF Dec!IInv, Dec!InCall, Dec!Holding
<1>2. th[t].block \in 1..Len(io.input.blocks)
  BY <1>1, DecInputProperties DEF Dec!BlocksAreHeld
<1> QED
  BY <1>1, <1>2, DecInputProperties

LEMMA DecThreadTypeOK ==
  ASSUME Dec!IInv, NEW t \in Dec!Threads, Dec!ThreadStep(t)
  PROVE  Dec!TypeOK'
<1> USE DecSlotProperties DEF Dec!TypeOK
<1> Dec!TypeOK
  BY DEF Dec!IInv
<1>1. CASE Dec!EnterCS(t)
  <2>1. coder' \in Dec!DecoderType
    BY <1>1 DEF Dec!EnterCS, Dec!DecoderType
  <2>2. th' \in [Dec!Threads -> Dec!ThreadType]
    BY <1>1 DEF Dec!EnterCS, Dec!Goto, Dec!ThreadType, Dec!ThreadPcs
  <2> QED
    BY <1>1, <2>1, <2>2 DEF Dec!EnterCS
<1>2. CASE Dec!CloseThread(t)
  <2>1. coder' \in Dec!DecoderType
    BY <1>2 DEF Dec!CloseThread, Dec!DecoderType
  <2>2. th' \in [Dec!Threads -> Dec!ThreadType]
    BY <1>2 DEF Dec!CloseThread, Dec!Goto, Dec!ThreadType, Dec!ThreadPcs
  <2> QED
    BY <1>2, <2>1, <2>2 DEF Dec!CloseThread
<1>3. CASE Dec!SeeFinished(t)
  BY <1>3 DEF Dec!SeeFinished, Dec!Goto, Dec!ThreadType, Dec!ThreadPcs
<1>4. CASE Dec!ReadBlock(t)
  <2>1. coder' \in Dec!DecoderType
    BY <1>4 DEF Dec!ReadBlock, Dec!DecoderType
  <2>2. io.read + 1 \in 0..NumBlocks /\ io.read + 1 <= Len(io.input.blocks)
    BY <1>4, DecInputProperties, ConstantsAssumption DEF Dec!ReadBlock
  <2>3. th' \in [Dec!Threads -> Dec!ThreadType]
    <3>1. coder.next \in Dec!Threads
      BY DEF Dec!DecoderType
    <3>2. PICK n \in 0..NumBlocks : n = io.read + 1
      BY <2>2
    <3>3. th' = [th EXCEPT ![t].pc = "decode", ![t].block = n, ![t].slot = coder.next]
      BY <1>4, <3>2 DEF Dec!ReadBlock
    <3> QED
      BY <3>1, <3>3, SMTT(30), ZenonT(30) DEF Dec!ThreadType, Dec!ThreadPcs
  <2>4. io' \in Dec!IoType /\ io'.read <= Len(io'.input.blocks)
    BY <1>4, <2>2 DEF Dec!ReadBlock, Dec!IoType
  <2> QED
    BY <1>4, <2>1, <2>3, <2>4 DEF Dec!ReadBlock
<1>5. CASE Dec!ReadEnd(t)
  <2>1. io.input.end \in {"data", "crc", "read"} => Dec!HResult(io.input.end) \in Dec!Results
    BY DecResultProperties
  <2>2. coder' \in Dec!DecoderType
    <3>1. coder'.crcError = (coder.crcError \/ io.input.end = "crc") /\ coder'.next = Dec!NextSlot(coder.next)
      BY <1>5 DEF Dec!ReadEnd, Dec!DecoderType
    <3> QED
      BY <1>5, <2>1 DEF Dec!ReadEnd, Dec!DecoderType, Dec!Results
  <2>3. th' \in [Dec!Threads -> Dec!ThreadType]
    BY <1>5 DEF Dec!ReadEnd, Dec!Goto, Dec!ThreadType, Dec!ThreadPcs
  <2> QED
    BY <1>5, <2>2, <2>3 DEF Dec!ReadEnd
<1>6. CASE Dec!TakeTurn(t)
  <2>1. th[t].slot \in Dec!Threads
    BY DEF Dec!ThreadType
  <2> DEFINE taken == [th EXCEPT ![th[t].slot].canWrite = FALSE]
  <2>2. taken \in [Dec!Threads -> Dec!ThreadType]
    BY <2>1 DEF Dec!ThreadType
  <2>3. th' = [taken EXCEPT ![t].pc = "write"]
    BY <1>6, <2>1 DEF Dec!TakeTurn
  <2> HIDE DEF taken
  <2>4. th' \in [Dec!Threads -> Dec!ThreadType]
    BY <2>2, <2>3 DEF Dec!ThreadType, Dec!ThreadPcs
  <2> QED
    BY <1>6, <2>4 DEF Dec!TakeTurn
<1>8. CASE Dec!PassTurn(t)
  <2>1. Dec!NextSlot(th[t].slot) \in Dec!Threads
    BY DEF Dec!ThreadType
  <2> DEFINE passed(p) == [th EXCEPT ![t].pc = p]
             n == Dec!NextSlot(th[t].slot)
  <2>2. ASSUME NEW p \in Dec!ThreadPcs PROVE passed(p) \in [Dec!Threads -> Dec!ThreadType]
    BY DEF Dec!ThreadType
  <2>3. PICK p \in {"wait", "stop"} : th' = [passed(p) EXCEPT ![n].canWrite = TRUE]
    BY <1>8, <2>1 DEF Dec!PassTurn
  <2>4. passed(p) \in [Dec!Threads -> Dec!ThreadType]
    BY <2>2 DEF Dec!ThreadPcs
  <2> HIDE DEF passed, n
  <2>5. th' \in [Dec!Threads -> Dec!ThreadType]
    BY <2>1, <2>3, <2>4 DEF Dec!ThreadType, n
  <2> QED
    BY <1>8, <2>5 DEF Dec!PassTurn
<1>7. CASE Dec!DecodeBlock(t)
  <2>1. th[t].block \in 0..NumBlocks
    BY DEF Dec!ThreadType
  <2>2. Append(io.written, th[t].block) \in Seq(0..NumBlocks)
    BY <2>1, AppendProperties DEF Dec!IoType
  <2>3. io' \in Dec!IoType /\ io'.read <= Len(io'.input.blocks)
    BY <1>7, <2>2 DEF Dec!DecodeBlock, Dec!IoType
  <2>4. coder' \in Dec!DecoderType
    <3>1. ~coder.finished2 => Dec!HResult(io.input.blocks[th[t].block]) \in Dec!Results
      BY <1>7, DecHeldBlock, DecResultProperties DEF Dec!DecodeBlock, Dec!Holding
    <3> QED
      BY <1>7, <3>1 DEF Dec!DecodeBlock, Dec!DecoderType
  <2>5. th' \in [Dec!Threads -> Dec!ThreadType]
    BY <1>7 DEF Dec!DecodeBlock, Dec!ThreadType, Dec!ThreadPcs
  <2> QED
    BY <1>7, <2>3, <2>4, <2>5 DEF Dec!DecodeBlock
<1>9. CASE Dec!Stop(t)
  BY <1>9, SMTT(30), ZenonT(30) DEF Dec!Stop, Dec!ThreadType, Dec!ThreadPcs
<1>10. CASE Dec!FinishStream(t)
  <2>1. coder' \in Dec!DecoderType
    BY <1>10 DEF Dec!FinishStream, Dec!DecoderType
  <2>2. th' \in [Dec!Threads -> Dec!ThreadType]
    BY <1>10 DEF Dec!FinishStream, Dec!ThreadType, Dec!ThreadPcs
  <2> QED
    BY <1>10, <2>1, <2>2 DEF Dec!FinishStream
<1>11. CASE Dec!StartWaiting(t)
  BY <1>11, SMTT(30), ZenonT(30) DEF Dec!StartWaiting, Dec!ThreadType, Dec!ThreadPcs
<1> QED
  BY <1>1, <1>2, <1>3, <1>4, <1>5, <1>6, <1>7, <1>8, <1>9, <1>10, <1>11 DEF Dec!ThreadStep

(* Only the thread that takes a step moves, and a step does to it what its *)
(* action says; events for the turn to write apart.                        *)
LEMMA DecThreadFrame ==
  ASSUME Dec!TypeOK, NEW t \in Dec!Threads, Dec!ThreadStep(t)
  PROVE  /\ UNCHANGED main
         /\ UNCHANGED <<coder.closeThreads, coder.canProcess, coder.canStartWaiting>>
         /\ io'.input = io.input
         /\ \A u \in Dec!Threads \ {t} :
              /\ th'[u].pc = th[u].pc /\ th'[u].block = th[u].block
              /\ th'[u].slot = th[u].slot /\ th'[u].stops = th[u].stops
              /\ th'[u].finished = th[u].finished /\ th'[u].started = th[u].started
<1> USE DecSlotProperties DEF Dec!TypeOK
<1>1. coder \in Dec!DecoderType /\ th \in [Dec!Threads -> Dec!ThreadType] /\ io \in Dec!IoType
  OBVIOUS
<1>2. UNCHANGED main /\ UNCHANGED <<coder.closeThreads, coder.canProcess, coder.canStartWaiting>>
  BY <1>1 DEF Dec!ThreadStep, Dec!EnterCS, Dec!CloseThread, Dec!SeeFinished, Dec!ReadBlock, Dec!ReadEnd, Dec!TakeTurn,
     Dec!DecodeBlock, Dec!PassTurn, Dec!Stop, Dec!FinishStream, Dec!StartWaiting, Dec!DecoderType
<1>3. io'.input = io.input
  BY <1>1 DEF Dec!ThreadStep, Dec!EnterCS, Dec!CloseThread, Dec!SeeFinished, Dec!ReadBlock, Dec!ReadEnd, Dec!TakeTurn,
     Dec!DecodeBlock, Dec!PassTurn, Dec!Stop, Dec!FinishStream, Dec!StartWaiting, Dec!IoType
<1>4. ASSUME NEW u \in Dec!Threads, u # t
      PROVE  /\ th'[u].pc = th[u].pc /\ th'[u].block = th[u].block
             /\ th'[u].slot = th[u].slot /\ th'[u].stops = th[u].stops
             /\ th'[u].finished = th[u].finished /\ th'[u].started = th[u].started
  <2>1. th[t].slot \in Dec!Threads /\ Dec!NextSlot(th[t].slot) \in Dec!Threads
    BY <1>1 DEF Dec!ThreadType
  <2>2. CASE Dec!TakeTurn(t) \/ Dec!PassTurn(t)
    BY <1>1, <1>4, <2>1, <2>2 DEF Dec!TakeTurn, Dec!PassTurn, Dec!ThreadType
  <2>3. CASE ~(Dec!TakeTurn(t) \/ Dec!PassTurn(t))
    BY <1>1, <1>4, <2>3 DEF Dec!ThreadStep, Dec!EnterCS, Dec!CloseThread, Dec!SeeFinished, Dec!ReadBlock, Dec!ReadEnd,
       Dec!DecodeBlock, Dec!Stop, Dec!FinishStream, Dec!StartWaiting, Dec!Goto
  <2> QED
    BY <2>2, <2>3
<1> QED
  BY <1>2, <1>3, <1>4

(* What each action does, field by field.                                  *)
DecMoves(t, from, to) == th[t].pc = from /\ th'[t].pc = to
DecKeepsBlock(t) ==
  th'[t].block = th[t].block /\ th'[t].slot = th[t].slot /\ th'[t].stops = th[t].stops
DecKeepsEvents(t) == th'[t].finished = th[t].finished /\ th'[t].started = th[t].started
DecKeepsTurns == \A u \in Dec!Threads : th'[u].canWrite = th[u].canWrite
DecKeepsFlags ==
  /\ coder'.finished1 = coder.finished1 /\ coder'.finished2 = coder.finished2
  /\ coder'.result1 = coder.result1 /\ coder'.result2 = coder.result2
DecKeepsFlow == DecKeepsFlags /\ coder'.next = coder.next /\ io' = io

LEMMA DecSectionEffect ==
  ASSUME Dec!TypeOK, NEW t \in Dec!Threads
  PROVE  /\ Dec!EnterCS(t) => /\ DecMoves(t, "wait", "inside") /\ DecKeepsBlock(t) /\ DecKeepsEvents(t)
                              /\ DecKeepsTurns /\ DecKeepsFlow
                              /\ coder.canProcess /\ coder.cs = Dec!Nobody /\ coder'.cs = t
         /\ Dec!CloseThread(t) => /\ DecMoves(t, "inside", "exited") /\ DecKeepsBlock(t) /\ DecKeepsEvents(t)
                                  /\ DecKeepsTurns /\ DecKeepsFlow /\ coder.closeThreads /\ coder'.cs = Dec!Nobody
         /\ Dec!SeeFinished(t) => /\ DecMoves(t, "inside", "finish") /\ DecKeepsBlock(t) /\ DecKeepsEvents(t)
                                  /\ DecKeepsTurns /\ DecKeepsFlow /\ ~coder.closeThreads /\ coder.finished1
                                  /\ coder'.cs = coder.cs
<1>1. coder \in Dec!DecoderType /\ th \in [Dec!Threads -> Dec!ThreadType]
  BY DEF Dec!TypeOK
<1> QED
  BY <1>1 DEF Dec!EnterCS, Dec!CloseThread, Dec!SeeFinished, Dec!Goto, DecMoves, DecKeepsBlock, DecKeepsEvents,
     DecKeepsTurns, DecKeepsFlow, DecKeepsFlags, Dec!DecoderType, Dec!ThreadType

LEMMA DecReadEffect ==
  ASSUME Dec!TypeOK, NEW t \in Dec!Threads
  PROVE  /\ Dec!ReadBlock(t) =>
              /\ DecMoves(t, "inside", "decode") /\ DecKeepsEvents(t) /\ DecKeepsTurns /\ DecKeepsFlags
              /\ th'[t].block = io.read + 1 /\ th'[t].slot = coder.next
              /\ coder'.next = Dec!NextSlot(coder.next) /\ coder'.cs = Dec!Nobody
              /\ io'.read = io.read + 1 /\ io'.written = io.written
              /\ ~coder.closeThreads /\ ~coder.finished1 /\ io.read < Len(io.input.blocks)
         /\ Dec!ReadEnd(t) =>
              /\ DecMoves(t, "inside", "finish") /\ DecKeepsBlock(t) /\ DecKeepsEvents(t) /\ DecKeepsTurns
              /\ coder'.finished1 = coder.finished1 /\ coder'.finished2 = coder.finished2
              /\ coder'.result2 = coder.result2 /\ coder'.cs = coder.cs /\ io' = io
              /\ coder'.result1 = IF io.input.end \in {"data", "crc", "read"}
                                  THEN Dec!HResult(io.input.end) ELSE "ok"
              /\ ~coder.closeThreads /\ ~coder.finished1 /\ io.read = Len(io.input.blocks)
<1>1. coder \in Dec!DecoderType /\ th \in [Dec!Threads -> Dec!ThreadType] /\ io \in Dec!IoType
  BY DEF Dec!TypeOK
<1>2. CASE Dec!ReadBlock(t)
  <2>1. th' = [th EXCEPT ![t].pc = "decode", ![t].block = io.read + 1, ![t].slot = coder.next]
    BY <1>2 DEF Dec!ReadBlock
  <2>2. /\ DecMoves(t, "inside", "decode") /\ DecKeepsEvents(t) /\ DecKeepsTurns
        /\ th'[t].block = io.read + 1 /\ th'[t].slot = coder.next
    BY <1>1, <1>2, <2>1 DEF Dec!ReadBlock, Dec!Reading, DecMoves, DecKeepsEvents, DecKeepsTurns, Dec!ThreadType
  <2>3. /\ DecKeepsFlags /\ coder'.next = Dec!NextSlot(coder.next) /\ coder'.cs = Dec!Nobody
        /\ io'.read = io.read + 1 /\ io'.written = io.written
        /\ ~coder.closeThreads /\ ~coder.finished1 /\ io.read < Len(io.input.blocks)
    BY <1>1, <1>2 DEF Dec!ReadBlock, Dec!Reading, DecKeepsFlags, Dec!DecoderType, Dec!IoType
  <2> QED
    BY <2>2, <2>3 DEF Dec!ReadBlock, Dec!ReadEnd
<1>3. CASE Dec!ReadEnd(t)
  <2>1. DecMoves(t, "inside", "finish") /\ DecKeepsBlock(t) /\ DecKeepsEvents(t) /\ DecKeepsTurns
    BY <1>1, <1>3 DEF Dec!ReadEnd, Dec!Reading, Dec!Goto, DecMoves, DecKeepsBlock, DecKeepsEvents, DecKeepsTurns,
       Dec!ThreadType
  <2>2. /\ coder'.finished1 = coder.finished1 /\ coder'.finished2 = coder.finished2
        /\ coder'.result2 = coder.result2 /\ coder'.cs = coder.cs /\ io' = io
        /\ coder'.result1 = IF io.input.end \in {"data", "crc", "read"}
                            THEN Dec!HResult(io.input.end) ELSE "ok"
        /\ ~coder.closeThreads /\ ~coder.finished1 /\ io.read = Len(io.input.blocks)
    BY <1>1, <1>3 DEF Dec!ReadEnd, Dec!Reading, Dec!DecoderType
  <2> QED
    BY <1>3, <2>1, <2>2 DEF Dec!ReadBlock, Dec!ReadEnd
<1> QED
  BY <1>2, <1>3

LEMMA DecTurnEffect ==
  ASSUME Dec!TypeOK, NEW t \in Dec!Threads
  PROVE  /\ th[t].slot \in Dec!Threads /\ Dec!NextSlot(th[t].slot) \in Dec!Threads
         /\ Dec!TakeTurn(t) =>
              /\ DecMoves(t, "decode", "write") /\ DecKeepsBlock(t) /\ DecKeepsEvents(t) /\ DecKeepsFlow
              /\ coder'.cs = coder.cs /\ th[th[t].slot].canWrite
              /\ \A u \in Dec!Threads : th'[u].canWrite <=> (th[u].canWrite /\ u # th[t].slot)
         /\ Dec!PassTurn(t) =>
              /\ DecMoves(t, "pass", IF th[t].stops THEN "stop" ELSE "wait")
              /\ DecKeepsBlock(t) /\ DecKeepsEvents(t) /\ DecKeepsFlow /\ coder'.cs = coder.cs
              /\ \A u \in Dec!Threads :
                   th'[u].canWrite <=> (th[u].canWrite \/ u = Dec!NextSlot(th[t].slot))
<1> USE DecSlotProperties
<1>1. coder \in Dec!DecoderType /\ th \in [Dec!Threads -> Dec!ThreadType]
  BY DEF Dec!TypeOK
<1>2. th[t].slot \in Dec!Threads /\ Dec!NextSlot(th[t].slot) \in Dec!Threads
  BY <1>1 DEF Dec!ThreadType
<1>3. CASE Dec!TakeTurn(t)
  <2> DEFINE taken == [th EXCEPT ![th[t].slot].canWrite = FALSE]
  <2>1. /\ taken \in [Dec!Threads -> Dec!ThreadType]
        /\ \A u \in Dec!Threads : /\ taken[u].canWrite <=> (th[u].canWrite /\ u # th[t].slot)
                                  /\ taken[u].block = th[u].block /\ taken[u].slot = th[u].slot
                                  /\ taken[u].stops = th[u].stops
                                  /\ taken[u].finished = th[u].finished
                                  /\ taken[u].started = th[u].started
    <3>1. taken \in [Dec!Threads -> Dec!ThreadType]
      BY <1>1, <1>2 DEF Dec!ThreadType
    <3>2. taken[th[t].slot] = [th[th[t].slot] EXCEPT !.canWrite = FALSE]
      BY <1>1, <1>2
    <3>3. \A u \in Dec!Threads \ {th[t].slot} : taken[u] = th[u]
      BY <1>1, <1>2
    <3> QED
      BY <1>1, <1>2, <3>1, <3>2, <3>3 DEF Dec!ThreadType
  <2>2. th' = [taken EXCEPT ![t].pc = "write"] /\ th[t].pc = "decode" /\ th[th[t].slot].canWrite
    BY <1>1, <1>2, <1>3 DEF Dec!TakeTurn
  <2> HIDE DEF taken
  <2>3. DecMoves(t, "decode", "write") /\ DecKeepsBlock(t) /\ DecKeepsEvents(t)
    BY <2>1, <2>2 DEF DecMoves, DecKeepsBlock, DecKeepsEvents, Dec!ThreadType
  <2>4. \A u \in Dec!Threads : th'[u].canWrite <=> (th[u].canWrite /\ u # th[t].slot)
    BY <2>1, <2>2 DEF Dec!ThreadType
  <2> QED
    BY <1>2, <1>3, <2>2, <2>3, <2>4 DEF Dec!TakeTurn, Dec!PassTurn, DecKeepsFlow, DecKeepsFlags
<1>4. CASE Dec!PassTurn(t)
  <2> DEFINE p == IF th[t].stops THEN "stop" ELSE "wait"
             moved == [th EXCEPT ![t].pc = p]
             n == Dec!NextSlot(th[t].slot)
  <2>1. /\ moved \in [Dec!Threads -> Dec!ThreadType]
        /\ moved[t].pc = p
        /\ \A u \in Dec!Threads : /\ moved[u].canWrite = th[u].canWrite
                                  /\ moved[u].block = th[u].block /\ moved[u].slot = th[u].slot
                                  /\ moved[u].stops = th[u].stops
                                  /\ moved[u].finished = th[u].finished
                                  /\ moved[u].started = th[u].started
    BY <1>1 DEF Dec!ThreadType, Dec!ThreadPcs
  <2>2. th' = [moved EXCEPT ![n].canWrite = TRUE] /\ th[t].pc = "pass" /\ n \in Dec!Threads
    BY <1>1, <1>2, <1>4 DEF Dec!PassTurn
  <2> HIDE DEF moved, p, n
  <2>3. DecMoves(t, "pass", p) /\ DecKeepsBlock(t) /\ DecKeepsEvents(t)
    BY <2>1, <2>2 DEF DecMoves, DecKeepsBlock, DecKeepsEvents, Dec!ThreadType
  <2>4. \A u \in Dec!Threads : th'[u].canWrite <=> (th[u].canWrite \/ u = n)
    BY <2>1, <2>2 DEF Dec!ThreadType
  <2> QED
    BY <1>2, <1>4, <2>2, <2>3, <2>4 DEF Dec!TakeTurn, Dec!PassTurn, DecKeepsFlow, DecKeepsFlags, p, n
<1> QED
  BY <1>2, <1>3, <1>4

LEMMA DecWriteEffect ==
  ASSUME Dec!TypeOK, NEW t \in Dec!Threads, Dec!DecodeBlock(t)
  PROVE  LET res == Dec!HResult(io.input.blocks[th[t].block]) IN
         /\ DecMoves(t, "write", "pass") /\ DecKeepsEvents(t) /\ DecKeepsTurns
         /\ th'[t].block = th[t].block /\ th'[t].slot = th[t].slot
         /\ coder'.cs = coder.cs /\ coder'.next = coder.next /\ coder'.result1 = coder.result1
         /\ coder'.finished1 = coder.finished1 /\ io'.read = io.read
         /\ coder.finished2 => /\ coder'.finished2 /\ coder'.result2 = coder.result2
                               /\ io'.written = io.written
         /\ ~coder.finished2 => /\ io'.written = Append(io.written, th[t].block)
                                /\ th'[t].stops = (res # "ok") /\ coder'.finished2 = (res # "ok")
                                /\ coder'.result2 = IF res = "ok" THEN coder.result2 ELSE res
<1>1. coder \in Dec!DecoderType /\ th \in [Dec!Threads -> Dec!ThreadType] /\ io \in Dec!IoType
  BY DEF Dec!TypeOK
<1> DEFINE res == Dec!HResult(io.input.blocks[th[t].block])
<1>2. /\ DecMoves(t, "write", "pass") /\ DecKeepsEvents(t) /\ DecKeepsTurns
      /\ th'[t].block = th[t].block /\ th'[t].slot = th[t].slot
      /\ ~coder.finished2 => th'[t].stops = (res # "ok")
  BY <1>1 DEF Dec!DecodeBlock, DecMoves, DecKeepsEvents, DecKeepsTurns, Dec!ThreadType
<1>3. /\ coder'.cs = coder.cs /\ coder'.next = coder.next /\ coder'.result1 = coder.result1
      /\ coder'.finished1 = coder.finished1 /\ io'.read = io.read
      /\ coder.finished2 => /\ coder'.finished2 /\ coder'.result2 = coder.result2
                            /\ io'.written = io.written
  BY <1>1 DEF Dec!DecodeBlock, Dec!DecoderType, Dec!IoType
<1>4. ~coder.finished2 => /\ io'.written = Append(io.written, th[t].block)
                          /\ coder'.finished2 = (res # "ok")
                          /\ coder'.result2 = IF res = "ok" THEN coder.result2 ELSE res
  BY <1>1 DEF Dec!DecodeBlock, Dec!DecoderType, Dec!IoType
<1> QED
  BY <1>2, <1>3, <1>4

LEMMA DecRestEffect ==
  ASSUME Dec!TypeOK, NEW t \in Dec!Threads
  PROVE  /\ Dec!Stop(t) => /\ DecMoves(t, "stop", "rest") /\ DecKeepsBlock(t) /\ DecKeepsTurns /\ DecKeepsFlow
                           /\ th'[t].finished /\ th'[t].started = th[t].started /\ coder'.cs = coder.cs
         /\ Dec!FinishStream(t) =>
              /\ DecMoves(t, "finish", "rest") /\ DecKeepsBlock(t) /\ DecKeepsTurns
              /\ th'[t].finished /\ th'[t].started = th[t].started
              /\ coder'.finished1 /\ coder'.finished2 = coder.finished2 /\ coder'.next = coder.next
              /\ coder'.result1 = coder.result1 /\ coder'.result2 = coder.result2
              /\ coder'.cs = Dec!Nobody /\ io' = io
         /\ Dec!StartWaiting(t) =>
              /\ DecMoves(t, "rest", "wait") /\ DecKeepsBlock(t) /\ DecKeepsTurns /\ DecKeepsFlow
              /\ th'[t].started /\ th'[t].finished = th[t].finished /\ coder'.cs = coder.cs
              /\ coder.canStartWaiting
<1>1. coder \in Dec!DecoderType /\ th \in [Dec!Threads -> Dec!ThreadType]
  BY DEF Dec!TypeOK
<1>2. CASE Dec!Stop(t)
  BY <1>1, <1>2 DEF Dec!Stop, Dec!FinishStream, Dec!StartWaiting, DecMoves, DecKeepsBlock, DecKeepsTurns, DecKeepsFlow,
     DecKeepsFlags, Dec!ThreadType
<1>3. CASE Dec!FinishStream(t)
  <2>1. DecMoves(t, "finish", "rest") /\ DecKeepsBlock(t) /\ DecKeepsTurns
    BY <1>1, <1>3 DEF Dec!FinishStream, DecMoves, DecKeepsBlock, DecKeepsTurns, Dec!ThreadType
  <2>2. th'[t].finished /\ th'[t].started = th[t].started
    BY <1>1, <1>3 DEF Dec!FinishStream, Dec!ThreadType
  <2>3. /\ coder'.finished1 /\ coder'.finished2 = coder.finished2 /\ coder'.next = coder.next
        /\ coder'.result1 = coder.result1 /\ coder'.result2 = coder.result2
        /\ coder'.cs = Dec!Nobody /\ io' = io
    BY <1>1, <1>3 DEF Dec!FinishStream, Dec!DecoderType
  <2> QED
    BY <1>3, <2>1, <2>2, <2>3 DEF Dec!Stop, Dec!FinishStream, Dec!StartWaiting
<1>4. CASE Dec!StartWaiting(t)
  BY <1>1, <1>4 DEF Dec!Stop, Dec!FinishStream, Dec!StartWaiting, DecMoves, DecKeepsBlock, DecKeepsTurns, DecKeepsFlow,
     DecKeepsFlags, Dec!ThreadType
<1> QED
  BY <1>2, <1>3, <1>4

-----------------------------------------------------------------------------
(* The critical section, the turn and the rendezvous under a step of a     *)
(* thread.                                                                 *)

(* CS is left by the thread that is in it, in ReadBlock, CloseThread and   *)
(* FinishStream, and entered by nobody else before.                        *)
LEMMA DecThreadSection ==
  ASSUME Dec!IInv, NEW t \in Dec!Threads, Dec!ThreadStep(t)
  PROVE  Dec!SectionIsOwned'
<1> USE DecSlotProperties
<1>1. Dec!TypeOK /\ Dec!SectionIsOwned
  BY DEF Dec!IInv
<1>2. \A u \in Dec!Threads \ {t} : th'[u].pc = th[u].pc
  BY <1>1, DecThreadFrame
<1>3. coder.cs # Dec!Nobody => coder.cs \in Dec!Threads
  BY <1>1 DEF Dec!TypeOK, Dec!DecoderType, Dec!Nobody, Dec!Threads
<1>4. CASE Dec!EnterCS(t)
  BY <1>1, <1>2, <1>4, DecSectionEffect DEF Dec!SectionIsOwned, DecMoves
<1>5. CASE Dec!CloseThread(t) \/ Dec!ReadBlock(t) \/ Dec!FinishStream(t)
  <2>1. th[t].pc \in {"inside", "finish"} /\ th'[t].pc \notin {"inside", "finish"} /\ coder'.cs = Dec!Nobody
    BY <1>1, <1>5, DecSectionEffect, DecReadEffect, DecRestEffect DEF DecMoves
  <2> QED
    BY <1>1, <1>2, <2>1 DEF Dec!SectionIsOwned
<1>6. CASE Dec!SeeFinished(t) \/ Dec!ReadEnd(t)
  <2>1. th[t].pc = "inside" /\ th'[t].pc = "finish" /\ coder'.cs = coder.cs
    BY <1>1, <1>6, DecSectionEffect, DecReadEffect DEF DecMoves
  <2> QED
    BY <1>1, <1>2, <1>3, <2>1 DEF Dec!SectionIsOwned
<1>7. CASE Dec!TakeTurn(t) \/ Dec!DecodeBlock(t) \/ Dec!PassTurn(t) \/ Dec!Stop(t) \/ Dec!StartWaiting(t)
  <2>1. /\ th[t].pc \notin {"inside", "finish"} /\ th'[t].pc \notin {"inside", "finish"}
        /\ coder'.cs = coder.cs
    BY <1>1, <1>7, DecTurnEffect, DecWriteEffect, DecRestEffect DEF DecMoves
  <2> QED
    BY <1>1, <1>2, <1>3, <2>1 DEF Dec!SectionIsOwned
<1> QED
  BY <1>4, <1>5, <1>6, <1>7 DEF Dec!ThreadStep

(* All steps but TakeTurn and PassTurn leave the turn where it is.         *)
LEMMA DecTurnStays ==
  ASSUME Dec!TypeOK, NEW t \in Dec!Threads, Dec!ThreadStep(t), ~Dec!TakeTurn(t), ~Dec!PassTurn(t)
  PROVE  /\ DecKeepsTurns
         /\ th[t].pc # "write" => th[t].pc # "pass" /\ th'[t].pc \notin {"write", "pass"}
         /\ th[t].pc = "write" => Dec!DecodeBlock(t)
BY DecSectionEffect, DecReadEffect, DecWriteEffect, DecRestEffect DEF Dec!ThreadStep, DecMoves

(* The turn is taken from the event of a slot by one thread and put into   *)
(* the event of the next.                                                  *)
LEMMA DecThreadTurn ==
  ASSUME Dec!IInv, NEW t \in Dec!Threads, Dec!ThreadStep(t)
  PROVE  Dec!OneTurn'
<1>1. Dec!TypeOK /\ Dec!OneTurn
  BY DEF Dec!IInv
<1>2. \A u \in Dec!Threads \ {t} : th'[u].pc = th[u].pc
  BY <1>1, DecThreadFrame
<1>3. CASE Dec!TakeTurn(t)
  BY <1>1, <1>2, <1>3, DecTurnEffect, SMTT(30) DEF Dec!OneTurn, DecMoves
<1>4. CASE Dec!PassTurn(t)
  <2>1. /\ th[t].pc = "pass" /\ th'[t].pc \in {"wait", "stop"}
        /\ \A u \in Dec!Threads : th'[u].canWrite <=> (th[u].canWrite \/ u = Dec!NextSlot(th[t].slot))
    BY <1>1, <1>4, DecTurnEffect DEF DecMoves
  <2> QED
    BY <1>1, <1>2, <2>1 DEF Dec!OneTurn
<1>5. CASE ~Dec!TakeTurn(t) /\ ~Dec!PassTurn(t)
  <2>1. DecKeepsTurns /\ (th'[t].pc \in {"write", "pass"} => th[t].pc = "write")
    BY <1>1, <1>5, DecTurnStays
  <2> QED
    BY <1>1, <1>2, <2>1 DEF Dec!OneTurn, DecKeepsTurns
<1> QED
  BY <1>3, <1>4, <1>5

(* Which steps there are in each phase of the calling thread.              *)
LEMMA DecStepsOfPhase ==
  ASSUME Dec!IInv, NEW t \in Dec!Threads, Dec!ThreadStep(t)
  PROVE  /\ main.pc \in {"finished", "started", "close"}
         /\ main.pc = "finished" => ~Dec!CloseThread(t) /\ ~Dec!StartWaiting(t) /\ th[t].pc # "rest"
         /\ main.pc = "started" => Dec!StartWaiting(t)
         /\ main.pc = "close" => Dec!EnterCS(t) \/ Dec!CloseThread(t)
<1>1. Dec!TypeOK /\ Dec!Phases /\ Dec!Rendezvous(t) /\ main \in Dec!MainType
  BY DEF Dec!IInv, Dec!TypeOK
<1>2. CASE main.pc \in {"idle", "reset"}
  <2>1. th[t].pc = "wait" /\ ~coder.canProcess
    BY <1>1, <1>2 DEF Dec!Rendezvous, Dec!Phases
  <2> QED
    BY <1>1, <2>1, DecSectionEffect, DecReadEffect, DecTurnEffect, DecWriteEffect, DecRestEffect
       DEF Dec!ThreadStep, DecMoves
<1>3. CASE main.pc = "finished"
  <2>1. ~coder.closeThreads /\ ~coder.canStartWaiting
    BY <1>1, <1>3 DEF Dec!Phases
  <2>2. ~Dec!CloseThread(t) /\ ~Dec!StartWaiting(t)
    BY <1>1, <2>1, DecSectionEffect, DecRestEffect
  <2>3. th[t].pc # "rest"
    BY <1>1, <2>2, DecSectionEffect, DecReadEffect, DecTurnEffect, DecWriteEffect, DecRestEffect
       DEF Dec!ThreadStep, DecMoves
  <2> QED
    BY <1>3, <2>2, <2>3
<1>4. CASE main.pc = "started"
  <2>1. th[t].pc \in {"rest", "wait"} /\ ~coder.canProcess
    BY <1>1, <1>4 DEF Dec!Rendezvous, Dec!Phases
  <2> QED
    BY <1>1, <1>4, <2>1, DecSectionEffect, DecReadEffect, DecTurnEffect, DecWriteEffect, DecRestEffect
       DEF Dec!ThreadStep, DecMoves
<1>5. CASE main.pc = "close"
  <2>1. th[t].pc \in {"wait", "inside", "exited"} /\ coder.closeThreads
    BY <1>1, <1>5 DEF Dec!Rendezvous, Dec!Phases
  <2> QED
    BY <1>1, <1>5, <2>1, DecSectionEffect, DecReadEffect, DecTurnEffect, DecWriteEffect, DecRestEffect
       DEF Dec!ThreadStep, DecMoves
<1>6. CASE main.pc = "done"
  <2>1. th[t].pc = "exited"
    BY <1>1, <1>6 DEF Dec!Rendezvous
  <2> QED
    BY <1>1, <2>1, DecSectionEffect, DecReadEffect, DecTurnEffect, DecWriteEffect, DecRestEffect
       DEF Dec!ThreadStep, DecMoves
<1> QED
  BY <1>1, <1>2, <1>3, <1>4, <1>5, <1>6 DEF Dec!MainType

(* A thread that is at rest stays there until CanStartWaitingEvent, and    *)
(* one that is back at its start until CanProcessEvent.                    *)
LEMMA DecThreadRendezvous ==
  ASSUME Dec!IInv, NEW t \in Dec!Threads, Dec!ThreadStep(t)
  PROVE  \A u \in Dec!Threads : Dec!Rendezvous(u)'
<1> USE DecSlotProperties
<1>1. Dec!TypeOK /\ Dec!Rendezvous(t) /\ main.t \in 0..NumThreads
  BY DEF Dec!IInv, Dec!TypeOK, Dec!MainType
<1>2. main' = main
  BY <1>1, DecThreadFrame
<1>3. ASSUME NEW u \in Dec!Threads \ {t} PROVE Dec!Rendezvous(u)'
  <2>1. /\ th'[u].pc = th[u].pc
        /\ th'[u].finished = th[u].finished /\ th'[u].started = th[u].started
    BY <1>1, DecThreadFrame
  <2> QED
    BY <1>2, <2>1 DEF Dec!IInv, Dec!Rendezvous
<1>4. Dec!Rendezvous(t)'
  <2>1. CASE main.pc = "finished"
    <3>1. /\ ~th[t].started /\ ~th[t].finished /\ ~(t < main.t)
          /\ ~Dec!CloseThread(t) /\ ~Dec!StartWaiting(t)
      BY <1>1, <2>1, DecStepsOfPhase DEF Dec!Rendezvous
    <3> main.t <= t
      BY <1>1, <3>1 DEF Dec!Threads
    <3>2. CASE Dec!Stop(t) \/ Dec!FinishStream(t)
      <4>1. th'[t].pc = "rest" /\ th'[t].finished /\ ~th'[t].started
        BY <1>1, <3>1, <3>2, DecRestEffect DEF DecMoves
      <4> QED
        BY <1>1, <1>2, <2>1, <3>1, <4>1 DEF Dec!Rendezvous
    <3>3. CASE ~(Dec!Stop(t) \/ Dec!FinishStream(t))
      <4>1. th'[t].pc \notin {"rest", "exited"} /\ DecKeepsEvents(t)
        BY <1>1, <3>1, <3>3, DecSectionEffect, DecReadEffect, DecTurnEffect, DecWriteEffect
           DEF Dec!ThreadStep, DecMoves
      <4> QED
        BY <1>1, <1>2, <2>1, <3>1, <4>1 DEF Dec!Rendezvous, DecKeepsEvents
    <3> QED
      BY <3>2, <3>3
  <2>2. CASE main.pc = "started"
    <3>1. /\ th[t].pc = "rest" /\ th'[t].pc = "wait" /\ th'[t].started
          /\ th'[t].finished = th[t].finished
      BY <1>1, <2>2, DecStepsOfPhase, DecRestEffect DEF DecMoves
    <3>2. ~th[t].finished /\ ~(t < main.t)
      BY <1>1, <2>2, <3>1 DEF Dec!Rendezvous
    <3> main.t <= t
      BY <1>1, <3>2 DEF Dec!Threads
    <3> QED
      BY <1>1, <1>2, <2>2, <3>1, <3>2 DEF Dec!Rendezvous
  <2>3. CASE main.pc = "close"
    <3>1. th'[t].pc \in {"inside", "exited"}
      BY <1>1, <2>3, DecStepsOfPhase, DecSectionEffect DEF DecMoves
    <3> QED
      BY <1>2, <2>3, <3>1 DEF Dec!Rendezvous
  <2> QED
    BY <2>1, <2>2, <2>3, DecStepsOfPhase
<1> QED
  BY <1>3, <1>4

-----------------------------------------------------------------------------
(* The blocks under a step of a thread.                                    *)

(* Blocks that are held by one thread each are no more than there are      *)
(* threads.                                                                *)
LEMMA DecPigeonhole ==
  ASSUME NEW a \in Nat, NEW b \in Nat, NEW holder \in [(a + 1)..b -> Dec!Threads],
         \A j, k \in (a + 1)..b : holder[j] = holder[k] => j = k
  PROVE  b - a <= NumThreads
<1>1. IsFiniteSet(Dec!Threads) /\ Cardinality(Dec!Threads) = NumThreads
  BY DecSlotProperties, FS_Interval DEF Dec!Threads
<1>2. holder \in Injection((a + 1)..b, Dec!Threads)
  BY DEF Injection, IsInjective
<1>3. Cardinality((a + 1)..b) <= NumThreads
  BY <1>1, <1>2, FS_Injection
<1>4. Cardinality((a + 1)..b) = IF a + 1 > b THEN 0 ELSE b - (a + 1) + 1
  BY FS_Interval
<1> QED
  BY <1>3, <1>4, DecSlotProperties

LEMMA DecWindow ==
  ASSUME Dec!TypeOK, Dec!BlocksAreHeld
  PROVE  io.read - Len(io.written) <= NumThreads
<1> DEFINE a == Len(io.written)
           holder == [b \in (a + 1)..io.read |-> CHOOSE t \in Dec!Threads : Dec!Holding(t) /\ th[t].block = b]
<1>1. \A b \in (a + 1)..io.read : holder[b] \in Dec!Threads /\ th[holder[b]].block = b
  BY DEF Dec!BlocksAreHeld
<1>2. a \in Nat /\ io.read \in Nat
  BY DecInputProperties, ConstantsAssumption
<1>3. holder \in [(a + 1)..io.read -> Dec!Threads]
  BY <1>1
<1> HIDE DEF holder
<1>4. \A j, k \in (a + 1)..io.read : holder[j] = holder[k] => j = k
  BY <1>1
<1> HIDE DEF a
<1>5. io.read - a <= NumThreads
  BY <1>2, <1>3, <1>4, DecPigeonhole
<1> QED
  BY <1>5 DEF a

(* The same while a thread that holds none reads the next one.             *)
LEMMA DecWindowOfReader ==
  ASSUME Dec!TypeOK, Dec!BlocksAreHeld, NEW t \in Dec!Threads, ~Dec!Holding(t)
  PROVE  io.read - Len(io.written) < NumThreads
<1> DEFINE a == Len(io.written)
           b == io.read + 1
           holder == [k \in (a + 1)..b |-> IF k = b THEN t
                        ELSE CHOOSE u \in Dec!Threads : Dec!Holding(u) /\ th[u].block = k]
<1>1. a \in Nat /\ io.read \in Nat /\ b \in Nat
  BY DecInputProperties, ConstantsAssumption
<1>2. \A k \in (a + 1)..b : k # b => /\ holder[k] \in Dec!Threads /\ holder[k] # t
                                     /\ th[holder[k]].block = k
  <2> SUFFICES ASSUME NEW k \in (a + 1)..b, k # b
               PROVE  /\ holder[k] \in Dec!Threads /\ holder[k] # t
                      /\ th[holder[k]].block = k
    OBVIOUS
  <2>1. k \in (a + 1)..io.read
    BY <1>1
  <2>2. \E u \in Dec!Threads : Dec!Holding(u) /\ th[u].block = k
    BY <2>1 DEF Dec!BlocksAreHeld
  <2>3. holder[k] = CHOOSE u \in Dec!Threads : Dec!Holding(u) /\ th[u].block = k
    OBVIOUS
  <2> QED
    BY <2>2, <2>3
<1>3. \A k \in (a + 1)..b : k = b => holder[k] = t
  OBVIOUS
<1>4. holder \in [(a + 1)..b -> Dec!Threads]
  BY <1>2, <1>3
<1> HIDE DEF holder
<1>5. \A j, k \in (a + 1)..b : holder[j] = holder[k] => j = k
  BY <1>2, <1>3
<1>6. b - a <= NumThreads
  BY <1>1, <1>4, <1>5, DecPigeonhole
<1> QED
  BY <1>1, <1>6, DecSlotProperties

(* The thread that writes has the first block that is not written.         *)
LEMMA DecWriterHasFirst ==
  ASSUME Dec!TypeOK, Dec!BlocksAreHeld, Dec!SlotsFollowTurn, NEW t \in Dec!Threads, th[t].pc = "write"
  PROVE  th[t].block = Len(io.written) + 1 /\ Len(io.written) + 1 <= io.read
<1> DEFINE d == th[t].block - Len(io.written) - 1
<1>1. th[t].slot \in Dec!Threads /\ Dec!TurnAt(th[t].slot) /\ Dec!Holding(t)
  BY DecTurnEffect DEF Dec!TurnAt, Dec!Holding
<1>2. th[t].block \in (Len(io.written) + 1)..io.read /\ Dec!Ahead(th[t].slot, th[t].slot, d)
  BY <1>1 DEF Dec!BlocksAreHeld, Dec!SlotsFollowTurn
<1>3. io.read - Len(io.written) <= NumThreads /\ Len(io.written) \in Nat /\ io.read \in Nat
  BY DecWindow, DecInputProperties, ConstantsAssumption
<1>4. d \in Nat /\ d < NumThreads
  BY <1>2, <1>3, DecSlotProperties
<1> HIDE DEF d
<1>5. d = 0
  BY <1>1, <1>2, <1>4, DecAheadSame, DecSlotProperties
<1> QED
  BY <1>2, <1>3, <1>5 DEF d

(* StreamWasFinished2 stays set, and a thread that fails sets it.          *)
LEMMA DecFinished2Stays ==
  ASSUME Dec!TypeOK, NEW t \in Dec!Threads, Dec!ThreadStep(t), ~coder'.finished2
  PROVE  ~coder.finished2
BY DecSectionEffect, DecReadEffect, DecTurnEffect, DecWriteEffect, DecRestEffect
   DEF Dec!ThreadStep, DecKeepsFlow, DecKeepsFlags

LEMMA DecThreadHeld ==
  ASSUME Dec!IInv, NEW t \in Dec!Threads, Dec!ThreadStep(t), main.pc \in {"finished", "started"},
         ~coder'.finished2
  PROVE  Dec!BlocksAreHeld'
<1>1. /\ Dec!TypeOK /\ Dec!BlocksAreHeld /\ Dec!SlotsFollowTurn /\ ~coder.finished2
      /\ Len(io.written) \in Nat /\ io.read \in Nat
  BY DecFinished2Stays, DecInputProperties, ConstantsAssumption DEF Dec!IInv, Dec!InCall
<1>2. \A u \in Dec!Threads \ {t} : th'[u].pc = th[u].pc /\ th'[u].block = th[u].block
  BY <1>1, DecThreadFrame
<1>3. CASE Dec!ReadBlock(t)
  <2>1. /\ ~Dec!Holding(t) /\ Dec!Holding(t)' /\ th'[t].block = io.read + 1
        /\ io'.read = io.read + 1 /\ io'.written = io.written
    BY <1>1, <1>3, DecReadEffect DEF DecMoves, Dec!Holding
  <2>2. \A u \in Dec!Threads \ {t} : Dec!Holding(u)' <=> Dec!Holding(u)
    BY <1>2 DEF Dec!Holding
  <2>3. Len(io.written) <= io.read
    BY <1>1 DEF Dec!BlocksAreHeld
  <2>4. \A u \in Dec!Threads \ {t} : Dec!Holding(u) => th[u].block \in (Len(io.written) + 1)..io.read
    BY <1>1 DEF Dec!BlocksAreHeld
  <2>5. \A u, v \in Dec!Threads : Dec!Holding(u)' /\ Dec!Holding(v)' /\ th'[u].block = th'[v].block => u = v
    BY <1>1, <1>2, <2>1, <2>2, <2>4 DEF Dec!BlocksAreHeld
  <2>6. \A b \in (Len(io.written) + 1)..(io.read + 1) :
          \E u \in Dec!Threads : Dec!Holding(u)' /\ th'[u].block = b
    <3>1. ASSUME NEW b \in (Len(io.written) + 1)..(io.read + 1), b # io.read + 1
          PROVE  \E u \in Dec!Threads : Dec!Holding(u)' /\ th'[u].block = b
      <4>1. PICK u \in Dec!Threads : Dec!Holding(u) /\ th[u].block = b
        BY <1>1, <3>1 DEF Dec!BlocksAreHeld
      <4> QED
        BY <1>2, <2>1, <2>2, <4>1
    <3> QED
      BY <2>1, <3>1
  <2>7. \A u \in Dec!Threads : Dec!Holding(u)' => th'[u].block \in (Len(io.written) + 1)..(io.read + 1)
    BY <1>1, <1>2, <2>1, <2>2, <2>3, <2>4
  <2> QED
    BY <1>1, <2>1, <2>3, <2>5, <2>6, <2>7 DEF Dec!BlocksAreHeld
<1>4. CASE Dec!DecodeBlock(t)
  <2>1. th[t].block = Len(io.written) + 1 /\ Len(io.written) + 1 <= io.read
    BY <1>1, <1>4, DecWriterHasFirst DEF Dec!DecodeBlock
  <2>2. /\ Dec!Holding(t) /\ ~Dec!Holding(t)' /\ th'[t].block = th[t].block
        /\ io'.read = io.read /\ io'.written = Append(io.written, th[t].block)
    BY <1>1, <1>4, DecWriteEffect DEF DecMoves, Dec!Holding
  <2>3. Len(io'.written) = Len(io.written) + 1
    BY <1>1, <2>2, DecInputProperties, AppendProperties, <2>1 DEF Dec!TypeOK, Dec!ThreadType
  <2>4. \A u \in Dec!Threads \ {t} : Dec!Holding(u)' <=> Dec!Holding(u)
    BY <1>2 DEF Dec!Holding
  <2> QED
    BY <1>1, <1>2, <2>1, <2>2, <2>3, <2>4 DEF Dec!BlocksAreHeld
<1>5. CASE ~Dec!ReadBlock(t) /\ ~Dec!DecodeBlock(t)
  <2>1. (Dec!Holding(t)' <=> Dec!Holding(t)) /\ th'[t].block = th[t].block /\ io' = io
    BY <1>1, <1>5, DecSectionEffect, DecReadEffect, DecTurnEffect, DecRestEffect
       DEF Dec!ThreadStep, DecMoves, DecKeepsBlock, DecKeepsFlow, Dec!Holding
  <2>2. \A u \in Dec!Threads : (Dec!Holding(u)' <=> Dec!Holding(u)) /\ th'[u].block = th[u].block
    BY <1>2, <2>1 DEF Dec!Holding
  <2> QED
    BY <1>1, <2>1, <2>2 DEF Dec!BlocksAreHeld
<1> QED
  BY <1>3, <1>4, <1>5

(* While no thread has seen the end of the input, NextBlockIndex is right. *)
LEMMA DecAtEndStays ==
  ASSUME Dec!IInv, NEW t \in Dec!Threads, Dec!ThreadStep(t)
  PROVE  /\ Dec!AtEnd => Dec!AtEnd'
         /\ ~Dec!AtEnd' => Dec!ReadBlock(t) \/ coder'.next = coder.next
<1>1. Dec!TypeOK /\ \A u \in Dec!Threads \ {t} : th'[u].pc = th[u].pc
  BY DecThreadFrame DEF Dec!IInv
<1>2. coder.finished1 => coder'.finished1
  BY <1>1, DecSectionEffect, DecReadEffect, DecTurnEffect, DecWriteEffect, DecRestEffect
     DEF Dec!ThreadStep, DecKeepsFlow, DecKeepsFlags
<1>3. th[t].pc = "finish" => coder'.finished1
  BY <1>1, DecSectionEffect, DecReadEffect, DecTurnEffect, DecWriteEffect, DecRestEffect
     DEF Dec!ThreadStep, DecMoves
<1>4. Dec!AtEnd => Dec!AtEnd'
  BY <1>1, <1>2, <1>3 DEF Dec!AtEnd
<1>5. ~Dec!AtEnd' => Dec!ReadBlock(t) \/ coder'.next = coder.next
  <2>1. Dec!ReadEnd(t) => Dec!AtEnd'
    BY <1>1, DecReadEffect DEF Dec!AtEnd, DecMoves
  <2> QED
    BY <1>1, <2>1, DecSectionEffect, DecReadEffect, DecTurnEffect, DecWriteEffect, DecRestEffect
       DEF Dec!ThreadStep, DecKeepsFlow
<1> QED
  BY <1>4, <1>5

LEMMA DecThreadSlots ==
  ASSUME Dec!IInv, NEW t \in Dec!Threads, Dec!ThreadStep(t), main.pc \in {"finished", "started"},
         ~coder'.finished2
  PROVE  Dec!SlotsFollowTurn'
<1> DEFINE w == Len(io.written)
<1>1. /\ Dec!TypeOK /\ Dec!OneTurn /\ Dec!BlocksAreHeld /\ Dec!SlotsFollowTurn /\ ~coder.finished2
      /\ w \in Nat /\ io.read \in Nat /\ coder.next \in Dec!Threads
      /\ \A u \in Dec!Threads : th[u].slot \in Dec!Threads
  BY DecFinished2Stays, DecInputProperties, ConstantsAssumption
     DEF Dec!IInv, Dec!InCall, Dec!TypeOK, Dec!DecoderType, Dec!ThreadType
<1>2. \A u \in Dec!Threads \ {t} : /\ th'[u].pc = th[u].pc /\ th'[u].block = th[u].block
                                   /\ th'[u].slot = th[u].slot
  BY <1>1, DecThreadFrame
<1>3. w <= io.read /\ io.read - w <= NumThreads
  BY <1>1, DecWindow DEF Dec!BlocksAreHeld
<1>4. ASSUME NEW z \in Dec!Threads, Dec!TurnAt(z), NEW u \in Dec!Threads, Dec!Holding(u)
      PROVE  th[u].block - w - 1 \in Nat /\ th[u].block - w - 1 < NumThreads
  BY <1>1, <1>3, <1>4, DecSlotProperties DEF Dec!BlocksAreHeld
<1>5. CASE Dec!ReadBlock(t)
  <2>1. /\ ~Dec!Holding(t) /\ th'[t].block = io.read + 1 /\ th'[t].slot = coder.next
        /\ coder'.next = Dec!NextSlot(coder.next) /\ ~coder.finished1 /\ DecKeepsTurns
        /\ io'.read = io.read + 1 /\ io'.written = io.written
        /\ th[t].pc \notin {"write", "pass"} /\ th'[t].pc \notin {"write", "pass"}
    BY <1>1, <1>5, DecReadEffect DEF DecMoves, Dec!Holding
  <2>2. io.read - w < NumThreads
    BY <1>1, <2>1, DecWindowOfReader
  <2>9. Len(io'.written) = w
    BY <2>1 DEF w
  <2> SUFFICES ASSUME NEW z \in Dec!Threads, Dec!TurnAt(z)'
               PROVE  /\ Dec!AtEnd' \/ Dec!Ahead(z, coder'.next, io'.read - w)
                      /\ \A u \in Dec!Threads : Dec!Holding(u)' =>
                           Dec!Ahead(z, th'[u].slot, th'[u].block - w - 1)
    BY <2>9 DEF Dec!SlotsFollowTurn, Dec!Ahead
  <2>3. Dec!TurnAt(z)
    BY <1>1, <1>2, <2>1 DEF Dec!TurnAt, DecKeepsTurns
  <2>4. ~Dec!AtEnd
    <3>1. th[t].pc = "inside"
      BY <1>1, <1>5, DecReadEffect DEF DecMoves
    <3> QED
      BY <2>1, <3>1 DEF Dec!IInv, Dec!SectionIsOwned, Dec!AtEnd
  <2>5. Dec!Ahead(z, coder.next, io.read - w)
    BY <1>1, <2>3, <2>4 DEF Dec!SlotsFollowTurn, w
  <2>6. io.read - w \in Nat /\ io.read - w + 1 = io.read + 1 - w
    BY <1>1, <1>3
  <2>7. Dec!Ahead(z, Dec!NextSlot(coder.next), io.read + 1 - w)
    BY <1>1, <1>3, <2>2, <2>5, <2>6, DecAheadNext
  <2>8. ASSUME NEW u \in Dec!Threads, Dec!Holding(u)'
        PROVE  Dec!Ahead(z, th'[u].slot, th'[u].block - w - 1)
    <3>1. CASE u = t
      <4>1. th'[u].block - w - 1 = io.read - w
        BY <1>1, <2>1, <3>1
      <4> QED
        BY <2>1, <2>5, <3>1, <4>1
    <3>2. CASE u # t
      <4>1. Dec!Holding(u)
        BY <1>2, <2>8, <3>2 DEF Dec!Holding
      <4> QED
        BY <1>1, <1>2, <2>3, <3>2, <4>1 DEF Dec!SlotsFollowTurn, w
    <3> QED
      BY <3>1, <3>2
  <2>10. coder'.next = Dec!NextSlot(coder.next) /\ io'.read = io.read + 1
    BY <2>1
  <2>11. io'.read - w = io.read + 1 - w
    BY <1>1, <2>10
  <2>12. Dec!Ahead(z, coder'.next, io'.read - w)
    BY <2>7, <2>10, <2>11
  <2> QED
    BY <2>8, <2>12
<1>6. CASE Dec!DecodeBlock(t)
  <2> DEFINE s == th[t].slot
             n == Dec!NextSlot(s)
  <2>1. /\ th[t].pc = "write" /\ th'[t].pc = "pass" /\ ~Dec!Holding(t)' /\ DecKeepsTurns
        /\ th'[t].slot = s /\ coder'.next = coder.next /\ coder'.finished1 = coder.finished1
        /\ io'.read = io.read /\ io'.written = Append(io.written, th[t].block)
        /\ s \in Dec!Threads /\ n \in Dec!Threads
    BY <1>1, <1>6, DecWriteEffect, DecTurnEffect DEF DecMoves, Dec!Holding
  <2>2. th[t].block = w + 1 /\ w + 1 <= io.read
    BY <1>1, <2>1, DecWriterHasFirst DEF w
  <2>3. Len(io'.written) = w + 1
    BY <1>1, <2>1, DecInputProperties, AppendProperties DEF Dec!TypeOK, Dec!ThreadType, w
  <2>4. Dec!TurnAt(s)
    BY <2>1 DEF Dec!TurnAt
  <2> SUFFICES ASSUME NEW z \in Dec!Threads, Dec!TurnAt(z)'
               PROVE  /\ Dec!AtEnd' \/ Dec!Ahead(z, coder.next, io.read - (w + 1))
                      /\ \A u \in Dec!Threads : Dec!Holding(u)' =>
                           Dec!Ahead(z, th'[u].slot, th'[u].block - (w + 1) - 1)
    BY <2>1, <2>3 DEF Dec!SlotsFollowTurn, Dec!Ahead
  <2>5. z = n
    BY <1>1, <1>2, <2>1 DEF Dec!TurnAt, Dec!OneTurn, DecKeepsTurns
  <2>6. ~Dec!AtEnd' => Dec!Ahead(n, coder.next, io.read - (w + 1))
    <3>1. ~Dec!AtEnd' => Dec!Ahead(s, coder.next, io.read - w)
      BY <1>1, <2>1, <2>4, DecAtEndStays DEF Dec!SlotsFollowTurn, w
    <3>2. /\ io.read - w \in Nat /\ io.read - w > 0 /\ io.read - w <= NumThreads
          /\ io.read - w - 1 = io.read - (w + 1)
      BY <1>1, <1>3, <2>2
    <3> QED
      BY <1>1, <2>1, <3>1, <3>2, DecAheadNext
  <2>7. ASSUME NEW u \in Dec!Threads, Dec!Holding(u)'
        PROVE  Dec!Ahead(n, th'[u].slot, th'[u].block - (w + 1) - 1)
    <3>1. u # t /\ Dec!Holding(u) /\ th'[u].block = th[u].block /\ th'[u].slot = th[u].slot
      BY <1>2, <2>1, <2>7 DEF Dec!Holding
    <3>2. Dec!Ahead(s, th[u].slot, th[u].block - w - 1)
      BY <1>1, <2>1, <2>4, <3>1 DEF Dec!SlotsFollowTurn, w
    <3>3. th[u].block # w + 1
      BY <1>1, <2>1, <2>2, <3>1 DEF Dec!BlocksAreHeld, Dec!Holding
    <3>4. /\ th[u].block - w - 1 \in Nat /\ th[u].block - w - 1 <= NumThreads
          /\ th[u].block - w - 1 > 0
          /\ th[u].block - w - 1 - 1 = th[u].block - (w + 1) - 1
      <4>1. th[u].block - w - 1 \in Nat /\ th[u].block - w - 1 < NumThreads
        BY <1>4, <2>1, <2>4, <3>1
      <4>2. th[u].block \in Nat
        BY <1>1, <3>1 DEF Dec!BlocksAreHeld
      <4>3. w \in Nat /\ NumThreads \in Nat
        BY <1>1, DecSlotProperties
      <4> QED
        BY <3>3, <4>1, <4>2, <4>3
    <3> HIDE DEF s, n
    <3>5. Dec!Ahead(Dec!NextSlot(s), th[u].slot, th[u].block - w - 1 - 1)
      BY <1>1, <2>1, <3>2, <3>4, DecAheadNext
    <3> QED
      BY <3>1, <3>4, <3>5 DEF n
  <2> QED
    BY <2>5, <2>6, <2>7
<1>7. CASE ~Dec!ReadBlock(t) /\ ~Dec!DecodeBlock(t)
  <2>1. /\ (Dec!Holding(t)' <=> Dec!Holding(t)) /\ th'[t].block = th[t].block /\ io' = io
        /\ th'[t].slot = th[t].slot
    BY <1>1, <1>7, DecSectionEffect, DecReadEffect, DecTurnEffect, DecRestEffect
       DEF Dec!ThreadStep, DecMoves, DecKeepsBlock, DecKeepsFlow, Dec!Holding
  <2>2. \A u \in Dec!Threads : /\ Dec!Holding(u)' <=> Dec!Holding(u)
                               /\ th'[u].block = th[u].block /\ th'[u].slot = th[u].slot
    BY <1>2, <2>1 DEF Dec!Holding
  <2>3. ~Dec!AtEnd' => ~Dec!AtEnd /\ coder'.next = coder.next
    BY <1>7, DecAtEndStays
  <2>4. ASSUME NEW z \in Dec!Threads, Dec!TurnAt(z)' PROVE Dec!TurnAt(z)
    <3>1. CASE Dec!TakeTurn(t)
      BY <1>1, <1>2, <2>4, <3>1, DecTurnEffect, SMTT(30) DEF Dec!TurnAt, DecMoves, DecKeepsBlock
    <3>2. CASE Dec!PassTurn(t)
      BY <1>1, <1>2, <2>4, <3>2, DecTurnEffect DEF Dec!TurnAt, DecMoves, DecKeepsBlock
    <3>3. CASE ~Dec!TakeTurn(t) /\ ~Dec!PassTurn(t)
      <4>1. DecKeepsTurns /\ th'[t].pc \notin {"write", "pass"}
        BY <1>1, <1>7, <3>3, DecTurnStays
      <4> QED
        BY <1>2, <2>4, <4>1 DEF Dec!TurnAt, DecKeepsTurns
    <3> QED
      BY <3>1, <3>2, <3>3
  <2> QED
    BY <1>1, <2>1, <2>2, <2>3, <2>4 DEF Dec!SlotsFollowTurn, Dec!Ahead
<1> QED
  BY <1>5, <1>6, <1>7

(* What is written is a prefix of the blocks, which ends at the first that *)
(* is not good.                                                            *)
LEMMA DecThreadWritten ==
  ASSUME Dec!IInv, NEW t \in Dec!Threads, Dec!ThreadStep(t), main.pc \in {"finished", "started"}
  PROVE  Dec!WrittenAreFirst'
<1>1. Dec!TypeOK /\ Dec!WrittenAreFirst /\ io'.input = io.input
  BY DecThreadFrame DEF Dec!IInv, Dec!InCall
<1>2. CASE Dec!DecodeBlock(t) /\ ~coder.finished2
  <2> DEFINE w == Len(io.written)
             b == io.input.blocks
             res == Dec!HResult(b[w + 1])
  <2>1. th[t].block = w + 1 /\ w + 1 <= io.read
    BY <1>1, <1>2, DecWriterHasFirst DEF Dec!IInv, Dec!InCall, Dec!DecodeBlock
  <2>2. w \in Nat /\ w + 1 <= Len(b) /\ io.written \in Seq(0..NumBlocks) /\ w + 1 \in 0..NumBlocks
    <3>1. th[t].block \in 0..NumBlocks
      BY <1>1 DEF Dec!TypeOK, Dec!ThreadType
    <3> QED
      BY <1>1, <2>1, <3>1, DecInputProperties, ConstantsAssumption
  <2>3. /\ io'.written = Append(io.written, w + 1) /\ coder'.finished2 = (res # "ok")
        /\ coder'.result2 = IF res = "ok" THEN coder.result2 ELSE res
    BY <1>1, <1>2, <2>1, DecWriteEffect
  <2>4. /\ Len(io'.written) = w + 1 /\ io'.written[w + 1] = w + 1
        /\ \A k \in 1..w : io'.written[k] = io.written[k]
    BY <2>2, <2>3, AppendProperties
  <2>5. b[w + 1] \in {"good", "data", "crc", "write", "abort"}
    BY <1>1, <2>2, DecInputProperties
  <2>6. res = "ok" <=> b[w + 1] = "good"
    BY <2>5, DecResultProperties
  <2>7. /\ \A k \in 1..w : io.written[k] = k /\ b[k] = "good"
        /\ coder.result2 = "ok"
    BY <1>1, <1>2 DEF Dec!WrittenAreFirst
  <2> HIDE DEF w, b, res
  <2>8. /\ \A k \in 1..(w + 1) : io'.written[k] = k
        /\ \A k \in 1..(w + 1) : b[k] # "good" => k = w + 1 /\ coder'.finished2
    <3>1. \A k \in 1..(w + 1) : k \in 1..w \/ k = w + 1
      BY <2>2
    <3>2. \A k \in 1..w : io'.written[k] = k /\ b[k] = "good"
      BY <2>4, <2>7
    <3>3. io'.written[w + 1] = w + 1 /\ (b[w + 1] # "good" => coder'.finished2)
      BY <2>3, <2>4, <2>6
    <3> QED
      BY <3>1, <3>2, <3>3
  <2>9. coder'.finished2 => b[w + 1] # "good" /\ coder'.result2 = res
    BY <2>3, <2>6
  <2>10. ~coder'.finished2 => coder'.result2 = "ok"
    BY <2>3, <2>7
  <2> QED
    BY <1>1, <2>2, <2>4, <2>8, <2>9, <2>10 DEF Dec!WrittenAreFirst, b, res, Dec!HResult
<1>3. CASE ~(Dec!DecodeBlock(t) /\ ~coder.finished2)
  <2>1. /\ io'.written = io.written /\ coder'.finished2 = coder.finished2
        /\ coder'.result2 = coder.result2
    BY <1>1, <1>3, DecSectionEffect, DecReadEffect, DecTurnEffect, DecWriteEffect, DecRestEffect
       DEF Dec!ThreadStep, DecKeepsFlow, DecKeepsFlags, Dec!TypeOK, Dec!DecoderType
  <2> QED
    BY <1>1, <2>1 DEF Dec!WrittenAreFirst, Dec!HResult
<1> QED
  BY <1>2, <1>3

(* A thread that goes to rest has seen the end of the input, or that a     *)
(* block was bad.                                                          *)
LEMMA DecThreadRest ==
  ASSUME Dec!IInv, NEW t \in Dec!Threads, Dec!ThreadStep(t), main.pc \in {"finished", "started"}
  PROVE  Dec!RestIsCaused'
<1>1. Dec!TypeOK /\ Dec!RestIsCaused /\ io'.input = io.input /\ main' = main
  BY DecThreadFrame DEF Dec!IInv, Dec!InCall
<1>2. \A u \in Dec!Threads \ {t} : th'[u].pc = th[u].pc /\ th'[u].stops = th[u].stops
  BY <1>1, DecThreadFrame
<1>3. (coder.finished1 => coder'.finished1) /\ (coder.finished2 => coder'.finished2)
  BY <1>1, DecSectionEffect, DecReadEffect, DecTurnEffect, DecWriteEffect, DecRestEffect
     DEF Dec!ThreadStep, DecKeepsFlow, DecKeepsFlags
<1>4. Dec!EndSeen => Dec!EndSeen'
  <2>1. Dec!EndSeen => ~Dec!ReadBlock(t)
    BY <1>1, DecReadEffect, DecInputProperties, ConstantsAssumption DEF Dec!EndSeen
  <2>2. CASE ~Dec!ReadBlock(t)
    <3>1. io'.read = io.read /\ (~Dec!ReadEnd(t) => coder'.result1 = coder.result1)
      BY <1>1, <2>2, DecSectionEffect, DecReadEffect, DecTurnEffect, DecWriteEffect, DecRestEffect
         DEF Dec!ThreadStep, DecKeepsFlow, DecKeepsFlags
    <3> QED
      BY <1>1, <3>1, DecReadEffect DEF Dec!EndSeen, Dec!HResult
  <2> QED
    BY <2>1, <2>2
<1>5. Dec!AtEnd' => Dec!EndSeen'
  <2>1. CASE Dec!AtEnd
    BY <1>1, <1>4, <2>1 DEF Dec!RestIsCaused
  <2>2. CASE Dec!ReadEnd(t)
    BY <1>1, <2>2, DecReadEffect DEF Dec!EndSeen, Dec!HResult
  <2>3. CASE ~Dec!AtEnd /\ ~Dec!ReadEnd(t)
    <3>1. th[t].pc # "finish" /\ ~coder.finished1
      BY <2>3 DEF Dec!AtEnd
    <3>2. th'[t].pc # "finish" /\ ~coder'.finished1
      BY <1>1, <2>3, <3>1, DecSectionEffect, DecReadEffect, DecTurnEffect, DecWriteEffect, DecRestEffect
         DEF Dec!ThreadStep, DecMoves, DecKeepsFlow, DecKeepsFlags, Dec!TypeOK, Dec!DecoderType
    <3> QED
      BY <1>2, <2>3, <3>2 DEF Dec!AtEnd
  <2> QED
    BY <2>1, <2>2, <2>3
<1>6. /\ th'[t].pc = "stop" => coder'.finished2
      /\ th'[t].pc = "pass" /\ th'[t].stops => coder'.finished2
      /\ th'[t].pc = "rest" => coder'.finished1 \/ coder'.finished2
  <2>1. CASE Dec!DecodeBlock(t)
    BY <1>1, <2>1, DecWriteEffect DEF DecMoves
  <2>2. CASE Dec!PassTurn(t)
    BY <1>1, <1>3, <2>2, DecTurnEffect DEF DecMoves, Dec!RestIsCaused
  <2>3. CASE Dec!Stop(t) \/ Dec!FinishStream(t)
    BY <1>1, <1>3, <2>3, DecRestEffect DEF DecMoves, Dec!RestIsCaused
  <2>4. CASE ~Dec!DecodeBlock(t) /\ ~Dec!PassTurn(t) /\ ~Dec!Stop(t) /\ ~Dec!FinishStream(t)
    BY <1>1, <2>4, DecSectionEffect, DecReadEffect, DecTurnEffect, DecRestEffect DEF Dec!ThreadStep, DecMoves
  <2> QED
    BY <2>1, <2>2, <2>3, <2>4
<1> QED
  BY <1>1, <1>2, <1>3, <1>5, <1>6 DEF Dec!RestIsCaused

LEMMA DecThreadInCall ==
  ASSUME Dec!IInv, NEW t \in Dec!Threads, Dec!ThreadStep(t)
  PROVE  Dec!InCall' /\ Dec!LikeOneThread'
<1>1. Dec!TypeOK /\ io'.input = io.input /\ main' = main
  BY DecThreadFrame DEF Dec!IInv
<1>2. CASE main.pc \in {"finished", "started"}
  <2>1. Dec!InCall'
    BY <1>1, <1>2, DecThreadWritten, DecThreadRest, DecThreadHeld, DecThreadSlots DEF Dec!IInv, Dec!InCall
  <2> QED
    BY <1>1, <1>2, <2>1 DEF Dec!InCall, Dec!LikeOneThread, Dec!WrittenAreFirst
<1>3. CASE main.pc = "close"
  <2>1. io' = io
    BY <1>1, <1>3, DecStepsOfPhase, DecSectionEffect DEF DecKeepsFlow
  <2> QED
    BY <1>1, <1>3, <2>1 DEF Dec!IInv, Dec!InCall, Dec!LikeOneThread
<1> QED
  BY <1>2, <1>3, DecStepsOfPhase

-----------------------------------------------------------------------------
(* The steps of the calling thread.                                        *)

LEMMA DecMainTypeOK ==
  ASSUME Dec!IInv, Dec!MainStep
  PROVE  Dec!TypeOK'
<1> USE DecSlotProperties DEF Dec!TypeOK
<1> Dec!TypeOK
  BY DEF Dec!IInv
<1>1. CASE Dec!CodeReset
  <2>1. main' \in Dec!MainType
    <3>1. main.round + 1 \in 0..MaxRounds
      <4>1. main.round \in 0..MaxRounds /\ main.round < MaxRounds
        BY <1>1 DEF Dec!CodeReset, Dec!MainType
      <4> QED
        BY <4>1, ConstantsAssumption
    <3> QED
      BY <1>1, <3>1 DEF Dec!CodeReset, Dec!MainType
  <2>2. coder' \in Dec!DecoderType
    BY <1>1 DEF Dec!CodeReset, Dec!DecoderType
  <2>3. th' \in [Dec!Threads -> Dec!ThreadType]
    BY <1>1 DEF Dec!CodeReset, Dec!ThreadType
  <2>4. io' \in Dec!IoType /\ io'.read <= Len(io'.input.blocks)
    <3>1. 0 \in 0..NumBlocks /\ <<>> \in Seq(0..NumBlocks)
      BY ConstantsAssumption
    <3>2. PICK input \in Inputs : io' = [input |-> input, read |-> 0, written |-> <<>>]
      BY <1>1 DEF Dec!CodeReset
    <3>3. Len(input.blocks) \in Nat
      BY InputsAssumption
    <3> QED
      BY <3>1, <3>2, <3>3 DEF Dec!IoType
  <2> QED
    BY <2>1, <2>2, <2>3, <2>4
<1>2. CASE Dec!NoSignature
  <2>1. main' \in Dec!MainType
    BY <1>2 DEF Dec!NoSignature, Dec!MainType, Dec!Results
  <2> QED
    BY <1>2, <2>1 DEF Dec!NoSignature
<1>3. CASE Dec!CodeStart
  <2>1. main' \in Dec!MainType
    BY <1>3, ConstantsAssumption DEF Dec!CodeStart, Dec!MainType
  <2>2. coder' \in Dec!DecoderType
    BY <1>3 DEF Dec!CodeStart, Dec!DecoderType, Dec!Results
  <2>3. th' \in [Dec!Threads -> Dec!ThreadType]
    BY <1>3 DEF Dec!CodeStart, Dec!ThreadType
  <2> QED
    BY <1>3, <2>1, <2>2, <2>3 DEF Dec!CodeStart
<1>4. CASE Dec!AwaitFinished
  <2>1. main' \in Dec!MainType
    BY <1>4 DEF Dec!AwaitFinished, Dec!MainType
  <2>2. th' \in [Dec!Threads -> Dec!ThreadType]
    BY <1>4 DEF Dec!AwaitFinished, Dec!ThreadType
  <2> QED
    BY <1>4, <2>1, <2>2 DEF Dec!AwaitFinished
<1>5. CASE Dec!LetWait
  <2>1. main' \in Dec!MainType
    BY <1>5, ConstantsAssumption DEF Dec!LetWait, Dec!MainType
  <2>2. coder' \in Dec!DecoderType
    BY <1>5 DEF Dec!LetWait, Dec!DecoderType
  <2> QED
    BY <1>5, <2>1, <2>2 DEF Dec!LetWait
<1>6. CASE Dec!AwaitStarted
  <2>1. main' \in Dec!MainType
    BY <1>6 DEF Dec!AwaitStarted, Dec!MainType
  <2>2. th' \in [Dec!Threads -> Dec!ThreadType]
    BY <1>6 DEF Dec!AwaitStarted, Dec!ThreadType
  <2> QED
    BY <1>6, <2>1, <2>2 DEF Dec!AwaitStarted
<1>7. CASE Dec!CodeReturn
  <2>1. Dec!Result \in Dec!Results
    BY DEF Dec!Result, Dec!DecoderType
  <2>2. main' \in Dec!MainType
    BY <1>7, <2>1 DEF Dec!CodeReturn, Dec!MainType, Dec!Results
  <2>3. coder' \in Dec!DecoderType
    BY <1>7 DEF Dec!CodeReturn, Dec!DecoderType
  <2> QED
    BY <1>7, <2>2, <2>3 DEF Dec!CodeReturn
<1>8. CASE Dec!Close
  <2>1. main' \in Dec!MainType
    BY <1>8 DEF Dec!Close, Dec!MainType
  <2>2. coder' \in Dec!DecoderType
    BY <1>8 DEF Dec!Close, Dec!DecoderType
  <2> QED
    BY <1>8, <2>1, <2>2 DEF Dec!Close
<1>9. CASE Dec!Join
  BY <1>9 DEF Dec!Join, Dec!MainType
<1> QED
  BY <1>1, <1>2, <1>3, <1>4, <1>5, <1>6, <1>7, <1>8, <1>9 DEF Dec!MainStep

(* The calling thread moves no other thread, and takes no part in CS.      *)
LEMMA DecMainFrame ==
  ASSUME Dec!TypeOK, Dec!MainStep
  PROVE  /\ coder'.cs = coder.cs
         /\ \A t \in Dec!Threads : /\ th'[t].pc = th[t].pc /\ th'[t].block = th[t].block
                                   /\ th'[t].slot = th[t].slot /\ th'[t].stops = th[t].stops
<1> USE DecSlotProperties
<1>1. th \in [Dec!Threads -> Dec!ThreadType] /\ coder \in Dec!DecoderType
  BY DEF Dec!TypeOK
<1>2. coder'.cs = coder.cs
  BY <1>1 DEF Dec!MainStep, Dec!CodeReset, Dec!NoSignature, Dec!CodeStart, Dec!AwaitFinished, Dec!LetWait, Dec!AwaitStarted,
     Dec!CodeReturn, Dec!Close, Dec!Join, Dec!DecoderType
<1>3. ASSUME NEW t \in Dec!Threads
      PROVE  /\ th'[t].pc = th[t].pc /\ th'[t].block = th[t].block
             /\ th'[t].slot = th[t].slot /\ th'[t].stops = th[t].stops
  <2>1. CASE Dec!CodeReset
    <3>1. th'[t] = [th[t] EXCEPT !.finished = FALSE, !.started = FALSE, !.canWrite = FALSE]
      BY <2>1 DEF Dec!CodeReset
    <3> QED
      BY <1>1, <3>1 DEF Dec!ThreadType
  <2>2. CASE Dec!CodeStart
    BY <1>1, <2>2 DEF Dec!CodeStart, Dec!ThreadType
  <2>3. CASE Dec!AwaitFinished \/ Dec!AwaitStarted
    BY <1>1, <2>3 DEF Dec!AwaitFinished, Dec!AwaitStarted, Dec!ThreadType
  <2>4. CASE Dec!NoSignature \/ Dec!LetWait \/ Dec!CodeReturn \/ Dec!Close \/ Dec!Join
    BY <2>4 DEF Dec!NoSignature, Dec!LetWait, Dec!CodeReturn, Dec!Close, Dec!Join
  <2> QED
    BY <2>1, <2>2, <2>3, <2>4 DEF Dec!MainStep
<1> QED
  BY <1>2, <1>3

(* What it does, field by field.                                           *)
DecGoes(from, to) == main.pc = from /\ main'.pc = to
DecKeepsThreads == \A t \in Dec!Threads : DecKeepsEvents(t)

LEMMA DecMainEffect ==
  ASSUME Dec!TypeOK
  PROVE  /\ Dec!CodeReset =>
              /\ DecGoes("idle", "reset") /\ DecKeepsFlags /\ coder'.next = coder.next
              /\ io'.read = 0 /\ io'.written = <<>>
              /\ \A t \in Dec!Threads : ~th'[t].finished /\ ~th'[t].started /\ ~th'[t].canWrite
         /\ Dec!NoSignature => /\ DecGoes("reset", "idle") /\ io.input.end = "nosig"
                               /\ io' = io /\ th' = th /\ coder' = coder
         /\ Dec!CodeStart =>
              /\ DecGoes("reset", "finished") /\ main'.t = 0 /\ io' = io
              /\ io.input.end # "nosig" /\ DecKeepsThreads
              /\ \A t \in Dec!Threads : th'[t].canWrite <=> (th[t].canWrite \/ t = 0)
              /\ coder'.next = 0 /\ ~coder'.finished1 /\ ~coder'.finished2
              /\ coder'.result1 = "ok" /\ coder'.result2 = "ok"
         /\ Dec!LetWait => /\ DecGoes("finished", "started") /\ main.t = NumThreads /\ main'.t = 0
                           /\ DecKeepsFlow /\ th' = th
         /\ Dec!CodeReturn =>
              /\ DecGoes("started", "idle") /\ main.t = NumThreads /\ DecKeepsFlow /\ th' = th
              /\ main'.round = main.round
              /\ main'.returned = IF Dec!Result = "ok" /\ io.input.end \in {"abort", "write"}
                                  THEN io.input.end ELSE Dec!Result
         /\ Dec!Close => DecGoes("idle", "close") /\ DecKeepsFlow /\ th' = th
         /\ Dec!Join => /\ DecGoes("close", "done") /\ DecKeepsFlow /\ th' = th
                        /\ \A t \in Dec!Threads : th[t].pc = "exited"
<1>1. main \in Dec!MainType /\ coder \in Dec!DecoderType /\ th \in [Dec!Threads -> Dec!ThreadType]
  BY DEF Dec!TypeOK
<1>2. ASSUME Dec!CodeReset
      PROVE  /\ DecGoes("idle", "reset") /\ DecKeepsFlags /\ coder'.next = coder.next
             /\ io'.read = 0 /\ io'.written = <<>>
             /\ \A t \in Dec!Threads : ~th'[t].finished /\ ~th'[t].started /\ ~th'[t].canWrite
  <2>1. \A t \in Dec!Threads :
          th'[t] = [th[t] EXCEPT !.finished = FALSE, !.started = FALSE, !.canWrite = FALSE]
    BY <1>2 DEF Dec!CodeReset
  <2>2. \A t \in Dec!Threads : ~th'[t].finished /\ ~th'[t].started /\ ~th'[t].canWrite
    BY <1>1, <2>1 DEF Dec!ThreadType
  <2>3. DecGoes("idle", "reset") /\ DecKeepsFlags /\ coder'.next = coder.next
    BY <1>1, <1>2 DEF Dec!CodeReset, DecGoes, DecKeepsFlags, Dec!MainType, Dec!DecoderType
  <2>4. PICK input \in Inputs : io' = [input |-> input, read |-> 0, written |-> <<>>]
    BY <1>2 DEF Dec!CodeReset
  <2>5. io'.read = 0 /\ io'.written = <<>>
    BY <2>4
  <2> QED
    BY <2>2, <2>3, <2>5
<1>3. ASSUME Dec!CodeStart
      PROVE  /\ DecGoes("reset", "finished") /\ main'.t = 0 /\ io' = io
             /\ io.input.end # "nosig" /\ DecKeepsThreads
             /\ \A t \in Dec!Threads : th'[t].canWrite <=> (th[t].canWrite \/ t = 0)
             /\ coder'.next = 0 /\ ~coder'.finished1 /\ ~coder'.finished2
             /\ coder'.result1 = "ok" /\ coder'.result2 = "ok"
  <2>1. DecKeepsThreads /\ \A t \in Dec!Threads : th'[t].canWrite <=> (th[t].canWrite \/ t = 0)
    BY <1>1, <1>3, DecSlotProperties DEF Dec!CodeStart, DecKeepsThreads, DecKeepsEvents, Dec!ThreadType
  <2>2. DecGoes("reset", "finished") /\ main'.t = 0 /\ io' = io /\ io.input.end # "nosig"
    BY <1>1, <1>3 DEF Dec!CodeStart, DecGoes, Dec!MainType
  <2>3. /\ coder'.next = 0 /\ ~coder'.finished1 /\ ~coder'.finished2
        /\ coder'.result1 = "ok" /\ coder'.result2 = "ok"
    BY <1>1, <1>3 DEF Dec!CodeStart, Dec!DecoderType
  <2> QED
    BY <2>1, <2>2, <2>3
<1>4. ASSUME Dec!CodeReturn
      PROVE  /\ DecGoes("started", "idle") /\ main.t = NumThreads /\ DecKeepsFlow /\ th' = th
             /\ main'.round = main.round
             /\ main'.returned = IF Dec!Result = "ok" /\ io.input.end \in {"abort", "write"}
                                 THEN io.input.end ELSE Dec!Result
  <2>1. /\ DecGoes("started", "idle") /\ main.t = NumThreads /\ main'.round = main.round /\ th' = th
        /\ main'.returned = IF Dec!Result = "ok" /\ io.input.end \in {"abort", "write"}
                            THEN io.input.end ELSE Dec!Result
    BY <1>1, <1>4 DEF Dec!CodeReturn, DecGoes, Dec!MainType
  <2>2. DecKeepsFlow
    BY <1>1, <1>4 DEF Dec!CodeReturn, DecKeepsFlow, DecKeepsFlags, Dec!DecoderType
  <2> QED
    BY <2>1, <2>2
<1>5. Dec!NoSignature => /\ DecGoes("reset", "idle") /\ io.input.end = "nosig"
                         /\ io' = io /\ th' = th /\ coder' = coder
  BY <1>1 DEF Dec!NoSignature, DecGoes, Dec!MainType
<1>6. Dec!LetWait => /\ DecGoes("finished", "started") /\ main.t = NumThreads /\ main'.t = 0
                     /\ DecKeepsFlow /\ th' = th
  BY <1>1 DEF Dec!LetWait, DecGoes, DecKeepsFlow, DecKeepsFlags, Dec!MainType, Dec!DecoderType
<1>7. Dec!Close => DecGoes("idle", "close") /\ DecKeepsFlow /\ th' = th
  BY <1>1 DEF Dec!Close, DecGoes, DecKeepsFlow, DecKeepsFlags, Dec!MainType, Dec!DecoderType
<1>8. Dec!Join => /\ DecGoes("close", "done") /\ DecKeepsFlow /\ th' = th
                  /\ \A t \in Dec!Threads : th[t].pc = "exited"
  BY <1>1 DEF Dec!Join, DecGoes, DecKeepsFlow, DecKeepsFlags, Dec!MainType
<1> QED
  BY <1>2, <1>3, <1>4, <1>5, <1>6, <1>7, <1>8

LEMMA DecAwaitEffect ==
  ASSUME Dec!TypeOK
  PROVE  /\ Dec!AwaitFinished =>
              /\ DecGoes("finished", "finished") /\ main.t \in Dec!Threads /\ main'.t = main.t + 1
              /\ th[main.t].finished /\ DecKeepsTurns /\ coder' = coder /\ io' = io
              /\ \A t \in Dec!Threads : /\ th'[t].finished <=> (th[t].finished /\ t # main.t)
                                        /\ th'[t].started = th[t].started
         /\ Dec!AwaitStarted =>
              /\ DecGoes("started", "started") /\ main.t \in Dec!Threads /\ main'.t = main.t + 1
              /\ th[main.t].started /\ DecKeepsTurns /\ coder' = coder /\ io' = io
              /\ \A t \in Dec!Threads : /\ th'[t].started <=> (th[t].started /\ t # main.t)
                                        /\ th'[t].finished = th[t].finished
<1>1. main \in Dec!MainType /\ th \in [Dec!Threads -> Dec!ThreadType]
  BY DEF Dec!TypeOK
<1>2. CASE Dec!AwaitFinished
  <2>1. /\ DecGoes("finished", "finished") /\ main.t \in Dec!Threads /\ main'.t = main.t + 1
        /\ th[main.t].finished /\ coder' = coder /\ io' = io
    BY <1>1, <1>2 DEF Dec!AwaitFinished, DecGoes, Dec!MainType
  <2>2. /\ th'[main.t] = [th[main.t] EXCEPT !.finished = FALSE]
        /\ \A t \in Dec!Threads \ {main.t} : th'[t] = th[t]
    BY <1>1, <1>2, <2>1 DEF Dec!AwaitFinished
  <2>3. /\ DecKeepsTurns
        /\ \A t \in Dec!Threads : /\ th'[t].finished <=> (th[t].finished /\ t # main.t)
                                  /\ th'[t].started = th[t].started
    BY <1>1, <2>1, <2>2 DEF DecKeepsTurns, Dec!ThreadType
  <2> QED
    BY <1>2, <2>1, <2>3 DEF Dec!AwaitFinished, Dec!AwaitStarted
<1>3. CASE Dec!AwaitStarted
  <2>1. /\ DecGoes("started", "started") /\ main.t \in Dec!Threads /\ main'.t = main.t + 1
        /\ th[main.t].started /\ coder' = coder /\ io' = io
    BY <1>1, <1>3 DEF Dec!AwaitStarted, DecGoes, Dec!MainType
  <2>2. /\ th'[main.t] = [th[main.t] EXCEPT !.started = FALSE]
        /\ \A t \in Dec!Threads \ {main.t} : th'[t] = th[t]
    BY <1>1, <1>3, <2>1 DEF Dec!AwaitStarted
  <2>3. /\ DecKeepsTurns
        /\ \A t \in Dec!Threads : /\ th'[t].started <=> (th[t].started /\ t # main.t)
                                  /\ th'[t].finished = th[t].finished
    BY <1>1, <2>1, <2>2 DEF DecKeepsTurns, Dec!ThreadType
  <2> QED
    BY <1>3, <2>1, <2>3 DEF Dec!AwaitFinished, Dec!AwaitStarted
<1> QED
  BY <1>2, <1>3
LEMMA DecMainPhases ==
  ASSUME Dec!IInv, Dec!MainStep
  PROVE  Dec!Phases' /\ Dec!SectionIsOwned'
<1>1. Dec!TypeOK /\ Dec!Phases /\ Dec!SectionIsOwned /\ coder \in Dec!DecoderType /\ main \in Dec!MainType
  BY DEF Dec!IInv, Dec!TypeOK
<1>2. Dec!Phases'
  BY <1>1, SMTT(30), ZenonT(30) DEF Dec!MainStep, Dec!CodeReset, Dec!NoSignature, Dec!CodeStart, Dec!AwaitFinished, Dec!LetWait, Dec!AwaitStarted,
     Dec!CodeReturn, Dec!Close, Dec!Join, Dec!DecoderType, Dec!MainType, Dec!Phases
<1>3. coder.cs # Dec!Nobody => coder.cs \in Dec!Threads
  BY <1>1, ConstantsAssumption DEF Dec!DecoderType, Dec!Nobody, Dec!Threads
<1>4. Dec!SectionIsOwned'
  BY <1>1, <1>3, DecMainFrame DEF Dec!SectionIsOwned
<1> QED
  BY <1>2, <1>4

(* CodeReset takes every turn away, and CodeStart gives out one.           *)
LEMMA DecMainTurn ==
  ASSUME Dec!IInv, Dec!MainStep
  PROVE  /\ Dec!OneTurn'
         /\ main'.pc = "reset" => /\ io'.read = 0 /\ io'.written = <<>>
                                  /\ \A t \in Dec!Threads : ~th'[t].canWrite
<1>1. /\ Dec!TypeOK /\ Dec!OneTurn
      /\ \A t \in Dec!Threads : th'[t].pc = th[t].pc
      /\ main.pc \in {"idle", "reset"} => \A t \in Dec!Threads : th[t].pc = "wait"
      /\ main.pc = "reset" => \A t \in Dec!Threads : ~th[t].canWrite
  BY DecMainFrame DEF Dec!IInv, Dec!Rendezvous
<1>2. CASE Dec!CodeReset
  <2>1. io'.read = 0 /\ io'.written = <<>> /\ \A t \in Dec!Threads : ~th'[t].canWrite
    BY <1>1, <1>2, DecMainEffect
  <2>2. \A t \in Dec!Threads : th'[t].pc = "wait"
    BY <1>1, <1>2, DecMainEffect DEF DecGoes
  <2> QED
    BY <2>1, <2>2 DEF Dec!OneTurn
<1>3. CASE Dec!CodeStart
  <2>1. DecGoes("reset", "finished") /\ \A t \in Dec!Threads : th'[t].canWrite => t = 0
    BY <1>1, <1>3, DecMainEffect DEF DecGoes
  <2>2. \A t \in Dec!Threads : th'[t].pc = "wait"
    BY <1>1, <2>1 DEF DecGoes
  <2>3. \A t, u \in Dec!Threads : th'[t].canWrite /\ th'[u].canWrite => t = u
    BY <2>1
  <2> QED
    BY <2>1, <2>2, <2>3 DEF Dec!OneTurn, DecGoes
<1>4. CASE ~(Dec!CodeReset \/ Dec!CodeStart)
  <2>1. main'.pc # "reset"
    BY <1>1, <1>4, DecMainEffect, DecAwaitEffect DEF Dec!MainStep, DecGoes
  <2>2. \A t \in Dec!Threads : th'[t].canWrite <=> th[t].canWrite
    BY <1>1, <1>4, DecMainEffect, DecAwaitEffect DEF Dec!MainStep, DecKeepsTurns
  <2> QED
    BY <1>1, <2>1, <2>2 DEF Dec!OneTurn
<1> QED
  BY <1>2, <1>3, <1>4

LEMMA DecMainRendezvous ==
  ASSUME Dec!IInv, Dec!MainStep, NEW t \in Dec!Threads
  PROVE  Dec!Rendezvous(t)'
<1>1. /\ Dec!TypeOK /\ Dec!Rendezvous(t) /\ main.t \in 0..NumThreads
      /\ NumThreads \in Nat \ {0} /\ t \in 0..NumThreads /\ t < NumThreads
  BY ConstantsAssumption, DecSlotProperties DEF Dec!IInv, Dec!TypeOK, Dec!MainType
<1>2. th'[t].pc = th[t].pc
  BY <1>1, DecMainFrame
<1>3. CASE Dec!CodeReset
  BY <1>1, <1>2, <1>3, DecMainEffect DEF DecGoes, Dec!Rendezvous
<1>4. CASE Dec!CodeStart
  <2>1. /\ DecGoes("reset", "finished") /\ main'.t = 0
        /\ th'[t].finished = th[t].finished /\ th'[t].started = th[t].started
    BY <1>1, <1>4, DecMainEffect DEF DecKeepsThreads, DecKeepsEvents
  <2>2. ~(t < 0)
    BY <1>1
  <2> QED
    BY <1>1, <1>2, <2>1, <2>2 DEF DecGoes, Dec!Rendezvous
<1>5. CASE Dec!AwaitFinished
  <2>1. /\ DecGoes("finished", "finished") /\ main'.t = main.t + 1
        /\ th'[t].finished <=> (th[t].finished /\ t # main.t)
        /\ th'[t].started = th[t].started /\ (t = main.t => th[t].finished)
    BY <1>1, <1>5, DecAwaitEffect
  <2>2. t < main.t + 1 <=> t < main.t \/ t = main.t
    BY <1>1
  <2>3. t # main.t /\ main.t <= t => main.t + 1 <= t
    BY <1>1
  <2> QED
    BY <1>1, <1>2, <2>1, <2>2, <2>3 DEF DecGoes, Dec!Rendezvous
<1>6. CASE Dec!LetWait
  <2>1. DecGoes("finished", "started") /\ main.t = NumThreads /\ main'.t = 0 /\ th' = th
    BY <1>1, <1>6, DecMainEffect
  <2>2. t < main.t /\ ~(main.t <= t) /\ ~(t < 0)
    BY <1>1, <2>1
  <2> QED
    BY <1>1, <2>1, <2>2 DEF DecGoes, Dec!Rendezvous
<1>7. CASE Dec!AwaitStarted
  <2>1. /\ DecGoes("started", "started") /\ main'.t = main.t + 1
        /\ th'[t].started <=> (th[t].started /\ t # main.t)
        /\ th'[t].finished = th[t].finished /\ (t = main.t => th[t].started)
    BY <1>1, <1>7, DecAwaitEffect
  <2>2. t < main.t + 1 <=> t < main.t \/ t = main.t
    BY <1>1
  <2>3. t # main.t /\ main.t <= t => main.t + 1 <= t
    BY <1>1
  <2> QED
    BY <1>1, <1>2, <2>1, <2>2, <2>3 DEF DecGoes, Dec!Rendezvous
<1>8. CASE Dec!CodeReturn
  <2>1. DecGoes("started", "idle") /\ main.t = NumThreads /\ th' = th
    BY <1>1, <1>8, DecMainEffect
  <2>2. t < main.t /\ ~(main.t <= t)
    BY <1>1, <2>1
  <2> QED
    BY <1>1, <2>1, <2>2 DEF DecGoes, Dec!Rendezvous
<1>9. CASE Dec!NoSignature \/ Dec!Close \/ Dec!Join
  BY <1>1, <1>9, DecMainEffect DEF DecGoes, Dec!Rendezvous
<1> QED
  BY <1>3, <1>4, <1>5, <1>6, <1>7, <1>8, <1>9 DEF Dec!MainStep

(* CodeStart: no block read, and the turn at the slot of the first.        *)
LEMMA DecStartInCall ==
  ASSUME Dec!IInv, Dec!CodeStart
  PROVE  Dec!InCall' /\ Dec!LikeOneThread'
<1>1. /\ Dec!TypeOK /\ DecGoes("reset", "finished") /\ io' = io /\ io.input.end # "nosig"
      /\ coder'.next = 0 /\ ~coder'.finished1 /\ ~coder'.finished2
      /\ coder'.result1 = "ok" /\ coder'.result2 = "ok"
      /\ \A t \in Dec!Threads : th'[t].canWrite <=> (th[t].canWrite \/ t = 0)
  BY DecMainEffect DEF Dec!IInv
<1>2. /\ io.read = 0 /\ io.written = <<>> /\ Len(io.written) = 0
      /\ \A t \in Dec!Threads : ~th[t].canWrite /\ th[t].pc = "wait"
  BY <1>1 DEF DecGoes, Dec!IInv, Dec!Rendezvous
<1>3. \A t \in Dec!Threads : th'[t].pc = "wait"
  BY <1>1, <1>2, DecMainFrame DEF Dec!MainStep
<1>4. Dec!BlocksAreHeld'
  BY <1>1, <1>2, <1>3 DEF Dec!BlocksAreHeld, Dec!Holding
<1>5. Dec!SlotsFollowTurn'
  <2>1. \A z \in Dec!Threads : Dec!TurnAt(z)' => z = 0
    BY <1>1, <1>2, <1>3 DEF Dec!TurnAt
  <2>2. Dec!Ahead(0, coder'.next, io'.read - Len(io'.written))
    <3>1. coder'.next = 0 /\ io'.read = 0 /\ Len(io'.written) = 0
      BY <1>1, <1>2
    <3> QED
      BY <3>1 DEF Dec!Ahead
  <2> QED
    BY <1>3, <2>1, <2>2 DEF Dec!SlotsFollowTurn, Dec!Holding, Dec!Ahead
<1>6. Dec!WrittenAreFirst'
  <2>1. Len(io.input.blocks) \in Nat
    BY <1>1, DecInputProperties
  <2> QED
    BY <1>1, <1>2, <2>1 DEF Dec!WrittenAreFirst
<1>7. Dec!RestIsCaused'
  BY <1>1, <1>3 DEF Dec!RestIsCaused, Dec!AtEnd, DecGoes
<1>8. Dec!LikeOneThread'
  BY <1>1, <1>2 DEF Dec!LikeOneThread, DecGoes
<1> QED
  BY <1>1, <1>4, <1>5, <1>6, <1>7, <1>8 DEF Dec!InCall, DecGoes

(* CodeReturn: all threads wait, so each block that was read has been      *)
(* written, or a bad one stopped them.                                     *)
LEMMA DecReturnLikeOneThread ==
  ASSUME Dec!IInv, Dec!CodeReturn
  PROVE  Dec!LikeOneThread'
<1> DEFINE w == Len(io.written)
           b == io.input.blocks
<1>1. /\ Dec!TypeOK /\ DecGoes("started", "idle") /\ main.t = NumThreads /\ io' = io
      /\ main'.returned = IF Dec!Result = "ok" /\ io.input.end \in {"abort", "write"}
                          THEN io.input.end ELSE Dec!Result
  BY DecMainEffect DEF Dec!IInv, DecKeepsFlow
<1>2. /\ Dec!WrittenAreFirst /\ Dec!RestIsCaused /\ (coder.finished1 \/ coder.finished2)
      /\ ~coder.finished2 => Dec!BlocksAreHeld
      /\ io.input.end # "nosig"
  BY <1>1 DEF Dec!IInv, Dec!InCall, Dec!RestIsCaused, DecGoes
<1>3. \A t \in Dec!Threads : th[t].pc = "wait"
  BY <1>1, DecSlotProperties DEF Dec!IInv, Dec!Rendezvous, DecGoes
<1>4. w \in Nat /\ io.read \in Nat /\ Len(b) \in Nat
  BY <1>1, DecInputProperties, ConstantsAssumption
<1>5. /\ io.input.end \in {"ok", "data", "crc", "read", "write", "abort", "nosig"}
      /\ \A k \in 1..Len(b) : b[k] \in {"good", "data", "crc", "write", "abort"}
  BY <1>1, DecInputProperties
<1>6. CASE ~coder.finished2
  <2>1. io.read = Len(b) /\ coder.result2 = "ok" /\ w <= io.read
        /\ coder.result1 = IF io.input.end \in {"data", "crc", "read"}
                           THEN Dec!HResult(io.input.end) ELSE "ok"
    BY <1>2, <1>6 DEF Dec!RestIsCaused, Dec!AtEnd, Dec!EndSeen, Dec!WrittenAreFirst, Dec!BlocksAreHeld
  <2>2. w = io.read
    <3>1. \A k \in (w + 1)..io.read : FALSE
      BY <1>2, <1>3, <1>6 DEF Dec!BlocksAreHeld, Dec!Holding
    <3> HIDE DEF w
    <3>2. ~(w < io.read)
      BY <1>4, <3>1
    <3> QED
      BY <1>4, <2>1, <3>2
  <2>3. Dec!Bad = {}
    <3>1. \A k \in 1..w : b[k] = "good"
      BY <1>2, <1>6 DEF Dec!WrittenAreFirst
    <3> QED
      BY <2>1, <2>2, <3>1 DEF Dec!Bad
  <2>4. main'.returned = Dec!HResult(io.input.end)
    BY <1>1, <1>2, <1>5, <2>1 DEF Dec!Result, Dec!HResult
  <2> QED
    BY <1>1, <1>2, <2>1, <2>2, <2>3, <2>4
       DEF Dec!LikeOneThread, DecGoes, Dec!WrittenAreFirst, Dec!Cause, Dec!Bad, Dec!FirstBad, Dec!HResult
<1>7. CASE coder.finished2
  <2>1. /\ w > 0 /\ w <= Len(b) /\ b[w] # "good" /\ coder.result2 = Dec!HResult(b[w])
        /\ \A k \in 1..w : b[k] # "good" => k = w
    BY <1>2, <1>7 DEF Dec!WrittenAreFirst
  <2>2. w \in Dec!Bad
    BY <1>4, <2>1 DEF Dec!Bad
  <2>3. \A j \in Dec!Bad : w <= j
    <3>1. \A j \in Dec!Bad : j \in 1..Len(b) /\ (j \in 1..w => j = w)
      BY <2>1 DEF Dec!Bad
    <3> HIDE DEF w
    <3> QED
      BY <1>4, <3>1
  <2>4. Dec!FirstBad = w
    <3>1. \A k \in Dec!Bad : k \in Nat
      BY DEF Dec!Bad
    <3>2. Dec!FirstBad \in Dec!Bad /\ \A j \in Dec!Bad : Dec!FirstBad <= j
      BY <2>2, <2>3 DEF Dec!FirstBad
    <3>3. Dec!FirstBad <= w /\ w <= Dec!FirstBad /\ Dec!FirstBad \in Nat
      BY <2>2, <2>3, <3>1, <3>2
    <3> HIDE DEF w
    <3> QED
      BY <1>4, <3>3
  <2>5. w \in 1..Len(b)
    BY <1>4, <2>1
  <2>6. Dec!HResult(b[w]) # "ok"
    BY <1>5, <2>1, <2>5 DEF Dec!HResult
  <2>7. main'.returned = Dec!HResult(b[w])
    BY <1>1, <2>1, <2>6 DEF Dec!Result
  <2>8. Dec!Bad' = Dec!Bad /\ Dec!FirstBad' = Dec!FirstBad /\ Dec!Cause' = Dec!Cause
    BY <1>1 DEF Dec!Bad, Dec!FirstBad, Dec!Cause
  <2>9. Dec!Cause = b[w] /\ Dec!Bad # {}
    BY <2>2, <2>4 DEF Dec!Cause
  <2>10. /\ \A k \in 1..Len(io'.written) : io'.written[k] = k
         /\ Len(io'.written) = IF Dec!Bad' = {} THEN Len(io'.input.blocks) ELSE Dec!FirstBad'
         /\ main'.returned = Dec!HResult(Dec!Cause')
    BY <1>1, <1>2, <2>4, <2>7, <2>8, <2>9 DEF Dec!WrittenAreFirst
  <2> QED
    BY <2>10 DEF Dec!LikeOneThread, Dec!HResult
<1> QED
  BY <1>6, <1>7

LEMMA DecMainInCall ==
  ASSUME Dec!IInv, Dec!MainStep
  PROVE  Dec!InCall' /\ Dec!LikeOneThread'
<1>1. Dec!TypeOK
  BY DEF Dec!IInv
<1>2. CASE Dec!CodeReset
  <2>1. main'.pc = "reset" /\ io'.written = <<>>
    BY <1>1, <1>2, DecMainEffect DEF DecGoes
  <2> QED
    BY <2>1 DEF Dec!InCall, Dec!LikeOneThread
<1>3. CASE Dec!NoSignature
  <2>1. main.pc = "reset" /\ main'.pc = "idle" /\ io' = io /\ io.input.end = "nosig"
    BY <1>1, <1>3, DecMainEffect DEF DecGoes
  <2> QED
    BY <2>1 DEF Dec!IInv, Dec!InCall, Dec!LikeOneThread
<1>4. CASE Dec!CodeReturn
  <2>1. main'.pc = "idle"
    BY <1>1, <1>4, DecMainEffect DEF DecGoes
  <2> QED
    BY <1>4, <2>1, DecReturnLikeOneThread DEF Dec!InCall
<1>5. CASE Dec!AwaitFinished \/ Dec!LetWait \/ Dec!AwaitStarted
  <2>1. /\ main.pc \in {"finished", "started"} /\ main'.pc \in {"finished", "started"}
        /\ io' = io /\ DecKeepsFlags /\ coder'.next = coder.next
        /\ \A t \in Dec!Threads : th'[t].canWrite = th[t].canWrite
    BY <1>1, <1>5, DecMainEffect, DecAwaitEffect DEF DecGoes, DecKeepsFlow, DecKeepsFlags, DecKeepsTurns
  <2>2. \A t \in Dec!Threads : /\ th'[t].pc = th[t].pc /\ th'[t].block = th[t].block
                               /\ th'[t].slot = th[t].slot /\ th'[t].stops = th[t].stops
    BY <1>1, DecMainFrame
  <2>3. Dec!InCall /\ Dec!WrittenAreFirst /\ Dec!RestIsCaused
    BY <2>1 DEF Dec!IInv, Dec!InCall
  <2>4. Dec!WrittenAreFirst'
    BY <2>1, <2>3 DEF Dec!WrittenAreFirst, DecKeepsFlags, Dec!HResult
  <2>5. Dec!RestIsCaused'
    <3>1. Dec!AtEnd' <=> Dec!AtEnd
      BY <2>1, <2>2 DEF Dec!AtEnd, DecKeepsFlags
    <3>2. Dec!EndSeen' <=> Dec!EndSeen
      BY <2>1 DEF Dec!EndSeen, DecKeepsFlags, Dec!HResult
    <3>3. main'.pc = "started" => coder.finished1 \/ coder.finished2
      <4>1. CASE Dec!LetWait
        <5>1. main.pc = "finished" /\ main.t = NumThreads
          BY <1>1, <4>1, DecMainEffect DEF DecGoes
        <5>2. 0 \in Dec!Threads /\ Dec!Rendezvous(0) /\ 0 < NumThreads
          BY DecSlotProperties DEF Dec!IInv
        <5>3. th[0].pc = "rest"
          BY <5>1, <5>2 DEF Dec!Rendezvous
        <5> QED
          BY <2>3, <5>2, <5>3 DEF Dec!RestIsCaused
      <4>2. CASE Dec!AwaitFinished
        BY <1>1, <4>2, DecAwaitEffect DEF DecGoes
      <4>3. CASE Dec!AwaitStarted
        BY <1>1, <2>3, <4>3, DecAwaitEffect DEF DecGoes, Dec!RestIsCaused
      <4> QED
        BY <1>5, <4>1, <4>2, <4>3
    <3> QED
      BY <2>1, <2>2, <2>3, <3>1, <3>2, <3>3 DEF Dec!RestIsCaused, DecKeepsFlags
  <2>6. Dec!BlocksAreHeld' <=> Dec!BlocksAreHeld
    BY <2>1, <2>2 DEF Dec!BlocksAreHeld, Dec!Holding
  <2>7. Dec!SlotsFollowTurn => Dec!SlotsFollowTurn'
    <3>1. Dec!AtEnd' <=> Dec!AtEnd
      BY <2>1, <2>2 DEF Dec!AtEnd, DecKeepsFlags
    <3>2. \A z \in Dec!Threads : Dec!TurnAt(z)' <=> Dec!TurnAt(z)
      BY <2>1, <2>2, DecSlotProperties DEF Dec!TurnAt, Dec!NextSlot
    <3> QED
      BY <2>1, <2>2, <3>1, <3>2 DEF Dec!SlotsFollowTurn, Dec!Holding, Dec!Ahead
  <2> QED
    BY <2>1, <2>3, <2>4, <2>5, <2>6, <2>7 DEF Dec!InCall, Dec!LikeOneThread, Dec!WrittenAreFirst, DecKeepsFlags
<1>6. CASE Dec!Close \/ Dec!Join
  <2>1. main'.pc \in {"close", "done"} /\ io' = io
    BY <1>1, <1>6, DecMainEffect DEF DecGoes, DecKeepsFlow
  <2> QED
    BY <2>1 DEF Dec!IInv, Dec!InCall, Dec!LikeOneThread
<1> QED
  BY <1>2, <1>3, <1>4, <1>5, <1>6, DecStartInCall DEF Dec!MainStep

-----------------------------------------------------------------------------
(* The theorems.                                                           *)

LEMMA DecStepIInv == Dec!IInv /\ [Dec!Next]_Dec!vars => Dec!IInv'
<1> SUFFICES ASSUME Dec!IInv, [Dec!Next]_Dec!vars PROVE Dec!IInv'
  OBVIOUS
<1>1. ASSUME NEW t \in Dec!Threads, Dec!ThreadStep(t) PROVE Dec!IInv'
  <2>1. Dec!TypeOK' /\ UNCHANGED main
        /\ UNCHANGED <<coder.closeThreads, coder.canProcess, coder.canStartWaiting>>
    BY <1>1, DecThreadTypeOK, DecThreadFrame DEF Dec!IInv
  <2>2. Dec!Phases'
    BY <2>1 DEF Dec!IInv, Dec!Phases
  <2>3. Dec!SectionIsOwned' /\ Dec!OneTurn' /\ \A u \in Dec!Threads : Dec!Rendezvous(u)'
    BY <1>1, DecThreadSection, DecThreadTurn, DecThreadRendezvous
  <2>4. Dec!InCall' /\ Dec!LikeOneThread'
    BY <1>1, DecThreadInCall
  <2>5. main'.pc # "reset"
    BY <1>1, <2>1, DecStepsOfPhase
  <2> QED
    BY <2>1, <2>2, <2>3, <2>4, <2>5 DEF Dec!IInv
<1>2. CASE Dec!MainStep
  <2>1. Dec!TypeOK' /\ Dec!Phases' /\ Dec!SectionIsOwned' /\ Dec!InCall' /\ Dec!LikeOneThread'
    BY <1>2, DecMainTypeOK, DecMainPhases, DecMainInCall
  <2>2. \A t \in Dec!Threads : Dec!Rendezvous(t)'
    BY <1>2, DecMainRendezvous
  <2> QED
    BY <1>2, <2>1, <2>2, DecMainTurn DEF Dec!IInv
<1>3. CASE UNCHANGED Dec!vars
  <2>1. main' = main /\ coder' = coder /\ th' = th /\ io' = io
    BY <1>3 DEF Dec!vars
  <2>2. Dec!TypeOK' /\ Dec!Phases' /\ Dec!SectionIsOwned' /\ Dec!OneTurn' /\ \A t \in Dec!Threads : Dec!Rendezvous(t)'
    BY <2>1 DEF Dec!IInv, Dec!TypeOK, Dec!Phases, Dec!SectionIsOwned, Dec!OneTurn, Dec!Rendezvous
  <2>3. Dec!InCall'
    <3>1. /\ Dec!WrittenAreFirst' <=> Dec!WrittenAreFirst
          /\ Dec!BlocksAreHeld' <=> Dec!BlocksAreHeld
      BY <2>1 DEF Dec!WrittenAreFirst, Dec!BlocksAreHeld, Dec!Holding, Dec!HResult
    <3>2. (Dec!AtEnd' <=> Dec!AtEnd) /\ (Dec!EndSeen' <=> Dec!EndSeen)
      BY <2>1 DEF Dec!AtEnd, Dec!EndSeen, Dec!HResult
    <3>3. Dec!RestIsCaused' <=> Dec!RestIsCaused
      BY <2>1, <3>2 DEF Dec!RestIsCaused
    <3>4. \A z \in Dec!Threads : Dec!TurnAt(z)' <=> Dec!TurnAt(z)
      BY <2>1 DEF Dec!TurnAt, Dec!NextSlot
    <3>5. Dec!SlotsFollowTurn' <=> Dec!SlotsFollowTurn
      BY <2>1, <3>2, <3>4 DEF Dec!SlotsFollowTurn, Dec!Holding, Dec!Ahead
    <3> QED
      BY <2>1, <3>1, <3>3, <3>5 DEF Dec!IInv, Dec!InCall
  <2>4. Dec!LikeOneThread'
    <3>1. Dec!Bad' = Dec!Bad /\ Dec!FirstBad' = Dec!FirstBad /\ Dec!Cause' = Dec!Cause
      BY <2>1 DEF Dec!Bad, Dec!FirstBad, Dec!Cause
    <3> QED
      BY <2>1, <3>1 DEF Dec!IInv, Dec!LikeOneThread, Dec!HResult
  <2> QED
    BY <2>1, <2>2, <2>3, <2>4 DEF Dec!IInv
<1> QED
  BY <1>1, <1>2, <1>3 DEF Dec!Next

(* Events, flags, slots and blocks of the threads fit together in every    *)
(* reachable state of CDecoder.                                            *)
THEOREM DecoderInvariant == Dec!Spec => []Dec!IInv
<1>1. Dec!Init => Dec!IInv
  BY DecInitIInv
<1>2. Dec!IInv /\ [Dec!Next]_Dec!vars => Dec!IInv'
  BY DecStepIInv
<1> QED
  BY <1>1, <1>2, PTL DEF Dec!Spec

(* CanWriteEvent is never set for two slots at a time, nor for one while a *)
(* thread decodes into the output stream.                                  *)
THEOREM DecoderTurns == Dec!Spec => []Dec!OneTurn
<1>1. Dec!IInv => Dec!OneTurn
  BY DEF Dec!IInv
<1> QED
  BY <1>1, DecoderInvariant, PTL

LEMMA DecRestOfIInv == Dec!IInv => Dec!ThreadsAtRest
<1> SUFFICES ASSUME Dec!IInv, main.pc \in {"idle", "reset"}
             PROVE  /\ coder.cs = Dec!Nobody
                    /\ \A t \in Dec!Threads : th[t].pc = "wait" /\ ~th[t].finished /\ ~th[t].started
  BY DEF Dec!ThreadsAtRest
<1>1. \A t \in Dec!Threads : th[t].pc = "wait" /\ ~th[t].finished /\ ~th[t].started
  BY DEF Dec!IInv, Dec!Rendezvous
<1>2. coder.cs # Dec!Nobody => coder.cs \in Dec!Threads
  BY ConstantsAssumption DEF Dec!IInv, Dec!TypeOK, Dec!DecoderType, Dec!Nobody, Dec!Threads
<1> QED
  BY <1>1, <1>2 DEF Dec!IInv, Dec!SectionIsOwned

(* When DecodeFile has returned, or CodeReal resets the events for the     *)
(* next stream, all threads wait at their start, none is in the critical   *)
(* section, and no event of the call that is over is still set.            *)
THEOREM DecoderAtRest == Dec!Spec => []Dec!ThreadsAtRest
BY DecRestOfIInv, DecoderInvariant, PTL

(* The threads write the blocks in order, up to the first that is bad, and *)
(* DecodeFile returns what is wrong with that one or with the end.         *)
THEOREM DecoderIsLikeOneThread == Dec!Spec => []Dec!LikeOneThread
<1>1. Dec!IInv => Dec!LikeOneThread
  BY DEF Dec!IInv
<1> QED
  BY <1>1, DecoderInvariant, PTL

-----------------------------------------------------------------------------
(* The ring of MtCoder.c.                                                  *)

LEMMA RingProperties ==
  /\ NumThreads \in Nat \ {0} /\ NumBlocks \in Nat \ {0} /\ 0 \in Ring!Threads
  /\ \A t \in Ring!Threads : /\ t \in Nat /\ t < NumThreads /\ t \in 0..NumThreads
                             /\ t + 1 \in 0..NumThreads /\ Ring!NextThread(t) \in Ring!Threads
  /\ \A t, u \in Ring!Threads : Ring!NextThread(t) = Ring!NextThread(u) => t = u
  /\ \A u \in Ring!Threads : \E t \in Ring!Threads : u = Ring!NextThread(t)
<1>1. /\ NumThreads \in Nat \ {0} /\ NumBlocks \in Nat \ {0} /\ 0 \in Ring!Threads
      /\ \A t \in Ring!Threads : /\ t \in Nat /\ t < NumThreads /\ t \in 0..NumThreads
                                 /\ t + 1 \in 0..NumThreads /\ Ring!NextThread(t) \in Ring!Threads
      /\ \A t, u \in Ring!Threads : Ring!NextThread(t) = Ring!NextThread(u) => t = u
  BY ConstantsAssumption DEF Ring!Threads, Ring!NextThread
<1>2. ASSUME NEW u \in Ring!Threads PROVE \E t \in Ring!Threads : u = Ring!NextThread(t)
  <2>1. CASE u = 0
    <3>1. NumThreads - 1 \in Ring!Threads
      BY <1>1 DEF Ring!Threads
    <3> QED
      BY <2>1, <3>1 DEF Ring!NextThread
  <2>2. CASE u # 0
    <3>1. u - 1 \in Ring!Threads /\ u - 1 # NumThreads - 1 /\ u = (u - 1) + 1
      BY <1>1, <2>2 DEF Ring!Threads
    <3> QED
      BY <3>1 DEF Ring!NextThread
  <2> QED
    BY <2>1, <2>2
<1> QED
  BY <1>1, <1>2

(* Going round the ring.                                                   *)
LEMMA RingAheadNext ==
  ASSUME NEW p \in Ring!Threads, NEW q \in Ring!Threads, NEW d \in Nat, d <= NumThreads
  PROVE  /\ d < NumThreads => (Ring!Ahead(p, Ring!NextThread(q), d + 1) <=> Ring!Ahead(p, q, d))
         /\ d > 0 => (Ring!Ahead(Ring!NextThread(p), q, d - 1) <=> Ring!Ahead(p, q, d))
BY RingProperties DEF Ring!Ahead, Ring!NextThread, Ring!Threads

LEMMA RingAheadSame ==
  ASSUME NEW p \in Ring!Threads, NEW q \in Ring!Threads, NEW d \in Nat, d <= NumThreads, Ring!Ahead(p, q, d)
  PROVE  p = q <=> d = 0 \/ d = NumThreads
BY RingProperties DEF Ring!Ahead, Ring!Threads

LEMMA RingAheadExists ==
  ASSUME NEW p \in Ring!Threads, NEW q \in Ring!Threads
  PROVE  \E d \in Ring!Threads : Ring!Ahead(p, q, d)
<1>1. CASE p <= q
  <2>1. q - p \in Ring!Threads /\ Ring!Ahead(p, q, q - p)
    BY <1>1, RingProperties DEF Ring!Ahead, Ring!Threads
  <2> QED
    BY <2>1
<1>2. CASE q < p
  <2>1. q + NumThreads - p \in Ring!Threads /\ Ring!Ahead(p, q, q + NumThreads - p)
    BY <1>2, RingProperties DEF Ring!Ahead, Ring!Threads
  <2> QED
    BY <2>1
<1> QED
  BY <1>1, <1>2, RingProperties

LEMMA RingAheadUnique ==
  ASSUME NEW p \in Ring!Threads, NEW q \in Ring!Threads, NEW r \in Ring!Threads, NEW d \in Ring!Threads,
         NEW e \in Ring!Threads
  PROVE  /\ Ring!Ahead(p, q, d) /\ Ring!Ahead(p, q, e) => d = e
         /\ Ring!Ahead(p, q, d) /\ Ring!Ahead(p, r, d) => q = r
BY RingProperties DEF Ring!Ahead, Ring!Threads

LEMMA RingFlowProperties ==
  ASSUME Ring!TypeOK
  PROVE  /\ io.read \in Nat /\ io.read <= NumBlocks /\ io.written \in Seq(0..NumBlocks)
         /\ Len(io.written) \in Nat
BY RingProperties DEF Ring!TypeOK, Ring!IoType

LEMMA RingMainProperties ==
  ASSUME Ring!TypeOK
  PROVE  /\ main.i \in Nat /\ main.i <= NumThreads
         /\ main.pc \in {"idle", "create", "start", "await", "close", "destruct", "join"}
<1>1. main.i \in 0..NumThreads
  BY DEF Ring!TypeOK, Ring!MainType
<1> QED
  BY <1>1, RingProperties DEF Ring!TypeOK, Ring!MainType

LEMMA RingInitIInv == Ring!Init => Ring!IInv
<1> SUFFICES ASSUME Ring!Init PROVE Ring!IInv
  OBVIOUS
<1> USE RingProperties, ConstantsAssumption DEF Ring!Init
<1>1. Ring!TypeOK
  <2>1. <<>> \in Seq(0..NumBlocks)
    OBVIOUS
  <2> QED
    BY <2>1 DEF Ring!TypeOK, Ring!MainType, Ring!ThreadType, Ring!MtType, Ring!IoType, Ring!ThreadPcs, Ring!Results, Ring!NoThread
<1>2. \A t \in Ring!Threads : Ring!Rendezvous(t)
  BY DEF Ring!Rendezvous, Ring!NoThread
<1> QED
  BY <1>1, <1>2 DEF Ring!IInv

-----------------------------------------------------------------------------
(* What the steps of the threads do, field by field.                       *)
RingMoves(t, from, to) ==
  th[t].pc = from /\ th'[t].pc = to /\ \A u \in Ring!Threads \ {t} : th'[u].pc = th[u].pc
RingKeepsFinished == \A u \in Ring!Threads : th'[u].finishedEvent = th[u].finishedEvent
RingKeepsStopLoop == \A u \in Ring!Threads : th'[u].stopLoop = th[u].stopLoop
RingKeepsLoop ==
  \A u \in Ring!Threads :
    /\ th'[u].startEvent = th[u].startEvent /\ th'[u].finishedEvent = th[u].finishedEvent
    /\ th'[u].stopLoop = th[u].stopLoop
RingKeepsReading ==
  \A u \in Ring!Threads : th'[u].canRead = th[u].canRead /\ th'[u].stopReading = th[u].stopReading
RingKeepsWriting ==
  \A u \in Ring!Threads : th'[u].canWrite = th[u].canWrite /\ th'[u].stopWriting = th[u].stopWriting
RingKeepsBlocks == \A u \in Ring!Threads : th'[u].block = th[u].block /\ th'[u].stop = th[u].stop
RingKeepsResults == \A u \in Ring!Threads : th'[u].res = th[u].res
RingFailsWith(t, res) ==
  th'[t].res = res /\ \A u \in Ring!Threads \ {t} : th'[u].res = th[u].res

LEMMA RingWakeEffect ==
  ASSUME Ring!TypeOK, NEW t \in Ring!Threads, Ring!Wake(t)
  PROVE  /\ th' \in [Ring!Threads -> Ring!ThreadType]
         /\ RingMoves(t, "loop", IF th[t].stopLoop THEN "exited" ELSE "canRead")
         /\ th[t].startEvent
         /\ \A u \in Ring!Threads : th'[u].startEvent <=> th[u].startEvent /\ u # t
         /\ RingKeepsFinished /\ RingKeepsStopLoop /\ RingKeepsReading /\ RingKeepsWriting /\ RingKeepsBlocks /\ RingKeepsResults
         /\ coder' = coder /\ io' = io
<1>1. th \in [Ring!Threads -> Ring!ThreadType]
  BY DEF Ring!TypeOK
<1>2. th' \in [Ring!Threads -> Ring!ThreadType]
  BY <1>1 DEF Ring!Wake, Ring!ThreadType, Ring!ThreadPcs
<1> QED
  BY <1>1, <1>2 DEF Ring!Wake, RingMoves, RingKeepsFinished, RingKeepsStopLoop, RingKeepsReading, RingKeepsWriting, RingKeepsBlocks, RingKeepsResults,
     Ring!ThreadType

LEMMA RingTakeReadEffect ==
  ASSUME Ring!TypeOK, NEW t \in Ring!Threads, Ring!TakeRead(t)
  PROVE  /\ th' \in [Ring!Threads -> Ring!ThreadType]
         /\ RingMoves(t, "canRead", "read") /\ Ring!MayRead(t)
         /\ \A u \in Ring!Threads : /\ th'[u].canRead <=> th[u].canRead /\ u # t
                                    /\ th'[u].stopReading = th[u].stopReading
         /\ RingKeepsLoop /\ RingKeepsWriting /\ RingKeepsBlocks /\ RingKeepsResults
         /\ coder' = coder /\ io' = io
<1>1. th \in [Ring!Threads -> Ring!ThreadType]
  BY DEF Ring!TypeOK
<1>2. th' \in [Ring!Threads -> Ring!ThreadType]
  BY <1>1 DEF Ring!TakeRead, Ring!ThreadType, Ring!ThreadPcs
<1> QED
  BY <1>1, <1>2 DEF Ring!TakeRead, Ring!MayRead, RingMoves, RingKeepsLoop, RingKeepsWriting, RingKeepsBlocks,
     RingKeepsResults, Ring!ThreadType

LEMMA RingStopReadingEffect ==
  ASSUME Ring!TypeOK, NEW t \in Ring!Threads, Ring!StopReading(t)
  PROVE  /\ th' \in [Ring!Threads -> Ring!ThreadType]
         /\ RingMoves(t, "canRead", "finished") /\ th[t].canRead /\ th[t].stopReading
         /\ \A u \in Ring!Threads :
              /\ th'[u].canRead <=> (th[u].canRead /\ u # t) \/ u = Ring!NextThread(t)
              /\ th'[u].stopReading <=> th[u].stopReading \/ u = Ring!NextThread(t)
         /\ RingKeepsLoop /\ RingKeepsWriting /\ RingKeepsBlocks /\ RingKeepsResults
         /\ coder' = coder /\ io' = io
<1> DEFINE n == Ring!NextThread(t)
           mid == [th EXCEPT ![t].pc = "finished", ![t].canRead = FALSE]
<1>1. th \in [Ring!Threads -> Ring!ThreadType] /\ n \in Ring!Threads /\ th[t] \in Ring!ThreadType
  BY RingProperties DEF Ring!TypeOK
<1>2. mid[t] = [th[t] EXCEPT !.pc = "finished", !.canRead = FALSE]
  BY <1>1
<1>3. \A u \in Ring!Threads \ {t} : mid[u] = th[u]
  BY <1>1
<1>4. mid \in [Ring!Threads -> Ring!ThreadType] /\ mid[n] \in Ring!ThreadType
  BY <1>1 DEF Ring!StopReading, Ring!ThreadType, Ring!ThreadPcs
<1>5. th' = [mid EXCEPT ![n].stopReading = TRUE, ![n].canRead = TRUE]
  BY DEF Ring!StopReading
<1>6. th[t].pc = "canRead" /\ mid[t].pc = "finished"
  BY <1>1, <1>2 DEF Ring!StopReading, Ring!ThreadType
<1> HIDE DEF mid, n
<1>7. th'[n] = [mid[n] EXCEPT !.stopReading = TRUE, !.canRead = TRUE] /\ \A u \in Ring!Threads \ {n} : th'[u] = mid[u]
  BY <1>1, <1>4, <1>5
<1>t. th' \in [Ring!Threads -> Ring!ThreadType]
  BY <1>1, <1>4, <1>5 DEF Ring!ThreadType
<1>8. /\ th'[n].pc = mid[n].pc
      /\ th'[n].startEvent = mid[n].startEvent
      /\ th'[n].finishedEvent = mid[n].finishedEvent /\ th'[n].stopLoop = mid[n].stopLoop
      /\ th'[n].canRead /\ th'[n].stopReading /\ th'[n].canWrite = mid[n].canWrite
      /\ th'[n].stopWriting = mid[n].stopWriting /\ th'[n].block = mid[n].block
      /\ th'[n].stop = mid[n].stop /\ th'[n].res = mid[n].res
  BY <1>4, <1>7 DEF Ring!ThreadType
<1>9. /\ mid[t].startEvent = th[t].startEvent /\ mid[t].finishedEvent = th[t].finishedEvent
      /\ mid[t].stopLoop = th[t].stopLoop /\ ~mid[t].canRead
      /\ mid[t].stopReading = th[t].stopReading /\ mid[t].canWrite = th[t].canWrite
      /\ mid[t].stopWriting = th[t].stopWriting /\ mid[t].block = th[t].block
      /\ mid[t].stop = th[t].stop /\ mid[t].res = th[t].res
  BY <1>1, <1>2 DEF Ring!ThreadType
<1>10. \A u \in Ring!Threads :
         /\ th'[u].pc = mid[u].pc
         /\ th'[u].startEvent = mid[u].startEvent
         /\ th'[u].finishedEvent = mid[u].finishedEvent /\ th'[u].stopLoop = mid[u].stopLoop
         /\ (th'[u].canRead <=> mid[u].canRead \/ u = n)
         /\ (th'[u].stopReading <=> mid[u].stopReading \/ u = n)
         /\ th'[u].canWrite = mid[u].canWrite /\ th'[u].stopWriting = mid[u].stopWriting
         /\ th'[u].block = mid[u].block /\ th'[u].stop = mid[u].stop
         /\ th'[u].res = mid[u].res
  BY <1>7, <1>8
<1>11. \A u \in Ring!Threads :
         /\ mid[u].startEvent = th[u].startEvent
         /\ mid[u].finishedEvent = th[u].finishedEvent /\ mid[u].stopLoop = th[u].stopLoop
         /\ (mid[u].canRead <=> th[u].canRead /\ u # t)
         /\ mid[u].stopReading = th[u].stopReading /\ mid[u].canWrite = th[u].canWrite
         /\ mid[u].stopWriting = th[u].stopWriting /\ mid[u].block = th[u].block
         /\ mid[u].stop = th[u].stop /\ mid[u].res = th[u].res
  BY <1>3, <1>9
<1>12. \A u \in Ring!Threads :
         /\ th'[u].startEvent = th[u].startEvent
         /\ th'[u].finishedEvent = th[u].finishedEvent /\ th'[u].stopLoop = th[u].stopLoop
         /\ (th'[u].canRead <=> (th[u].canRead /\ u # t) \/ u = n)
         /\ (th'[u].stopReading <=> th[u].stopReading \/ u = n)
         /\ th'[u].canWrite = th[u].canWrite /\ th'[u].stopWriting = th[u].stopWriting
         /\ th'[u].block = th[u].block /\ th'[u].stop = th[u].stop /\ th'[u].res = th[u].res
  BY <1>10, <1>11
<1>13. RingMoves(t, "canRead", "finished")
  BY <1>3, <1>6, <1>10 DEF RingMoves
<1> QED
  BY <1>t, <1>12, <1>13 DEF Ring!StopReading, RingKeepsLoop, RingKeepsWriting, RingKeepsBlocks, RingKeepsResults, n

LEMMA RingReadEffect ==
  ASSUME Ring!TypeOK, NEW t \in Ring!Threads, Ring!Read(t), io.read < NumBlocks, th'[t].pc # "error"
  PROVE  /\ th' \in [Ring!Threads -> Ring!ThreadType]
         /\ RingMoves(t, "read", "code") /\ io.read + 1 \in 0..NumBlocks
         /\ \A u \in Ring!Threads :
              /\ th'[u].canRead <=> th[u].canRead \/ u = Ring!NextThread(t)
              /\ th'[u].stopReading = IF u = Ring!NextThread(t) THEN io.read + 1 = NumBlocks
                                      ELSE th[u].stopReading
              /\ th'[u].block = IF u = t THEN io.read + 1 ELSE th[u].block
              /\ th'[u].stop = IF u = t THEN io.read + 1 = NumBlocks ELSE th[u].stop
         /\ RingKeepsLoop /\ RingKeepsWriting /\ RingKeepsResults
         /\ coder' = coder /\ io' \in Ring!IoType /\ io'.read = io.read + 1 /\ io'.written = io.written
<1> DEFINE n == Ring!NextThread(t)
           last == (io.read + 1 = NumBlocks)
           mid == [th EXCEPT ![t].pc = "code", ![t].block = io.read + 1, ![t].stop = last]
<1>1. th \in [Ring!Threads -> Ring!ThreadType] /\ n \in Ring!Threads /\ th[t] \in Ring!ThreadType
  BY RingProperties DEF Ring!TypeOK
<1>2. mid[t] = [th[t] EXCEPT !.pc = "code", !.block = io.read + 1, !.stop = last]
  BY <1>1
<1>3. \A u \in Ring!Threads \ {t} : mid[u] = th[u]
  BY <1>1
<1>a. ~Ring!Fail(t, "read") /\ last \in BOOLEAN
  BY <1>1 DEF Ring!Fail, Ring!ThreadType
<1>b. io.read + 1 \in 0..NumBlocks
  <2>1. io.read \in Nat /\ NumBlocks \in Nat
    BY RingProperties, RingFlowProperties
  <2> QED
    BY <2>1
<1>4. mid \in [Ring!Threads -> Ring!ThreadType] /\ mid[n] \in Ring!ThreadType
  BY <1>1, <1>a, <1>b DEF Ring!ThreadType, Ring!ThreadPcs
<1>5. th' = [mid EXCEPT ![n].stopReading = last, ![n].canRead = TRUE]
  BY <1>a DEF Ring!Read
<1>6. th[t].pc = "read" /\ mid[t].pc = "code"
  BY <1>1, <1>2 DEF Ring!Read, Ring!ThreadType
<1> HIDE DEF mid, n, last
<1>7. th'[n] = [mid[n] EXCEPT !.stopReading = last, !.canRead = TRUE] /\ \A u \in Ring!Threads \ {n} : th'[u] = mid[u]
  BY <1>1, <1>4, <1>5
<1>t. th' \in [Ring!Threads -> Ring!ThreadType]
  BY <1>1, <1>4, <1>5, <1>a DEF Ring!ThreadType, last
<1>8. /\ th'[n].pc = mid[n].pc
      /\ th'[n].startEvent = mid[n].startEvent
      /\ th'[n].finishedEvent = mid[n].finishedEvent /\ th'[n].stopLoop = mid[n].stopLoop
      /\ th'[n].canRead /\ th'[n].stopReading = last /\ th'[n].canWrite = mid[n].canWrite
      /\ th'[n].stopWriting = mid[n].stopWriting /\ th'[n].block = mid[n].block
      /\ th'[n].stop = mid[n].stop /\ th'[n].res = mid[n].res
  BY <1>4, <1>7 DEF Ring!ThreadType
<1>9. /\ mid[t].startEvent = th[t].startEvent /\ mid[t].finishedEvent = th[t].finishedEvent
      /\ mid[t].stopLoop = th[t].stopLoop /\ mid[t].canRead = th[t].canRead
      /\ mid[t].stopReading = th[t].stopReading /\ mid[t].canWrite = th[t].canWrite
      /\ mid[t].stopWriting = th[t].stopWriting /\ mid[t].block = io.read + 1
      /\ mid[t].stop = last /\ mid[t].res = th[t].res
  BY <1>1, <1>2 DEF Ring!ThreadType
<1>10. \A u \in Ring!Threads :
         /\ th'[u].pc = mid[u].pc
         /\ th'[u].startEvent = mid[u].startEvent
         /\ th'[u].finishedEvent = mid[u].finishedEvent /\ th'[u].stopLoop = mid[u].stopLoop
         /\ (th'[u].canRead <=> mid[u].canRead \/ u = n)
         /\ th'[u].stopReading = (IF u = n THEN last ELSE mid[u].stopReading)
         /\ th'[u].canWrite = mid[u].canWrite /\ th'[u].stopWriting = mid[u].stopWriting
         /\ th'[u].block = mid[u].block /\ th'[u].stop = mid[u].stop
         /\ th'[u].res = mid[u].res
  BY <1>7, <1>8
<1>11. \A u \in Ring!Threads :
         /\ mid[u].startEvent = th[u].startEvent
         /\ mid[u].finishedEvent = th[u].finishedEvent /\ mid[u].stopLoop = th[u].stopLoop
         /\ mid[u].canRead = th[u].canRead /\ mid[u].stopReading = th[u].stopReading
         /\ mid[u].canWrite = th[u].canWrite /\ mid[u].stopWriting = th[u].stopWriting
         /\ mid[u].block = (IF u = t THEN io.read + 1 ELSE th[u].block)
         /\ mid[u].stop = (IF u = t THEN last ELSE th[u].stop) /\ mid[u].res = th[u].res
  BY <1>3, <1>9
<1>12. \A u \in Ring!Threads :
         /\ th'[u].startEvent = th[u].startEvent
         /\ th'[u].finishedEvent = th[u].finishedEvent /\ th'[u].stopLoop = th[u].stopLoop
         /\ (th'[u].canRead <=> th[u].canRead \/ u = n)
         /\ th'[u].stopReading = (IF u = n THEN last ELSE th[u].stopReading)
         /\ th'[u].canWrite = th[u].canWrite /\ th'[u].stopWriting = th[u].stopWriting
         /\ th'[u].block = (IF u = t THEN io.read + 1 ELSE th[u].block)
         /\ th'[u].stop = (IF u = t THEN last ELSE th[u].stop) /\ th'[u].res = th[u].res
  BY <1>10, <1>11
<1>13. RingMoves(t, "read", "code")
  BY <1>3, <1>6, <1>10 DEF RingMoves
<1>14. coder' = coder /\ io' \in Ring!IoType /\ io'.read = io.read + 1 /\ io'.written = io.written
  <2>1. io' = [io EXCEPT !.read = io.read + 1] /\ coder' = coder
    BY <1>a DEF Ring!Read
  <2> QED
    BY <1>b, <2>1 DEF Ring!TypeOK, Ring!IoType
<1> QED
  BY <1>b, <1>t, <1>12, <1>13, <1>14 DEF RingKeepsLoop, RingKeepsWriting, RingKeepsResults, n, last

LEMMA RingWriteEffect ==
  ASSUME Ring!TypeOK, NEW t \in Ring!Threads, Ring!Write(t), th'[t].pc # "error"
  PROVE  /\ th' \in [Ring!Threads -> Ring!ThreadType]
         /\ RingMoves(t, "write", IF th[t].stop THEN "finished" ELSE "canRead")
         /\ \A u \in Ring!Threads : /\ th'[u].canWrite <=> th[u].canWrite \/ u = Ring!NextThread(t)
                                    /\ th'[u].stopWriting = th[u].stopWriting
         /\ RingKeepsLoop /\ RingKeepsReading /\ RingKeepsBlocks /\ RingKeepsResults
         /\ coder' = coder /\ io' \in Ring!IoType
         /\ io'.read = io.read /\ io'.written = Append(io.written, th[t].block)
<1> DEFINE n == Ring!NextThread(t)
           p == IF th[t].stop THEN "finished" ELSE "canRead"
           mid == [th EXCEPT ![t].pc = p]
<1>1. th \in [Ring!Threads -> Ring!ThreadType] /\ n \in Ring!Threads /\ th[t] \in Ring!ThreadType
  BY RingProperties DEF Ring!TypeOK
<1>2. mid[t] = [th[t] EXCEPT !.pc = p]
  BY <1>1
<1>3. \A u \in Ring!Threads \ {t} : mid[u] = th[u]
  BY <1>1
<1>a. ~Ring!Fail(t, "write")
  BY <1>1 DEF Ring!Fail, Ring!ThreadType
<1>4. mid \in [Ring!Threads -> Ring!ThreadType] /\ mid[n] \in Ring!ThreadType
  BY <1>1 DEF Ring!ThreadType, Ring!ThreadPcs
<1>5. th' = [mid EXCEPT ![n].canWrite = TRUE]
  BY <1>a DEF Ring!Write
<1>6. th[t].pc = "write" /\ mid[t].pc = p
  BY <1>1, <1>2 DEF Ring!Write, Ring!ThreadType
<1> HIDE DEF mid, n, p
<1>7. th'[n] = [mid[n] EXCEPT !.canWrite = TRUE] /\ \A u \in Ring!Threads \ {n} : th'[u] = mid[u]
  BY <1>1, <1>4, <1>5
<1>t. th' \in [Ring!Threads -> Ring!ThreadType]
  BY <1>1, <1>4, <1>5 DEF Ring!ThreadType
<1>8. /\ th'[n].pc = mid[n].pc
      /\ th'[n].startEvent = mid[n].startEvent
      /\ th'[n].finishedEvent = mid[n].finishedEvent /\ th'[n].stopLoop = mid[n].stopLoop
      /\ th'[n].canRead = mid[n].canRead /\ th'[n].stopReading = mid[n].stopReading
      /\ th'[n].canWrite /\ th'[n].stopWriting = mid[n].stopWriting
      /\ th'[n].block = mid[n].block /\ th'[n].stop = mid[n].stop /\ th'[n].res = mid[n].res
  BY <1>4, <1>7 DEF Ring!ThreadType
<1>9. /\ mid[t].startEvent = th[t].startEvent /\ mid[t].finishedEvent = th[t].finishedEvent
      /\ mid[t].stopLoop = th[t].stopLoop /\ mid[t].canRead = th[t].canRead
      /\ mid[t].stopReading = th[t].stopReading /\ mid[t].canWrite = th[t].canWrite
      /\ mid[t].stopWriting = th[t].stopWriting /\ mid[t].block = th[t].block
      /\ mid[t].stop = th[t].stop /\ mid[t].res = th[t].res
  BY <1>1, <1>2 DEF Ring!ThreadType
<1>10. \A u \in Ring!Threads :
         /\ th'[u].pc = mid[u].pc
         /\ th'[u].startEvent = mid[u].startEvent
         /\ th'[u].finishedEvent = mid[u].finishedEvent /\ th'[u].stopLoop = mid[u].stopLoop
         /\ th'[u].canRead = mid[u].canRead /\ th'[u].stopReading = mid[u].stopReading
         /\ (th'[u].canWrite <=> mid[u].canWrite \/ u = n)
         /\ th'[u].stopWriting = mid[u].stopWriting /\ th'[u].block = mid[u].block
         /\ th'[u].stop = mid[u].stop /\ th'[u].res = mid[u].res
  BY <1>7, <1>8
<1>11. \A u \in Ring!Threads :
         /\ mid[u].startEvent = th[u].startEvent
         /\ mid[u].finishedEvent = th[u].finishedEvent /\ mid[u].stopLoop = th[u].stopLoop
         /\ mid[u].canRead = th[u].canRead /\ mid[u].stopReading = th[u].stopReading
         /\ mid[u].canWrite = th[u].canWrite /\ mid[u].stopWriting = th[u].stopWriting
         /\ mid[u].block = th[u].block /\ mid[u].stop = th[u].stop /\ mid[u].res = th[u].res
  BY <1>3, <1>9
<1>12. \A u \in Ring!Threads :
         /\ th'[u].startEvent = th[u].startEvent
         /\ th'[u].finishedEvent = th[u].finishedEvent /\ th'[u].stopLoop = th[u].stopLoop
         /\ th'[u].canRead = th[u].canRead /\ th'[u].stopReading = th[u].stopReading
         /\ (th'[u].canWrite <=> th[u].canWrite \/ u = n)
         /\ th'[u].stopWriting = th[u].stopWriting /\ th'[u].block = th[u].block
         /\ th'[u].stop = th[u].stop /\ th'[u].res = th[u].res
  BY <1>10, <1>11
<1>13. RingMoves(t, "write", p)
  BY <1>3, <1>6, <1>10 DEF RingMoves
<1>14. /\ coder' = coder /\ io' \in Ring!IoType
       /\ io'.read = io.read /\ io'.written = Append(io.written, th[t].block)
  <2>1. io' = [io EXCEPT !.written = Append(io.written, th[t].block)] /\ coder' = coder
    BY <1>a DEF Ring!Write
  <2>2. Append(io.written, th[t].block) \in Seq(0..NumBlocks)
    BY <1>1, AppendProperties DEF Ring!TypeOK, Ring!IoType, Ring!ThreadType
  <2> QED
    BY <2>1, <2>2 DEF Ring!TypeOK, Ring!IoType
<1> QED
  BY <1>t, <1>12, <1>13, <1>14 DEF RingKeepsLoop, RingKeepsReading, RingKeepsBlocks, RingKeepsResults, n, p

LEMMA RingStopNextEffect ==
  ASSUME Ring!TypeOK, NEW t \in Ring!Threads, Ring!StopNext(t)
  PROVE  /\ th' \in [Ring!Threads -> Ring!ThreadType]
         /\ RingMoves(t, "stopNext", "wakeNext")
         /\ \A u \in Ring!Threads :
              /\ th'[u].stopReading <=> th[u].stopReading \/ u = Ring!NextThread(t)
              /\ th'[u].stopWriting <=> th[u].stopWriting \/ u = Ring!NextThread(t)
              /\ th'[u].canRead = th[u].canRead /\ th'[u].canWrite = th[u].canWrite
         /\ RingKeepsLoop /\ RingKeepsBlocks /\ RingKeepsResults
         /\ coder'.res = coder.res /\ coder'.progress = Ring!First(coder.progress, th[t].res) /\ io' = io
<1> DEFINE n == Ring!NextThread(t)
           mid == [th EXCEPT ![t].pc = "wakeNext"]
<1>1. th \in [Ring!Threads -> Ring!ThreadType] /\ n \in Ring!Threads /\ th[t] \in Ring!ThreadType
  BY RingProperties DEF Ring!TypeOK
<1>2. mid[t] = [th[t] EXCEPT !.pc = "wakeNext"]
  BY <1>1
<1>3. \A u \in Ring!Threads \ {t} : mid[u] = th[u]
  BY <1>1
<1>4. mid \in [Ring!Threads -> Ring!ThreadType] /\ mid[n] \in Ring!ThreadType
  BY <1>1 DEF Ring!StopNext, Ring!ThreadType, Ring!ThreadPcs
<1>5. th' = [mid EXCEPT ![n].stopReading = TRUE, ![n].stopWriting = TRUE]
  BY DEF Ring!StopNext
<1>6. th[t].pc = "stopNext" /\ mid[t].pc = "wakeNext"
  BY <1>1, <1>2 DEF Ring!StopNext, Ring!ThreadType
<1> HIDE DEF mid, n
<1>7. th'[n] = [mid[n] EXCEPT !.stopReading = TRUE, !.stopWriting = TRUE] /\ \A u \in Ring!Threads \ {n} : th'[u] = mid[u]
  BY <1>1, <1>4, <1>5
<1>t. th' \in [Ring!Threads -> Ring!ThreadType]
  BY <1>1, <1>4, <1>5 DEF Ring!ThreadType
<1>8. /\ th'[n].pc = mid[n].pc
      /\ th'[n].startEvent = mid[n].startEvent
      /\ th'[n].finishedEvent = mid[n].finishedEvent /\ th'[n].stopLoop = mid[n].stopLoop
      /\ th'[n].canRead = mid[n].canRead /\ th'[n].stopReading
      /\ th'[n].canWrite = mid[n].canWrite /\ th'[n].stopWriting
      /\ th'[n].block = mid[n].block /\ th'[n].stop = mid[n].stop /\ th'[n].res = mid[n].res
  BY <1>4, <1>7 DEF Ring!ThreadType
<1>9. /\ mid[t].startEvent = th[t].startEvent /\ mid[t].finishedEvent = th[t].finishedEvent
      /\ mid[t].stopLoop = th[t].stopLoop /\ mid[t].canRead = th[t].canRead
      /\ mid[t].stopReading = th[t].stopReading /\ mid[t].canWrite = th[t].canWrite
      /\ mid[t].stopWriting = th[t].stopWriting /\ mid[t].block = th[t].block
      /\ mid[t].stop = th[t].stop /\ mid[t].res = th[t].res
  BY <1>1, <1>2 DEF Ring!ThreadType
<1>10. \A u \in Ring!Threads :
         /\ th'[u].pc = mid[u].pc
         /\ th'[u].startEvent = mid[u].startEvent
         /\ th'[u].finishedEvent = mid[u].finishedEvent /\ th'[u].stopLoop = mid[u].stopLoop
         /\ th'[u].canRead = mid[u].canRead
         /\ (th'[u].stopReading <=> mid[u].stopReading \/ u = n)
         /\ th'[u].canWrite = mid[u].canWrite
         /\ (th'[u].stopWriting <=> mid[u].stopWriting \/ u = n)
         /\ th'[u].block = mid[u].block /\ th'[u].stop = mid[u].stop
         /\ th'[u].res = mid[u].res
  BY <1>7, <1>8
<1>11. \A u \in Ring!Threads :
         /\ mid[u].startEvent = th[u].startEvent
         /\ mid[u].finishedEvent = th[u].finishedEvent /\ mid[u].stopLoop = th[u].stopLoop
         /\ mid[u].canRead = th[u].canRead /\ mid[u].stopReading = th[u].stopReading
         /\ mid[u].canWrite = th[u].canWrite /\ mid[u].stopWriting = th[u].stopWriting
         /\ mid[u].block = th[u].block /\ mid[u].stop = th[u].stop /\ mid[u].res = th[u].res
  BY <1>3, <1>9
<1>12. \A u \in Ring!Threads :
         /\ th'[u].startEvent = th[u].startEvent
         /\ th'[u].finishedEvent = th[u].finishedEvent /\ th'[u].stopLoop = th[u].stopLoop
         /\ th'[u].canRead = th[u].canRead
         /\ (th'[u].stopReading <=> th[u].stopReading \/ u = n)
         /\ th'[u].canWrite = th[u].canWrite
         /\ (th'[u].stopWriting <=> th[u].stopWriting \/ u = n)
         /\ th'[u].block = th[u].block /\ th'[u].stop = th[u].stop /\ th'[u].res = th[u].res
  BY <1>10, <1>11
<1>13. RingMoves(t, "stopNext", "wakeNext")
  BY <1>3, <1>6, <1>10 DEF RingMoves
<1>14. coder'.res = coder.res /\ coder'.progress = Ring!First(coder.progress, th[t].res) /\ io' = io
  BY DEF Ring!StopNext, Ring!TypeOK, Ring!MtType
<1> QED
  BY <1>t, <1>12, <1>13, <1>14 DEF RingKeepsLoop, RingKeepsBlocks, RingKeepsResults, n

LEMMA RingWakeNextEffect ==
  ASSUME Ring!TypeOK, NEW t \in Ring!Threads, Ring!WakeNext(t)
  PROVE  /\ th' \in [Ring!Threads -> Ring!ThreadType]
         /\ RingMoves(t, "wakeNext", "finished")
         /\ \A u \in Ring!Threads :
              /\ th'[u].canRead <=> th[u].canRead \/ u = Ring!NextThread(t)
              /\ th'[u].canWrite <=> th[u].canWrite \/ u = Ring!NextThread(t)
              /\ th'[u].stopReading = th[u].stopReading
              /\ th'[u].stopWriting = th[u].stopWriting
         /\ RingKeepsLoop /\ RingKeepsBlocks /\ RingKeepsResults
         /\ coder' = coder /\ io' = io
<1> DEFINE n == Ring!NextThread(t)
           mid == [th EXCEPT ![t].pc = "finished"]
<1>1. th \in [Ring!Threads -> Ring!ThreadType] /\ n \in Ring!Threads /\ th[t] \in Ring!ThreadType
  BY RingProperties DEF Ring!TypeOK
<1>2. mid[t] = [th[t] EXCEPT !.pc = "finished"]
  BY <1>1
<1>3. \A u \in Ring!Threads \ {t} : mid[u] = th[u]
  BY <1>1
<1>4. mid \in [Ring!Threads -> Ring!ThreadType] /\ mid[n] \in Ring!ThreadType
  BY <1>1 DEF Ring!WakeNext, Ring!ThreadType, Ring!ThreadPcs
<1>5. th' = [mid EXCEPT ![n].canRead = TRUE, ![n].canWrite = TRUE]
  BY DEF Ring!WakeNext
<1>6. th[t].pc = "wakeNext" /\ mid[t].pc = "finished"
  BY <1>1, <1>2 DEF Ring!WakeNext, Ring!ThreadType
<1> HIDE DEF mid, n
<1>7. th'[n] = [mid[n] EXCEPT !.canRead = TRUE, !.canWrite = TRUE] /\ \A u \in Ring!Threads \ {n} : th'[u] = mid[u]
  BY <1>1, <1>4, <1>5
<1>t. th' \in [Ring!Threads -> Ring!ThreadType]
  BY <1>1, <1>4, <1>5 DEF Ring!ThreadType
<1>8. /\ th'[n].pc = mid[n].pc
      /\ th'[n].startEvent = mid[n].startEvent
      /\ th'[n].finishedEvent = mid[n].finishedEvent /\ th'[n].stopLoop = mid[n].stopLoop
      /\ th'[n].canRead /\ th'[n].stopReading = mid[n].stopReading /\ th'[n].canWrite
      /\ th'[n].stopWriting = mid[n].stopWriting /\ th'[n].block = mid[n].block
      /\ th'[n].stop = mid[n].stop /\ th'[n].res = mid[n].res
  BY <1>4, <1>7 DEF Ring!ThreadType
<1>9. /\ mid[t].startEvent = th[t].startEvent /\ mid[t].finishedEvent = th[t].finishedEvent
      /\ mid[t].stopLoop = th[t].stopLoop /\ mid[t].canRead = th[t].canRead
      /\ mid[t].stopReading = th[t].stopReading /\ mid[t].canWrite = th[t].canWrite
      /\ mid[t].stopWriting = th[t].stopWriting /\ mid[t].block = th[t].block
      /\ mid[t].stop = th[t].stop /\ mid[t].res = th[t].res
  BY <1>1, <1>2 DEF Ring!ThreadType
<1>10. \A u \in Ring!Threads :
         /\ th'[u].pc = mid[u].pc
         /\ th'[u].startEvent = mid[u].startEvent
         /\ th'[u].finishedEvent = mid[u].finishedEvent /\ th'[u].stopLoop = mid[u].stopLoop
         /\ (th'[u].canRead <=> mid[u].canRead \/ u = n)
         /\ th'[u].stopReading = mid[u].stopReading
         /\ (th'[u].canWrite <=> mid[u].canWrite \/ u = n)
         /\ th'[u].stopWriting = mid[u].stopWriting /\ th'[u].block = mid[u].block
         /\ th'[u].stop = mid[u].stop /\ th'[u].res = mid[u].res
  BY <1>7, <1>8
<1>11. \A u \in Ring!Threads :
         /\ mid[u].startEvent = th[u].startEvent
         /\ mid[u].finishedEvent = th[u].finishedEvent /\ mid[u].stopLoop = th[u].stopLoop
         /\ mid[u].canRead = th[u].canRead /\ mid[u].stopReading = th[u].stopReading
         /\ mid[u].canWrite = th[u].canWrite /\ mid[u].stopWriting = th[u].stopWriting
         /\ mid[u].block = th[u].block /\ mid[u].stop = th[u].stop /\ mid[u].res = th[u].res
  BY <1>3, <1>9
<1>12. \A u \in Ring!Threads :
         /\ th'[u].startEvent = th[u].startEvent
         /\ th'[u].finishedEvent = th[u].finishedEvent /\ th'[u].stopLoop = th[u].stopLoop
         /\ (th'[u].canRead <=> th[u].canRead \/ u = n)
         /\ th'[u].stopReading = th[u].stopReading
         /\ (th'[u].canWrite <=> th[u].canWrite \/ u = n)
         /\ th'[u].stopWriting = th[u].stopWriting /\ th'[u].block = th[u].block
         /\ th'[u].stop = th[u].stop /\ th'[u].res = th[u].res
  BY <1>10, <1>11
<1>13. RingMoves(t, "wakeNext", "finished")
  BY <1>3, <1>6, <1>10 DEF RingMoves
<1> QED
  BY <1>t, <1>12, <1>13 DEF Ring!WakeNext, RingKeepsLoop, RingKeepsBlocks, RingKeepsResults, n

LEMMA RingTakeWriteEffect ==
  ASSUME Ring!TypeOK, NEW t \in Ring!Threads, Ring!TakeWrite(t)
  PROVE  /\ th' \in [Ring!Threads -> Ring!ThreadType]
         /\ RingMoves(t, "canWrite", IF th[t].stopWriting THEN "error" ELSE "write")
         /\ th[t].canWrite
         /\ \A u \in Ring!Threads : /\ th'[u].canWrite <=> th[u].canWrite /\ u # t
                                    /\ th'[u].stopWriting = th[u].stopWriting
         /\ RingFailsWith(t, IF th[t].stopWriting THEN "fail" ELSE th[t].res)
         /\ RingKeepsLoop /\ RingKeepsReading /\ RingKeepsBlocks
         /\ coder' = coder /\ io' = io
<1>1. th \in [Ring!Threads -> Ring!ThreadType]
  BY DEF Ring!TypeOK
<1> DEFINE pc == IF th[t].stopWriting THEN "error" ELSE "write"
           res == IF th[t].stopWriting THEN "fail" ELSE th[t].res
<1>2. th' = [th EXCEPT ![t].canWrite = FALSE, ![t].pc = pc, ![t].res = res]
  BY <1>1 DEF Ring!TakeWrite
<1>3. th[t].pc = "canWrite" /\ th[t].canWrite /\ coder' = coder /\ io' = io
  BY DEF Ring!TakeWrite
<1>p. pc \in Ring!ThreadPcs /\ res \in Ring!Results
  BY <1>1 DEF Ring!ThreadType, Ring!ThreadPcs, Ring!Results
<1> HIDE DEF pc, res
<1>t. th' \in [Ring!Threads -> Ring!ThreadType]
  BY <1>1, <1>2, <1>p, SMTT(30), ZenonT(30) DEF Ring!ThreadType
<1>4. /\ RingMoves(t, "canWrite", pc) /\ RingFailsWith(t, res)
      /\ \A u \in Ring!Threads : /\ th'[u].canWrite <=> th[u].canWrite /\ u # t
                                 /\ th'[u].stopWriting = th[u].stopWriting
      /\ RingKeepsLoop /\ RingKeepsReading /\ RingKeepsBlocks
  BY <1>1, <1>2, <1>3 DEF RingMoves, RingFailsWith, RingKeepsLoop, RingKeepsReading, RingKeepsBlocks, Ring!ThreadType
<1> QED
  BY <1>t, <1>3, <1>4 DEF pc, res

(* A step that only goes on, and one that fails.                           *)
LEMMA RingGotoEffect ==
  ASSUME Ring!TypeOK, NEW t \in Ring!Threads, NEW pc, Ring!Goto(t, pc)
  PROVE  /\ RingMoves(t, th[t].pc, pc)
         /\ RingKeepsLoop /\ RingKeepsReading /\ RingKeepsWriting /\ RingKeepsBlocks /\ RingKeepsResults
<1>1. th \in [Ring!Threads -> Ring!ThreadType]
  BY DEF Ring!TypeOK
<1> QED
  BY <1>1 DEF Ring!Goto, RingMoves, RingKeepsLoop, RingKeepsReading, RingKeepsWriting, RingKeepsBlocks, RingKeepsResults,
     Ring!ThreadType

LEMMA RingFailEffect ==
  ASSUME Ring!TypeOK, NEW t \in Ring!Threads, NEW res, Ring!Fail(t, res)
  PROVE  /\ RingMoves(t, th[t].pc, "error") /\ RingFailsWith(t, res)
         /\ RingKeepsLoop /\ RingKeepsReading /\ RingKeepsWriting /\ RingKeepsBlocks
<1>1. th \in [Ring!Threads -> Ring!ThreadType]
  BY DEF Ring!TypeOK
<1> QED
  BY <1>1 DEF Ring!Fail, RingMoves, RingFailsWith, RingKeepsLoop, RingKeepsReading, RingKeepsWriting, RingKeepsBlocks,
     Ring!ThreadType

LEMMA RingFinishEffect ==
  ASSUME Ring!TypeOK, NEW t \in Ring!Threads, Ring!Finish(t)
  PROVE  /\ th' \in [Ring!Threads -> Ring!ThreadType]
         /\ RingMoves(t, "finished", "loop")
         /\ \A u \in Ring!Threads : /\ th'[u].finishedEvent <=> th[u].finishedEvent \/ u = t
                                    /\ th'[u].startEvent = th[u].startEvent
         /\ RingKeepsStopLoop /\ RingKeepsReading /\ RingKeepsWriting /\ RingKeepsBlocks /\ RingKeepsResults
         /\ coder' = coder /\ io' = io
<1>1. th \in [Ring!Threads -> Ring!ThreadType]
  BY DEF Ring!TypeOK
<1>2. th' \in [Ring!Threads -> Ring!ThreadType]
  BY <1>1 DEF Ring!Finish, Ring!ThreadType, Ring!ThreadPcs
<1> QED
  BY <1>1, <1>2 DEF Ring!Finish, RingMoves, RingKeepsStopLoop, RingKeepsReading, RingKeepsWriting, RingKeepsBlocks,
     RingKeepsResults, Ring!ThreadType

LEMMA RingSetErrorEffect ==
  ASSUME Ring!TypeOK, NEW t \in Ring!Threads, Ring!SetError(t)
  PROVE  /\ RingMoves(t, "error", "stopNext")
         /\ RingKeepsLoop /\ RingKeepsReading /\ RingKeepsWriting /\ RingKeepsBlocks /\ RingKeepsResults
         /\ coder'.res = Ring!First(coder.res, th[t].res) /\ coder'.progress = coder.progress /\ io' = io
<1>1. coder'.res = Ring!First(coder.res, th[t].res) /\ coder'.progress = coder.progress
  BY DEF Ring!SetError, Ring!TypeOK, Ring!MtType
<1> QED
  BY <1>1, RingGotoEffect DEF Ring!SetError

LEMMA RingCodeEffect ==
  ASSUME Ring!TypeOK, NEW t \in Ring!Threads, Ring!Code(t)
  PROVE  /\ th[t].pc = "code" /\ io' = io /\ coder'.res = coder.res
         /\ coder' \in Ring!MtType /\ coder'.progress \in Ring!Faults \cup {coder.progress}
         /\ coder.progress # "ok" => coder'.progress = coder.progress
         /\ \/ Ring!Goto(t, "canWrite")
            \/ \E r \in Ring!Faults \cup {coder.progress} : r # "ok" /\ Ring!Fail(t, r)
<1>1. th[t].pc = "code" /\ io' = io /\ coder \in Ring!MtType
  BY DEF Ring!Code, Ring!TypeOK
<1>2. CASE Ring!Goto(t, "canWrite") /\ UNCHANGED coder
  BY <1>1, <1>2
<1>3. CASE CodeFaults /\ Ring!Fail(t, "code") /\ UNCHANGED coder
  <2>1. "code" \in Ring!Faults /\ "code" # "ok"
    BY <1>3 DEF Ring!Faults
  <2> QED
    BY <1>1, <1>3, <2>1
<1>4. CASE /\ AbortFaults /\ coder' = [coder EXCEPT !.progress = Ring!First(@, "abort")]
           /\ Ring!Fail(t, Ring!First(coder.progress, "abort"))
  <2>1. "abort" \in Ring!Faults /\ "abort" # "ok"
    BY <1>4 DEF Ring!Faults
  <2>2. Ring!First(coder.progress, "abort") \in Ring!Faults \cup {coder.progress}
    BY <2>1 DEF Ring!First
  <2>3. Ring!First(coder.progress, "abort") # "ok" /\ (coder.progress # "ok" => Ring!First(coder.progress, "abort") = coder.progress)
    BY DEF Ring!First
  <2>4. coder'.res = coder.res /\ coder'.progress = Ring!First(coder.progress, "abort")
    BY <1>4 DEF Ring!TypeOK, Ring!MtType
  <2>5. coder' \in Ring!MtType
    <3>1. Ring!First(coder.progress, "abort") \in Ring!Results
      BY <1>1 DEF Ring!First, Ring!MtType, Ring!Results
    <3> QED
      BY <1>1, <1>4, <3>1 DEF Ring!MtType
  <2> QED
    BY <1>1, <1>4, <2>2, <2>3, <2>4, <2>5
<1>5. CASE coder.progress # "ok" /\ Ring!Fail(t, coder.progress) /\ UNCHANGED coder
  BY <1>1, <1>5
<1> QED
  BY <1>2, <1>3, <1>4, <1>5 DEF Ring!Code

(* The steps in two groups: those that have to do with the right to read   *)
(* or to write, and the failures.                                          *)
RingFailing(t, r) ==
  /\ Ring!Fail(t, r) /\ th[t].pc \in {"read", "code", "write"} /\ r # "ok"
  /\ r \in Ring!Faults \cup {coder.progress}
  /\ coder' \in Ring!MtType /\ io' = io /\ coder'.res = coder.res /\ coder'.progress \in Ring!Faults \cup {coder.progress}
  /\ coder.progress # "ok" => coder'.progress = coder.progress

RingGoing(t) ==
  /\ Ring!Goto(t, "canWrite") /\ th[t].pc = "code"
  /\ coder' \in Ring!MtType /\ io' = io /\ coder'.res = coder.res /\ coder'.progress \in Ring!Faults \cup {coder.progress}
  /\ coder.progress # "ok" => coder'.progress = coder.progress

LEMMA RingOutcomes ==
  ASSUME Ring!TypeOK, NEW t \in Ring!Threads, Ring!ThreadStep(t)
  PROVE  /\ main' = main
         /\ \/ Ring!Wake(t) \/ Ring!TakeRead(t) \/ Ring!StopReading(t) \/ Ring!TakeWrite(t)
            \/ Ring!SetError(t) \/ Ring!StopNext(t) \/ Ring!WakeNext(t) \/ Ring!Finish(t)
            \/ Ring!Read(t) /\ th'[t].pc # "error"
            \/ Ring!Write(t) /\ th'[t].pc # "error"
            \/ RingGoing(t) \/ \E r \in Ring!Faults \cup {coder.progress} : RingFailing(t, r)
<1>1. main' = main
  BY DEF Ring!ThreadStep, Ring!Wake, Ring!TakeRead, Ring!StopReading, Ring!Read, Ring!Code, Ring!TakeWrite, Ring!Write, Ring!SetError,
     Ring!StopNext, Ring!WakeNext, Ring!Finish
<1>2. CASE Ring!Read(t) /\ ReadFaults /\ Ring!Fail(t, "read") /\ UNCHANGED io
  <2>1. "read" \in Ring!Faults
    BY <1>2 DEF Ring!Faults
  <2> QED
    BY <1>1, <1>2, <2>1 DEF RingFailing, Ring!Read, Ring!TypeOK
<1>3. CASE Ring!Write(t) /\ WriteFaults /\ Ring!Fail(t, "write") /\ UNCHANGED io
  <2>1. "write" \in Ring!Faults
    BY <1>3 DEF Ring!Faults
  <2> QED
    BY <1>1, <1>3, <2>1 DEF RingFailing, Ring!Write, Ring!TypeOK
<1>4. CASE Ring!Code(t)
  BY <1>1, <1>4, RingCodeEffect DEF RingFailing, RingGoing
<1>5. Ring!Read(t) /\ ~(ReadFaults /\ Ring!Fail(t, "read") /\ UNCHANGED io) => th'[t].pc # "error"
  <2> DEFINE n == Ring!NextThread(t)
             last == io.read + 1 = NumBlocks
             mid == [th EXCEPT ![t].pc = "code", ![t].block = io.read + 1, ![t].stop = last]
  <2> SUFFICES ASSUME th' = [mid EXCEPT ![n].stopReading = last, ![n].canRead = TRUE]
               PROVE  th'[t].pc # "error"
    BY DEF Ring!Read
  <2>1. th \in [Ring!Threads -> Ring!ThreadType] /\ n \in Ring!Threads
    BY RingProperties DEF Ring!TypeOK
  <2>2. mid[t].pc = "code" /\ DOMAIN mid = Ring!Threads
    BY <2>1 DEF Ring!ThreadType
  <2> HIDE DEF mid, last, n
  <2> QED
    BY <2>1, <2>2
<1>6. Ring!Write(t) /\ ~(WriteFaults /\ Ring!Fail(t, "write") /\ UNCHANGED io) => th'[t].pc # "error"
  <2> DEFINE n == Ring!NextThread(t)
             p == IF th[t].stop THEN "finished" ELSE "canRead"
             mid == [th EXCEPT ![t].pc = p]
  <2> SUFFICES ASSUME th' = [mid EXCEPT ![n].canWrite = TRUE]
               PROVE  th'[t].pc # "error"
    BY DEF Ring!Write
  <2>1. th \in [Ring!Threads -> Ring!ThreadType] /\ n \in Ring!Threads
    BY RingProperties DEF Ring!TypeOK
  <2>2. mid[t].pc = p /\ DOMAIN mid = Ring!Threads /\ p # "error"
    BY <2>1 DEF Ring!ThreadType
  <2> HIDE DEF mid, p, n
  <2> QED
    BY <2>1, <2>2
<1> QED
  BY <1>1, <1>2, <1>3, <1>4, <1>5, <1>6 DEF Ring!ThreadStep

LEMMA RingFaultsAreResults == Ring!Faults \subseteq Ring!Results \ {"ok", "fail"}
BY DEF Ring!Faults, Ring!Results

LEMMA RingThreadTypeOK ==
  ASSUME Ring!TypeOK, NEW t \in Ring!Threads, Ring!ThreadStep(t), th[t].pc = "read" => io.read < NumBlocks
  PROVE  Ring!TypeOK'
<1>1. main' = main
  BY RingOutcomes
<1>2. main \in Ring!MainType /\ th \in [Ring!Threads -> Ring!ThreadType] /\ coder \in Ring!MtType /\ io \in Ring!IoType
  BY DEF Ring!TypeOK
<1>3. th[t].res \in Ring!Results /\ th[t].block \in 0..NumBlocks
  BY <1>2 DEF Ring!ThreadType
<1>4. CASE Ring!Read(t) /\ th'[t].pc # "error"
  <2>1. th' \in [Ring!Threads -> Ring!ThreadType] /\ io' \in Ring!IoType /\ coder' = coder
    BY <1>4, RingReadEffect DEF Ring!Read
  <2> QED
    BY <1>1, <1>2, <2>1 DEF Ring!TypeOK
<1>5. CASE Ring!Write(t) /\ th'[t].pc # "error"
  <2>1. th' \in [Ring!Threads -> Ring!ThreadType] /\ io' \in Ring!IoType /\ coder' = coder
    BY <1>5, RingWriteEffect
  <2> QED
    BY <1>1, <1>2, <2>1 DEF Ring!TypeOK
<1>6. CASE Ring!SetError(t)
  <2>1. th' \in [Ring!Threads -> Ring!ThreadType]
    BY <1>2, <1>6 DEF Ring!SetError, Ring!Goto, Ring!ThreadType, Ring!ThreadPcs
  <2>2. coder' \in Ring!MtType
    <3>1. Ring!First(coder.res, th[t].res) \in Ring!Results
      BY <1>2, <1>3 DEF Ring!First, Ring!MtType
    <3> QED
      BY <1>2, <1>6, <3>1 DEF Ring!SetError, Ring!MtType
  <2> QED
    BY <1>1, <1>2, <1>6, <2>1, <2>2 DEF Ring!TypeOK, Ring!SetError
<1>7. CASE Ring!StopNext(t)
  <2>1. th' \in [Ring!Threads -> Ring!ThreadType] /\ io' = io
    BY <1>7, RingStopNextEffect
  <2>2. coder' \in Ring!MtType
    <3>1. Ring!First(coder.progress, th[t].res) \in Ring!Results
      BY <1>2, <1>3 DEF Ring!First, Ring!MtType
    <3> QED
      BY <1>2, <1>7, <3>1 DEF Ring!StopNext, Ring!MtType
  <2> QED
    BY <1>1, <1>2, <2>1, <2>2 DEF Ring!TypeOK
<1>8. CASE Ring!Wake(t) \/ Ring!TakeRead(t) \/ Ring!StopReading(t) \/ Ring!TakeWrite(t) \/ Ring!WakeNext(t) \/ Ring!Finish(t)
  <2>1. th' \in [Ring!Threads -> Ring!ThreadType] /\ coder' = coder /\ io' = io
    BY <1>8, RingWakeEffect, RingTakeReadEffect, RingStopReadingEffect, RingTakeWriteEffect, RingWakeNextEffect,
       RingFinishEffect
  <2> QED
    BY <1>1, <1>2, <2>1 DEF Ring!TypeOK
<1>9. ASSUME NEW r \in Ring!Faults \cup {coder.progress}, RingFailing(t, r) PROVE Ring!TypeOK'
  <2>1. r \in Ring!Results
    BY <1>2, RingFaultsAreResults DEF Ring!MtType
  <2>2. th' \in [Ring!Threads -> Ring!ThreadType]
    <3>1. th' = [th EXCEPT ![t].pc = "error", ![t].res = r] /\ "error" \in Ring!ThreadPcs
      BY <1>9 DEF RingFailing, Ring!Fail, Ring!ThreadPcs
    <3> QED
      BY <1>2, <2>1, <3>1 DEF Ring!ThreadType
  <2> QED
    BY <1>1, <1>2, <1>9, <2>2 DEF RingFailing, Ring!TypeOK
<1>10. CASE RingGoing(t)
  <2>1. th' \in [Ring!Threads -> Ring!ThreadType]
    <3>1. th' = [th EXCEPT ![t].pc = "canWrite"] /\ "canWrite" \in Ring!ThreadPcs
      BY <1>10 DEF RingGoing, Ring!Goto, Ring!ThreadPcs
    <3> QED
      BY <1>2, <3>1 DEF Ring!ThreadType
  <2> QED
    BY <1>1, <1>2, <1>10, <2>1 DEF RingGoing, Ring!TypeOK
<1> QED
  BY <1>4, <1>5, <1>6, <1>7, <1>8, <1>9, <1>10, RingOutcomes

-----------------------------------------------------------------------------
(* The threads and the calling thread.                                     *)
RingWorking == {"canRead", "read", "code", "canWrite", "write", "error", "stopNext", "wakeNext",
                "finished"}

(* A step of a thread moves only this thread; it wakes up, it is at work,  *)
(* or it goes back to its start event.                                     *)
LEMMA RingThreadLoop ==
  ASSUME Ring!TypeOK, NEW t \in Ring!Threads, Ring!ThreadStep(t), th[t].pc = "read" => io.read < NumBlocks
  PROVE  /\ \A u \in Ring!Threads \ {t} :
              /\ th'[u].pc = th[u].pc /\ th'[u].startEvent = th[u].startEvent
              /\ th'[u].finishedEvent = th[u].finishedEvent /\ th'[u].stopLoop = th[u].stopLoop
         /\ th'[t].stopLoop = th[t].stopLoop
         /\ \/ /\ Ring!Wake(t) /\ th[t].pc = "loop" /\ th[t].startEvent /\ ~th'[t].startEvent
               /\ th'[t].pc = (IF th[t].stopLoop THEN "exited" ELSE "canRead")
               /\ th'[t].finishedEvent = th[t].finishedEvent
            \/ /\ th[t].pc = "finished" /\ th'[t].pc = "loop" /\ th'[t].finishedEvent
               /\ th'[t].startEvent = th[t].startEvent
            \/ /\ th[t].pc \in RingWorking /\ th'[t].pc \in RingWorking
               /\ th[t].pc = "canRead" => th[t].canRead
               /\ th'[t].startEvent = th[t].startEvent
               /\ th'[t].finishedEvent = th[t].finishedEvent
<1>1. CASE Ring!Wake(t)
  <2>1. /\ th[t].pc = "loop" /\ th[t].startEvent /\ ~th'[t].startEvent
        /\ th'[t].pc = (IF th[t].stopLoop THEN "exited" ELSE "canRead")
        /\ th'[t].finishedEvent = th[t].finishedEvent /\ th'[t].stopLoop = th[t].stopLoop
    BY <1>1, RingWakeEffect DEF RingMoves, RingKeepsFinished, RingKeepsStopLoop
  <2>2. ASSUME NEW u \in Ring!Threads \ {t}
        PROVE  /\ th'[u].pc = th[u].pc /\ th'[u].startEvent = th[u].startEvent
               /\ th'[u].finishedEvent = th[u].finishedEvent /\ th'[u].stopLoop = th[u].stopLoop
    <3>1. th' = [th EXCEPT ![t].startEvent = FALSE,
                           ![t].pc = IF th[t].stopLoop THEN "exited" ELSE "canRead"]
      BY <1>1 DEF Ring!Wake
    <3> QED
      BY <3>1 DEF Ring!TypeOK
  <2> QED
    BY <1>1, <2>1, <2>2
<1>2. CASE Ring!Finish(t)
  <2>1. /\ th[t].pc = "finished" /\ th'[t].pc = "loop" /\ th'[t].finishedEvent
        /\ th'[t].startEvent = th[t].startEvent /\ th'[t].stopLoop = th[t].stopLoop
    BY <1>2, RingFinishEffect DEF RingMoves, RingKeepsStopLoop
  <2>2. ASSUME NEW u \in Ring!Threads \ {t}
        PROVE  /\ th'[u].pc = th[u].pc /\ th'[u].startEvent = th[u].startEvent
               /\ th'[u].finishedEvent = th[u].finishedEvent /\ th'[u].stopLoop = th[u].stopLoop
    <3>1. th' = [th EXCEPT ![t].finishedEvent = TRUE, ![t].pc = "loop"]
      BY <1>2 DEF Ring!Finish
    <3> QED
      BY <3>1 DEF Ring!TypeOK
  <2> QED
    BY <2>1, <2>2
<1>3. CASE Ring!TakeRead(t) \/ Ring!StopReading(t)
  BY <1>3, RingTakeReadEffect, RingStopReadingEffect DEF RingMoves, RingKeepsLoop, Ring!MayRead, RingWorking
<1>4. CASE Ring!TakeWrite(t)
  BY <1>4, RingTakeWriteEffect DEF RingMoves, RingKeepsLoop, RingWorking
<1>5. CASE Ring!SetError(t) \/ Ring!StopNext(t) \/ Ring!WakeNext(t)
  BY <1>5, RingSetErrorEffect, RingStopNextEffect, RingWakeNextEffect DEF RingMoves, RingKeepsLoop, RingWorking
<1>6. CASE Ring!Read(t) /\ th'[t].pc # "error"
  BY <1>6, RingReadEffect DEF Ring!Read, RingMoves, RingKeepsLoop, RingWorking
<1>7. CASE Ring!Write(t) /\ th'[t].pc # "error"
  BY <1>7, RingWriteEffect DEF RingMoves, RingKeepsLoop, RingWorking
<1>8. ASSUME NEW r \in Ring!Faults \cup {coder.progress}, RingFailing(t, r)
      PROVE  /\ th[t].pc \in RingWorking \ {"canRead"} /\ th'[t].pc \in RingWorking
             /\ \A u \in Ring!Threads \ {t} : th'[u].pc = th[u].pc
             /\ RingKeepsLoop
  BY <1>8, RingFailEffect DEF RingFailing, RingMoves, RingWorking
<1>9. CASE RingGoing(t)
  BY <1>9, RingGotoEffect DEF RingGoing, RingMoves, RingKeepsLoop, RingWorking
<1> QED
  <2>1. CASE \E r \in Ring!Faults \cup {coder.progress} : RingFailing(t, r)
    BY <1>8, <2>1 DEF RingKeepsLoop
  <2> QED
    BY <1>1, <1>2, <1>3, <1>4, <1>5, <1>6, <1>7, <1>9, <2>1, RingOutcomes

(* A thread that is reading has something to read.                         *)
LEMMA RingReaderReads ==
  ASSUME Ring!IInv, NEW t \in Ring!Threads, th[t].pc = "read"
  PROVE  main.pc = "await" /\ io.read < NumBlocks
<1>1. main.pc \in {"idle", "create", "start", "await", "close", "destruct", "join"}
      /\ Ring!Rendezvous(t) /\ (main.pc = "join" => main.i \in Ring!Threads)
  BY DEF Ring!IInv, Ring!TypeOK, Ring!MainType
<1>2. main.i \in Nat /\ t \in Nat
  BY RingProperties, RingMainProperties DEF Ring!IInv
<1>3. main.pc = "await"
  BY <1>1, <1>2 DEF Ring!Rendezvous
<1> QED
  BY <1>3 DEF Ring!IInv, Ring!InRing, Ring!OneReader, Ring!Reader

LEMMA RingStepPhases ==
  ASSUME Ring!IInv, NEW t \in Ring!Threads, Ring!ThreadStep(t)
  PROVE  /\ main.pc \in {"start", "await", "join"}
         /\ main.pc = "start" => Ring!Wake(t) /\ t < main.i /\ ~th[t].stopLoop
         /\ main.pc = "join" => Ring!Wake(t) /\ t = main.i /\ th[t].stopLoop
         /\ main.pc = "await" => ~th[t].stopLoop
<1>1. main.pc \in {"idle", "create", "start", "await", "close", "destruct", "join"}
      /\ Ring!Rendezvous(t) /\ (main.pc = "join" => main.i \in Ring!Threads) /\ Ring!TypeOK
  BY DEF Ring!IInv, Ring!TypeOK, Ring!MainType
<1>2. main.i \in Nat /\ t \in Nat
  BY RingProperties, RingMainProperties DEF Ring!IInv
<1>3. /\ th[t].pc \in RingWorking \/ (th[t].pc = "loop" /\ th[t].startEvent /\ Ring!Wake(t))
      /\ th[t].pc = "canRead" => th[t].canRead
  <2>1. th[t].pc = "read" => io.read < NumBlocks
    BY RingReaderReads
  <2>2. \/ Ring!Wake(t) /\ th[t].pc = "loop" /\ th[t].startEvent
        \/ th[t].pc = "finished"
        \/ th[t].pc \in RingWorking /\ (th[t].pc = "canRead" => th[t].canRead)
    BY <1>1, <2>1, RingThreadLoop
  <2> QED
    BY <2>2 DEF RingWorking
<1>4. main.pc \notin {"idle", "create", "close"}
  BY <1>1, <1>3 DEF Ring!Rendezvous, RingWorking
<1>5. main.pc # "destruct"
  BY <1>1, <1>2, <1>3 DEF Ring!Rendezvous, RingWorking
<1>6. ASSUME main.pc = "start" PROVE Ring!Wake(t) /\ t < main.i /\ ~th[t].stopLoop
  <2>1. ~th[t].canRead
    BY <1>6 DEF Ring!IInv, Ring!Clean
  <2> QED
    BY <1>1, <1>2, <1>3, <1>6, <2>1 DEF Ring!Rendezvous, RingWorking
<1>7. ASSUME main.pc = "join" PROVE Ring!Wake(t) /\ t = main.i /\ th[t].stopLoop
  BY <1>1, <1>2, <1>3, <1>7 DEF Ring!Rendezvous, RingWorking
<1>8. main.pc = "await" => ~th[t].stopLoop
  BY <1>1 DEF Ring!Rendezvous
<1> QED
  BY <1>1, <1>4, <1>5, <1>6, <1>7, <1>8

LEMMA RingThreadRendezvous ==
  ASSUME Ring!IInv, NEW t \in Ring!Threads, Ring!ThreadStep(t)
  PROVE  \A u \in Ring!Threads : Ring!Rendezvous(u)'
<1>1. main' = main /\ Ring!TypeOK
  BY RingOutcomes DEF Ring!IInv
<1>2. main.i \in Nat /\ t \in Nat
  BY RingProperties, RingMainProperties DEF Ring!IInv
<1>3. ASSUME NEW u \in Ring!Threads, u # t PROVE Ring!Rendezvous(u)'
  <2>1. Ring!Rendezvous(u)
    BY DEF Ring!IInv
  <2>2. /\ th'[u].pc = th[u].pc /\ th'[u].startEvent = th[u].startEvent
        /\ th'[u].finishedEvent = th[u].finishedEvent /\ th'[u].stopLoop = th[u].stopLoop
    BY <1>1, <1>3, RingThreadLoop, RingReaderReads
  <2> QED
    BY <1>1, <2>1, <2>2 DEF Ring!Rendezvous
<1>4. Ring!Rendezvous(t)
  BY DEF Ring!IInv
<1>5. ASSUME main.pc = "await" PROVE Ring!Rendezvous(t)'
  <2>1. /\ th[t].pc = "finished" => ~th[t].startEvent /\ main.i <= t
        /\ th[t].pc \in RingWorking => ~th[t].startEvent /\ ~th[t].finishedEvent /\ ~(t < main.i)
    BY <1>2, <1>4, <1>5 DEF Ring!Rendezvous, RingWorking
  <2>2. Ring!Wake(t) => ~th[t].finishedEvent /\ ~(t < main.i)
    BY <1>2, <1>4, <1>5 DEF Ring!Rendezvous, Ring!Wake
  <2>3. th[t].pc = "read" => io.read < NumBlocks
    BY RingReaderReads
  <2>4. /\ ~th[t].stopLoop /\ ~th'[t].stopLoop /\ main'.pc = "await" /\ main'.i = main.i
    BY <1>1, <1>5, <2>3, RingThreadLoop, RingStepPhases
  <2>5. CASE Ring!Wake(t)
    <3>1. /\ ~th'[t].startEvent /\ th'[t].pc = "canRead"
          /\ th'[t].finishedEvent = th[t].finishedEvent
      BY <1>1, <2>4, <2>5, RingWakeEffect DEF RingMoves, RingKeepsFinished
    <3> QED
      BY <1>2, <2>2, <2>4, <2>5, <3>1 DEF Ring!Rendezvous
  <2>6. CASE th[t].pc = "finished" /\ th'[t].pc = "loop" /\ th'[t].finishedEvent
             /\ th'[t].startEvent = th[t].startEvent
    BY <1>2, <2>1, <2>4, <2>6 DEF Ring!Rendezvous
  <2>7. CASE /\ th[t].pc \in RingWorking /\ th'[t].pc \in RingWorking
             /\ th'[t].startEvent = th[t].startEvent
             /\ th'[t].finishedEvent = th[t].finishedEvent
    <3>1. ~th'[t].startEvent /\ ~th'[t].finishedEvent /\ ~(t < main.i)
      BY <2>1, <2>7
    <3>2. th'[t].pc \notin {"none", "exited", "loop"}
      BY <2>7 DEF RingWorking
    <3> QED
      BY <2>4, <3>1, <3>2 DEF Ring!Rendezvous
  <2> QED
    BY <1>1, <2>3, <2>5, <2>6, <2>7, RingThreadLoop
<1>6. ASSUME main.pc \in {"start", "join"} PROVE Ring!Rendezvous(t)'
  <2>1. /\ th[t].pc = "loop" /\ th[t].startEvent /\ ~th'[t].startEvent
        /\ th'[t].pc = (IF th[t].stopLoop THEN "exited" ELSE "canRead")
        /\ th'[t].finishedEvent = th[t].finishedEvent /\ th'[t].stopLoop = th[t].stopLoop
    BY <1>1, <1>6, RingStepPhases, RingWakeEffect DEF RingMoves, RingKeepsFinished, RingKeepsStopLoop
  <2>2. CASE main.pc = "start"
    <3>1. t < main.i /\ ~th[t].stopLoop /\ ~th[t].finishedEvent
      BY <1>4, <2>2, RingStepPhases DEF Ring!Rendezvous
    <3> QED
      BY <1>1, <2>1, <2>2, <3>1 DEF Ring!Rendezvous
  <2>3. CASE main.pc = "join"
    <3>1. t = main.i /\ th[t].stopLoop /\ ~th[t].finishedEvent
      BY <1>4, <2>3, RingStepPhases DEF Ring!Rendezvous
    <3>2. ~(t < main.i) /\ ~(t > main.i)
      BY <1>2, <3>1
    <3> QED
      BY <1>1, <2>1, <2>3, <3>1, <3>2 DEF Ring!Rendezvous
  <2> QED
    BY <1>6, <2>2, <2>3
<1> QED
  BY <1>3, <1>5, <1>6, RingStepPhases

-----------------------------------------------------------------------------
(* The order of the blocks.                                                *)

(* Most steps give no right to read or to write to anybody, and leave the  *)
(* blocks with the threads they are with.                                  *)
RingQuiet ==
  /\ io' = io
  /\ \A u \in Ring!Threads :
       /\ Ring!Reader(u)' => Ring!Reader(u)
       /\ Ring!Writer(u)' => Ring!Writer(u)
       /\ Ring!Holding(u)' => Ring!Holding(u)
       /\ Ring!HasRead(u) => Ring!HasRead(u)'
       /\ th'[u].block = th[u].block
       /\ ~(th'[u].pc = "read" /\ Ring!MayRead(u)')
       /\ ~(th'[u].pc = "write" /\ Ring!MayWrite(u)')

LEMMA RingRightsOnce ==
  ASSUME Ring!InRing, NEW u \in Ring!Threads
  PROVE  ~(th[u].pc = "read" /\ Ring!MayRead(u)) /\ ~(th[u].pc = "write" /\ Ring!MayWrite(u))
BY DEF Ring!InRing, Ring!OneReader, Ring!OneWriter, Ring!Reader

LEMMA RingQuietSteps ==
  ASSUME Ring!IInv, main.pc = "await", NEW t \in Ring!Threads, Ring!ThreadStep(t),
         ~(Ring!Read(t) /\ th'[t].pc # "error"), ~(Ring!Write(t) /\ th'[t].pc # "error")
  PROVE  RingQuiet
<1> DEFINE n == Ring!NextThread(t)
<1> USE DEF Ring!Reader, Ring!Writer, Ring!MayRead, Ring!MayWrite, Ring!Holding, Ring!HasRead
<1>1. Ring!TypeOK /\ Ring!InRing /\ n \in Ring!Threads
  BY RingProperties DEF Ring!IInv
<1>2. \A u \in Ring!Threads : ~(th[u].pc = "read" /\ Ring!MayRead(u)) /\ ~(th[u].pc = "write" /\ Ring!MayWrite(u))
  BY <1>1, RingRightsOnce
<1> HIDE DEF n
<1>3. CASE Ring!Wake(t)
  <2>1. th'[t].pc = "canRead" /\ th[t].pc = "loop" /\ th[t].startEvent
    BY <1>1, <1>3, RingWakeEffect, RingStepPhases DEF RingMoves
  <2>2. \A u \in Ring!Threads \ {t} : th'[u].pc = th[u].pc /\ (th'[u].startEvent <=> th[u].startEvent)
    BY <1>1, <1>3, RingWakeEffect DEF RingMoves
  <2>3. io' = io /\ RingKeepsReading /\ RingKeepsWriting /\ RingKeepsBlocks
    BY <1>1, <1>3, RingWakeEffect
  <2> QED
    BY <1>2, <2>1, <2>2, <2>3 DEF RingQuiet, RingKeepsReading, RingKeepsWriting, RingKeepsBlocks
<1>4. CASE Ring!TakeRead(t)
  BY <1>1, <1>2, <1>4, RingTakeReadEffect DEF RingQuiet, RingMoves, RingKeepsLoop, RingKeepsWriting, RingKeepsBlocks
<1>5. CASE Ring!StopReading(t)
  <2>1. ~th[t].startEvent
    BY <1>5 DEF Ring!IInv, Ring!Rendezvous, Ring!StopReading
  <2> QED
    BY <1>1, <1>2, <1>5, <2>1, RingStopReadingEffect DEF RingQuiet, RingMoves, RingKeepsLoop, RingKeepsWriting, RingKeepsBlocks
<1>6. CASE Ring!TakeWrite(t)
  BY <1>1, <1>2, <1>6, RingTakeWriteEffect DEF RingQuiet, RingMoves, RingKeepsLoop, RingKeepsReading, RingKeepsBlocks
<1>7. CASE Ring!SetError(t)
  BY <1>1, <1>2, <1>7, RingSetErrorEffect
     DEF RingQuiet, RingMoves, RingKeepsLoop, RingKeepsReading, RingKeepsWriting, RingKeepsBlocks
<1>8. CASE Ring!StopNext(t)
  BY <1>1, <1>2, <1>8, RingStopNextEffect DEF RingQuiet, RingMoves, RingKeepsLoop, RingKeepsBlocks
<1>9. CASE Ring!WakeNext(t)
  <2>1. th[n].stopReading /\ th[n].stopWriting
    BY <1>1, <1>9 DEF Ring!InRing, Ring!StopsFollow, Ring!WakeNext, n
  <2>2. n = Ring!NextThread(t)
    BY DEF n
  <2>3. \A u \in Ring!Threads : /\ th'[u].canRead <=> th[u].canRead \/ u = n
                                /\ th'[u].canWrite <=> th[u].canWrite \/ u = n
                                /\ th'[u].stopReading = th[u].stopReading
                                /\ th'[u].stopWriting = th[u].stopWriting
    BY <1>1, <1>9, <2>2, RingWakeNextEffect
  <2>4. \A u \in Ring!Threads : /\ Ring!MayRead(u)' => Ring!MayRead(u)
                                /\ Ring!MayWrite(u)' => Ring!MayWrite(u)
    BY <2>1, <2>3
  <2>5. RingMoves(t, "wakeNext", "finished") /\ RingKeepsLoop /\ RingKeepsBlocks /\ io' = io
    BY <1>1, <1>9, RingWakeNextEffect
  <2> QED
    BY <1>2, <2>4, <2>5 DEF RingQuiet, RingMoves, RingKeepsLoop, RingKeepsBlocks
<1>10. CASE Ring!Finish(t)
  <2>1. ~th[t].startEvent
    BY <1>10 DEF Ring!IInv, Ring!Rendezvous, Ring!Finish
  <2> QED
    BY <1>1, <1>2, <1>10, <2>1, RingFinishEffect
       DEF RingQuiet, RingMoves, RingKeepsReading, RingKeepsWriting, RingKeepsBlocks
<1>11. ASSUME NEW r \in Ring!Faults \cup {coder.progress}, RingFailing(t, r) PROVE RingQuiet
  BY <1>1, <1>2, <1>11, RingFailEffect
     DEF RingFailing, RingQuiet, RingMoves, RingKeepsLoop, RingKeepsReading, RingKeepsWriting, RingKeepsBlocks
<1>12. CASE RingGoing(t)
  BY <1>1, <1>2, <1>12, RingGotoEffect
     DEF RingGoing, RingQuiet, RingMoves, RingKeepsLoop, RingKeepsReading, RingKeepsWriting, RingKeepsBlocks
<1> QED
  BY <1>1, <1>3, <1>4, <1>5, <1>6, <1>7, <1>8, <1>9, <1>10, <1>11, <1>12, RingOutcomes

LEMMA RingQuietOrder ==
  ASSUME Ring!InRing, RingQuiet
  PROVE  Ring!OneReader' /\ Ring!OneWriter' /\ Ring!InOrder'
<1>1. Ring!OneReader'
  BY DEF Ring!InRing, RingQuiet, Ring!OneReader
<1>2. Ring!OneWriter'
  BY DEF Ring!InRing, RingQuiet, Ring!OneWriter
<1>3. Ring!InOrder'
  <2>1. ASSUME NEW z \in Ring!Threads, Ring!Writer(z)', NEW u \in Ring!Threads, NEW d \in Ring!Threads, Ring!Ahead(z, u, d)
        PROVE  Ring!PlaceAfter(z, u, d)'
    <3>1. Ring!PlaceAfter(z, u, d)
      BY <2>1 DEF Ring!InRing, Ring!InOrder, RingQuiet
    <3> QED
      BY <3>1 DEF Ring!PlaceAfter, RingQuiet
  <2> QED
    BY <2>1 DEF Ring!InRing, Ring!InOrder, RingQuiet
<1> QED
  BY <1>1, <1>2, <1>3

(* What the reader and the writer know of their places.                    *)
LEMMA RingReaderPlace ==
  ASSUME Ring!TypeOK, Ring!InRing, NEW t \in Ring!Threads, th[t].pc = "read", NEW z \in Ring!Threads, Ring!Writer(z)
  PROVE  /\ io.read - Len(io.written) \in Ring!Threads
         /\ Ring!Ahead(z, t, io.read - Len(io.written))
<1> DEFINE k == io.read - Len(io.written)
<1>1. k \in Nat /\ k <= NumThreads
  BY RingFlowProperties DEF Ring!InRing, Ring!InOrder
<1>2. Ring!Ahead(z, t, k)
  BY DEF Ring!InRing, Ring!InOrder, Ring!Reader
<1> HIDE DEF k
<1>3. k # NumThreads
  <2> SUFFICES ASSUME k = NumThreads PROVE FALSE
    OBVIOUS
  <2>1. z = t /\ Ring!Ahead(z, t, 0) /\ 0 \in Ring!Threads /\ 0 < k
    BY <1>1, <1>2, RingAheadSame, RingProperties DEF Ring!Ahead
  <2>2. Ring!PlaceAfter(z, t, 0)
    BY <2>1 DEF Ring!InRing, Ring!InOrder
  <2> QED
    BY <2>1, <2>2 DEF Ring!PlaceAfter, Ring!HasRead, k
<1>4. k \in Ring!Threads
  BY <1>1, <1>3, RingProperties DEF Ring!Threads
<1> QED
  BY <1>2, <1>4 DEF k

LEMMA RingWriterPlace ==
  ASSUME Ring!TypeOK, Ring!InRing, NEW t \in Ring!Threads, th[t].pc = "write"
  PROVE  /\ Ring!Writer(t) /\ 0 < io.read - Len(io.written)
         /\ th[t].block = Len(io.written) + 1
<1>1. Ring!Writer(t) /\ Ring!Holding(t)
  BY DEF Ring!Writer, Ring!Holding
<1>2. Ring!Ahead(t, t, 0) /\ 0 \in Ring!Threads
  BY RingProperties DEF Ring!Ahead
<1>3. Ring!PlaceAfter(t, t, 0)
  BY <1>1, <1>2 DEF Ring!InRing, Ring!InOrder
<1> QED
  BY <1>1, <1>3, RingFlowProperties DEF Ring!PlaceAfter

LEMMA RingReadOrder ==
  ASSUME Ring!IInv, main.pc = "await", NEW t \in Ring!Threads, Ring!Read(t), th'[t].pc # "error"
  PROVE  Ring!OneReader' /\ Ring!OneWriter' /\ Ring!InOrder'
<1> DEFINE n == Ring!NextThread(t)
           k == io.read - Len(io.written)
<1>1. /\ Ring!TypeOK /\ Ring!InRing /\ n \in Ring!Threads /\ io.read < NumBlocks
      /\ th[t].pc = "read" /\ ~th[t].startEvent
  BY RingProperties, RingReaderReads DEF Ring!IInv, Ring!Read, Ring!Rendezvous
<1>2. /\ RingMoves(t, "read", "code") /\ RingKeepsLoop /\ RingKeepsWriting
      /\ io'.read = io.read + 1 /\ io'.written = io.written
      /\ \A u \in Ring!Threads :
           /\ th'[u].canRead <=> th[u].canRead \/ u = n
           /\ th'[u].stopReading = (IF u = n THEN io.read + 1 = NumBlocks ELSE th[u].stopReading)
           /\ th'[u].block = (IF u = t THEN io.read + 1 ELSE th[u].block)
  BY <1>1, RingReadEffect
<1>3. Ring!Reader(t) /\ \A u \in Ring!Threads : Ring!Reader(u) => u = t
  BY <1>1 DEF Ring!InRing, Ring!OneReader, Ring!Reader
<1>4. /\ io.read \in Nat /\ Len(io.written) \in Nat /\ NumBlocks \in Nat /\ k \in Nat
      /\ Len(io.written) <= io.read /\ NumThreads \in Nat
  <2>1. /\ io.read \in Nat /\ Len(io.written) \in Nat /\ NumBlocks \in Nat /\ NumThreads \in Nat
        /\ Len(io.written) <= io.read
    BY <1>1, RingFlowProperties, RingProperties DEF Ring!InRing, Ring!InOrder
  <2> QED
    BY <2>1
<1>5. \A u \in Ring!Threads : Ring!Reader(u)' => u = n /\ io.read + 1 # NumBlocks /\ th'[u].pc # "read"
  BY <1>1, <1>2, <1>3, RingRightsOnce DEF Ring!Reader, Ring!MayRead, RingMoves
<1>6. Ring!OneReader'
  <2>1. io.read + 1 # NumBlocks => io'.read < NumBlocks
    BY <1>1, <1>2, <1>4
  <2> QED
    BY <1>5, <2>1 DEF Ring!OneReader
<1>7. \A u \in Ring!Threads : /\ Ring!Writer(u)' <=> Ring!Writer(u)
                              /\ Ring!MayWrite(u)' <=> Ring!MayWrite(u)
                              /\ th'[u].pc = "write" <=> th[u].pc = "write"
  BY <1>2 DEF Ring!Writer, Ring!MayWrite, RingMoves, RingKeepsWriting
<1>8. Ring!OneWriter'
  BY <1>1, <1>7 DEF Ring!InRing, Ring!OneWriter
<1>9. io'.read - Len(io'.written) = k + 1
  BY <1>2, <1>4
<1>10. ASSUME NEW z \in Ring!Threads, Ring!Writer(z)
       PROVE  /\ k + 1 <= NumThreads
              /\ Ring!Ahead(z, n, k + 1)
              /\ \A u, d \in Ring!Threads : Ring!Ahead(z, u, d) => Ring!PlaceAfter(z, u, d)'
  <2>1. k \in Ring!Threads /\ Ring!Ahead(z, t, k)
    BY <1>1, <1>10, RingReaderPlace
  <2>2. k + 1 <= NumThreads /\ k < NumThreads
    <3>1. k < NumThreads
      BY <2>1, RingProperties
    <3> QED
      BY <1>4, <3>1
  <2>3. Ring!Ahead(z, n, k + 1)
    BY <1>4, <2>1, <2>2, RingAheadNext
  <2>4. ASSUME NEW u \in Ring!Threads, NEW d \in Ring!Threads, Ring!Ahead(z, u, d)
        PROVE  Ring!PlaceAfter(z, u, d)'
    <3>1. Ring!PlaceAfter(z, u, d)
      BY <1>1, <1>10, <2>4 DEF Ring!InRing, Ring!InOrder
    <3>2. d = k <=> u = t
      BY <2>1, <2>4, RingAheadUnique
    <3>3. d \in Nat
      BY RingProperties
    <3>4. CASE u = t
      <4>1. Ring!HasRead(t)' /\ th'[t].block = Len(io'.written) + 1 + d
        BY <1>1, <1>2, <1>4, <3>2, <3>4 DEF Ring!HasRead, RingMoves, RingKeepsLoop
      <4>2. d < io'.read - Len(io'.written)
        BY <1>4, <1>9, <3>2, <3>4
      <4> QED
        BY <3>4, <4>1, <4>2 DEF Ring!PlaceAfter
    <3>5. CASE u # t
      <4>1. /\ Ring!HasRead(u)' <=> Ring!HasRead(u)
            /\ Ring!Holding(u)' <=> Ring!Holding(u)
            /\ th'[u].block = th[u].block
        BY <1>2, <3>5 DEF Ring!HasRead, Ring!Holding, RingMoves, RingKeepsLoop
      <4>2. d < io'.read - Len(io'.written) <=> d < k
        BY <1>4, <1>9, <3>2, <3>3, <3>5
      <4>3. Len(io'.written) = Len(io.written)
        BY <1>2
      <4> QED
        BY <3>1, <4>1, <4>2, <4>3 DEF Ring!PlaceAfter
    <3> QED
      BY <3>4, <3>5
  <2> QED
    BY <2>2, <2>3, <2>4
<1> HIDE DEF k, n
<1>11. Ring!InOrder'
  <2>1. Len(io'.written) <= io'.read
    BY <1>2, <1>4
  <2> QED
    BY <1>5, <1>7, <1>9, <1>10, <2>1 DEF Ring!InOrder
<1> QED
  BY <1>6, <1>8, <1>11

LEMMA RingWriteOrder ==
  ASSUME Ring!IInv, main.pc = "await", NEW t \in Ring!Threads, Ring!Write(t), th'[t].pc # "error"
  PROVE  Ring!OneReader' /\ Ring!OneWriter' /\ Ring!InOrder'
<1> DEFINE n == Ring!NextThread(t)
           k == io.read - Len(io.written)
<1>1. Ring!TypeOK /\ Ring!InRing /\ n \in Ring!Threads /\ th[t].pc = "write"
  BY RingProperties DEF Ring!IInv, Ring!Write
<1>2. /\ RingMoves(t, "write", IF th[t].stop THEN "finished" ELSE "canRead")
      /\ RingKeepsLoop /\ RingKeepsReading /\ RingKeepsBlocks
      /\ io'.read = io.read /\ io'.written = Append(io.written, th[t].block)
      /\ \A u \in Ring!Threads : /\ th'[u].canWrite <=> th[u].canWrite \/ u = n
                                 /\ th'[u].stopWriting = th[u].stopWriting
  BY <1>1, RingWriteEffect
<1>3. Ring!Writer(t) /\ (\A u \in Ring!Threads : Ring!Writer(u) => u = t) /\ 0 < k
  BY <1>1, RingWriterPlace DEF Ring!InRing, Ring!OneWriter
<1>4. /\ io.read \in Nat /\ Len(io.written) \in Nat /\ k \in Nat /\ k <= NumThreads
      /\ Len(io.written) <= io.read /\ NumThreads \in Nat
      /\ Len(io'.written) = Len(io.written) + 1
  <2>1. io.written \in Seq(0..NumBlocks) /\ th[t].block \in 0..NumBlocks
    BY <1>1 DEF Ring!TypeOK, Ring!IoType, Ring!ThreadType
  <2>2. Len(io'.written) = Len(io.written) + 1
    BY <1>2, <2>1, AppendProperties
  <2>3. /\ io.read \in Nat /\ Len(io.written) \in Nat /\ NumThreads \in Nat
        /\ Len(io.written) <= io.read
    BY <1>1, RingFlowProperties, RingProperties DEF Ring!InRing, Ring!InOrder
  <2>4. k <= NumThreads
    BY <1>1, <1>3 DEF Ring!InRing, Ring!InOrder
  <2> QED
    BY <2>2, <2>3, <2>4
<1>5. \A u \in Ring!Threads : Ring!Writer(u)' => u = n /\ th'[u].pc # "write"
  BY <1>1, <1>2, <1>3, RingRightsOnce DEF Ring!Writer, Ring!MayWrite, RingMoves
<1>6. Ring!OneWriter'
  BY <1>5 DEF Ring!OneWriter, Ring!Writer
<1>7. \A u \in Ring!Threads : /\ Ring!Reader(u)' <=> Ring!Reader(u)
                              /\ Ring!MayRead(u)' <=> Ring!MayRead(u)
                              /\ th'[u].pc = "read" <=> th[u].pc = "read"
  BY <1>2 DEF Ring!Reader, Ring!MayRead, RingMoves, RingKeepsReading
<1>8. Ring!OneReader'
  BY <1>1, <1>2, <1>7 DEF Ring!InRing, Ring!OneReader
<1>9. io'.read - Len(io'.written) = k - 1 /\ Len(io'.written) <= io'.read
  BY <1>2, <1>3, <1>4
<1>10. ASSUME NEW u \in Ring!Threads, NEW d \in Ring!Threads, Ring!Ahead(n, u, d)
       PROVE  Ring!PlaceAfter(n, u, d)'
  <2>1. d \in Nat /\ d + 1 \in Nat /\ d + 1 <= NumThreads /\ d + 1 > 0 /\ (d + 1) - 1 = d
    BY RingProperties DEF Ring!Threads
  <2>2. Ring!Ahead(t, u, d + 1)
    BY <1>10, <2>1, RingAheadNext
  <2>3. CASE d + 1 = NumThreads
    <3>1. u = t
      BY <2>1, <2>2, <2>3, RingAheadSame
    <3>2. ~Ring!Holding(t)'
      BY <1>2 DEF Ring!Holding, RingMoves
    <3>3. ~(d < io'.read - Len(io'.written))
      BY <1>4, <1>9, <2>1, <2>3
    <3> QED
      BY <3>1, <3>2, <3>3 DEF Ring!PlaceAfter
  <2>4. CASE d + 1 < NumThreads
    <3>1. d + 1 \in Ring!Threads
      BY <2>1, <2>4, RingProperties DEF Ring!Threads
    <3>2. u # t
      BY <2>1, <2>2, <2>4, RingAheadSame
    <3>3. Ring!PlaceAfter(t, u, d + 1)
      BY <1>1, <1>3, <2>2, <3>1 DEF Ring!InRing, Ring!InOrder
    <3>4. /\ Ring!HasRead(u)' <=> Ring!HasRead(u)
          /\ Ring!Holding(u)' <=> Ring!Holding(u)
          /\ th'[u].block = th[u].block
      BY <1>2, <3>2 DEF Ring!HasRead, Ring!Holding, RingMoves, RingKeepsLoop, RingKeepsBlocks
    <3>5. Len(io'.written) + 1 + d = Len(io.written) + 1 + (d + 1)
      <4>1. \A a \in Nat : (a + 1) + 1 + d = a + 1 + (d + 1)
        BY <2>1
      <4> QED
        BY <1>4, <4>1
    <3>6. d < io'.read - Len(io'.written) <=> d + 1 < k
      BY <1>4, <1>9, <2>1
    <3> QED
      BY <3>3, <3>4, <3>5, <3>6 DEF Ring!PlaceAfter
  <2> QED
    BY <1>4, <2>1, <2>3, <2>4
<1>11. ASSUME NEW u \in Ring!Threads, Ring!Reader(u) PROVE Ring!Ahead(n, u, k - 1)
  <2>1. Ring!Ahead(t, u, k)
    BY <1>1, <1>3, <1>11 DEF Ring!InRing, Ring!InOrder
  <2> QED
    BY <1>3, <1>4, <2>1, RingAheadNext
<1> HIDE DEF k, n
<1>12. Ring!InOrder'
  <2>1. k - 1 <= NumThreads
    BY <1>4
  <2> QED
    BY <1>5, <1>7, <1>9, <1>10, <1>11, <2>1 DEF Ring!InOrder
<1> QED
  BY <1>6, <1>8, <1>12

-----------------------------------------------------------------------------
(* The flags that stop threads, and errors.                                *)

(* A thread raises flags of the next one only.                             *)
LEMMA RingFlagsEffect ==
  ASSUME Ring!IInv, main.pc = "await", NEW t \in Ring!Threads, Ring!ThreadStep(t)
  PROVE  /\ \A v \in Ring!Threads \ {Ring!NextThread(t)} : /\ th'[v].stopReading <=> th[v].stopReading
                                                           /\ th'[v].stopWriting <=> th[v].stopWriting
         /\ \A u \in Ring!Threads : u = t \/ (th'[u].stop <=> th[u].stop)
<1> DEFINE n == Ring!NextThread(t)
<1>1. Ring!TypeOK /\ n \in Ring!Threads /\ (th[t].pc = "read" => io.read < NumBlocks)
  BY RingProperties, RingReaderReads DEF Ring!IInv
<1> HIDE DEF n
<1>2. n = Ring!NextThread(t)
  BY DEF n
<1>3. CASE Ring!Read(t) /\ th'[t].pc # "error"
  <2>1. \A v \in Ring!Threads : /\ v # n => th'[v].stopReading = th[v].stopReading
                                /\ th'[v].stopWriting = th[v].stopWriting
                                /\ v # t => th'[v].stop = th[v].stop
    <3>1. io.read < NumBlocks
      BY <1>1, <1>3 DEF Ring!Read
    <3> QED
      BY <1>1, <1>2, <1>3, <3>1, RingReadEffect DEF RingKeepsWriting
  <2> QED
    BY <1>2, <2>1
<1>4. CASE Ring!Write(t) /\ th'[t].pc # "error"
  BY <1>1, <1>2, <1>4, RingWriteEffect DEF RingKeepsReading, RingKeepsBlocks
<1>5. CASE Ring!Wake(t) \/ Ring!TakeRead(t) \/ Ring!StopReading(t)
  BY <1>1, <1>2, <1>5, RingWakeEffect, RingTakeReadEffect, RingStopReadingEffect
     DEF RingKeepsReading, RingKeepsWriting, RingKeepsBlocks
<1>6. CASE Ring!TakeWrite(t) \/ Ring!SetError(t) \/ Ring!Finish(t)
  BY <1>1, <1>2, <1>6, RingTakeWriteEffect, RingSetErrorEffect, RingFinishEffect
     DEF RingKeepsReading, RingKeepsWriting, RingKeepsBlocks
<1>7. CASE Ring!StopNext(t) \/ Ring!WakeNext(t)
  BY <1>1, <1>2, <1>7, RingStopNextEffect, RingWakeNextEffect DEF RingKeepsBlocks
<1>8. ASSUME NEW r \in Ring!Faults \cup {coder.progress}, RingFailing(t, r)
      PROVE  RingKeepsReading /\ RingKeepsWriting /\ RingKeepsBlocks
  BY <1>1, <1>8, RingFailEffect DEF RingFailing
<1>9. CASE RingGoing(t)
  BY <1>1, <1>9, RingGotoEffect DEF RingGoing, RingKeepsReading, RingKeepsWriting, RingKeepsBlocks
<1> QED
  <2>1. CASE \E r \in Ring!Faults \cup {coder.progress} : RingFailing(t, r)
    BY <1>2, <1>8, <2>1 DEF RingKeepsReading, RingKeepsWriting, RingKeepsBlocks
  <2> QED
    BY <1>1, <1>3, <1>4, <1>5, <1>6, <1>7, <1>9, <2>1, RingOutcomes

LEMMA RingThreadStops ==
  ASSUME Ring!IInv, main.pc = "await", NEW t \in Ring!Threads, Ring!ThreadStep(t)
  PROVE  \A u \in Ring!Threads : Ring!StopsFollow(u)'
<1>1. Ring!TypeOK /\ Ring!InRing /\ (th[t].pc = "read" => io.read < NumBlocks)
  BY RingReaderReads DEF Ring!IInv
<1>2. ASSUME NEW u \in Ring!Threads, u # t PROVE Ring!StopsFollow(u)'
  <2>1. Ring!StopsFollow(u)
    BY <1>1 DEF Ring!InRing
  <2>2. Ring!NextThread(u) \in Ring!Threads /\ Ring!NextThread(u) # Ring!NextThread(t)
    BY <1>2, RingProperties
  <2>3. /\ th'[u].pc = th[u].pc /\ th'[u].startEvent = th[u].startEvent
        /\ th'[u].stop <=> th[u].stop
        /\ th'[Ring!NextThread(u)].stopReading <=> th[Ring!NextThread(u)].stopReading
        /\ th'[Ring!NextThread(u)].stopWriting <=> th[Ring!NextThread(u)].stopWriting
    BY <1>1, <1>2, <2>2, RingThreadLoop, RingFlagsEffect
  <2> QED
    BY <2>1, <2>3 DEF Ring!StopsFollow
<1>3. Ring!StopsFollow(t)'
  <2> DEFINE n == Ring!NextThread(t)
  <2>1. Ring!StopsFollow(t) /\ n \in Ring!Threads /\ (th[t].startEvent => th[t].pc = "loop")
    BY <1>1, RingProperties DEF Ring!InRing, Ring!IInv, Ring!Rendezvous
  <2> HIDE DEF n
  <2>2. n = Ring!NextThread(t)
    BY DEF n
  <2>3. CASE Ring!Wake(t) \/ Ring!TakeRead(t)
    <3>1. ~th[n].stopReading
      BY <1>1, <2>1, <2>2, <2>3 DEF Ring!StopsFollow, Ring!Wake, Ring!TakeRead
    <3>2. ~th'[n].stopReading /\ th'[t].pc # "wakeNext"
      BY <1>1, <2>1, <2>3, <3>1, RingWakeEffect, RingTakeReadEffect DEF RingMoves, RingKeepsReading
    <3> QED
      BY <2>2, <3>2 DEF Ring!StopsFollow
  <2>4. CASE Ring!StopReading(t)
    BY <1>1, <2>1, <2>4, RingStopReadingEffect DEF Ring!StopsFollow, RingMoves, RingKeepsLoop
  <2>5. CASE Ring!Read(t) /\ th'[t].pc # "error"
    BY <1>1, <2>1, <2>2, <2>5, RingReadEffect DEF Ring!Read, Ring!StopsFollow, RingMoves
  <2>6. CASE Ring!TakeWrite(t)
    BY <1>1, <2>1, <2>2, <2>6, RingTakeWriteEffect DEF Ring!StopsFollow, RingMoves, RingKeepsReading, RingKeepsBlocks
  <2>7. CASE Ring!Write(t) /\ th'[t].pc # "error"
    <3>1. /\ th[t].pc = "write" /\ th'[t].pc = (IF th[t].stop THEN "finished" ELSE "canRead")
          /\ th'[n].stopReading = th[n].stopReading /\ th'[t].startEvent = th[t].startEvent
      BY <1>1, <2>1, <2>7, RingWriteEffect DEF RingMoves, RingKeepsReading, RingKeepsLoop
    <3> QED
      BY <2>1, <2>2, <3>1 DEF Ring!StopsFollow
  <2>8. CASE Ring!SetError(t)
    BY <1>1, <2>1, <2>2, <2>8, RingSetErrorEffect DEF Ring!StopsFollow, RingMoves, RingKeepsReading, RingKeepsBlocks
  <2>9. CASE Ring!StopNext(t)
    BY <1>1, <2>1, <2>2, <2>9, RingStopNextEffect DEF Ring!StopsFollow, RingMoves, RingKeepsLoop
  <2>10. CASE Ring!WakeNext(t)
    BY <1>1, <2>1, <2>2, <2>10, RingWakeNextEffect DEF Ring!StopsFollow, RingMoves, RingKeepsLoop
  <2>11. CASE Ring!Finish(t)
    BY <1>1, <2>1, <2>2, <2>11, RingFinishEffect DEF Ring!StopsFollow, RingMoves, RingKeepsReading
  <2>12. ASSUME NEW r \in Ring!Faults \cup {coder.progress}, RingFailing(t, r) PROVE Ring!StopsFollow(t)'
    BY <1>1, <2>1, <2>2, <2>12, RingFailEffect
       DEF RingFailing, Ring!StopsFollow, RingMoves, RingKeepsReading, RingKeepsBlocks
  <2>13. CASE RingGoing(t)
    BY <1>1, <2>1, <2>2, <2>13, RingGotoEffect
       DEF RingGoing, Ring!StopsFollow, RingMoves, RingKeepsReading, RingKeepsBlocks
  <2> QED
    BY <1>1, <2>3, <2>4, <2>5, <2>6, <2>7, <2>8, <2>9, <2>10, <2>11, <2>12, <2>13, RingOutcomes
<1> QED
  BY <1>2, <1>3

(* Errors are not forgotten in a call, nor is the end of the input.        *)
LEMMA RingCausesStay ==
  ASSUME Ring!IInv, main.pc = "await", NEW t \in Ring!Threads, Ring!ThreadStep(t)
  PROVE  /\ io.read = NumBlocks => io'.read = NumBlocks
         /\ coder.res # "ok" => coder'.res = coder.res
         /\ coder.progress # "ok" => coder'.progress = coder.progress
<1>1. Ring!TypeOK /\ (th[t].pc = "read" => io.read < NumBlocks)
  BY RingReaderReads DEF Ring!IInv
<1>2. io.read \in Nat /\ NumBlocks \in Nat
  BY <1>1, RingFlowProperties, RingProperties
<1>3. CASE Ring!Read(t) /\ th'[t].pc # "error"
  <2>1. io.read < NumBlocks /\ io.read # NumBlocks
    BY <1>1, <1>2, <1>3 DEF Ring!Read
  <2> QED
    BY <1>1, <1>3, <2>1, RingReadEffect
<1>4. CASE Ring!Write(t) /\ th'[t].pc # "error"
  BY <1>1, <1>4, RingWriteEffect
<1>5. CASE Ring!Wake(t) \/ Ring!TakeRead(t) \/ Ring!StopReading(t) \/ Ring!TakeWrite(t) \/ Ring!WakeNext(t) \/ Ring!Finish(t)
  BY <1>1, <1>5, RingWakeEffect, RingTakeReadEffect, RingStopReadingEffect, RingTakeWriteEffect, RingWakeNextEffect,
     RingFinishEffect
<1>6. CASE Ring!SetError(t) \/ Ring!StopNext(t)
  BY <1>1, <1>6, RingSetErrorEffect, RingStopNextEffect DEF Ring!First
<1>7. ASSUME NEW r \in Ring!Faults \cup {coder.progress}, RingFailing(t, r)
      PROVE  /\ io' = io /\ coder'.res = coder.res
             /\ coder.progress # "ok" => coder'.progress = coder.progress
  BY <1>7 DEF RingFailing
<1>8. CASE RingGoing(t)
  BY <1>8 DEF RingGoing
<1> QED
  BY <1>1, <1>3, <1>4, <1>5, <1>6, <1>7, <1>8, RingOutcomes

LEMMA RingThreadErrors ==
  ASSUME Ring!IInv, main.pc = "await", NEW t \in Ring!Threads, Ring!ThreadStep(t)
  PROVE  Ring!ErrorsHappened'
<1>1. /\ Ring!TypeOK /\ Ring!InRing /\ Ring!ErrorsHappened /\ (th[t].pc = "read" => io.read < NumBlocks)
      /\ coder.res \in Ring!Faults \cup {"ok"} /\ coder.progress \in Ring!Faults \cup {"ok"}
      /\ "ok" \notin Ring!Faults /\ "fail" \notin Ring!Faults
  BY RingReaderReads, RingFaultsAreResults DEF Ring!IInv, Ring!InRing, Ring!ErrorsHappened
<1>2. /\ coder.res # "ok" => coder'.res = coder.res
      /\ coder.progress # "ok" => coder'.progress = coder.progress
  BY RingCausesStay
<1> DEFINE Own(u) == /\ th[u].pc \in {"error", "stopNext"} => th[u].res \in Ring!Faults \cup {"fail"}
                     /\ th[u].pc \in {"error", "stopNext"} /\ th[u].res = "fail" =>
                          coder.res # "ok" /\ coder.progress # "ok"
                     /\ th[u].pc \in {"stopNext", "wakeNext"} => coder.res # "ok"
<1>3. \A u \in Ring!Threads : Own(u)
  BY <1>1 DEF Ring!ErrorsHappened
<1>4. \A u \in Ring!Threads \ {t} : th'[u].pc = th[u].pc /\ th'[u].res = th[u].res
  <2>1. \A u \in Ring!Threads \ {t} : th'[u].pc = th[u].pc
    BY <1>1, RingThreadLoop
  <2>2. \A u \in Ring!Threads \ {t} : th'[u].res = th[u].res
    <3>1. CASE \E r \in Ring!Faults \cup {coder.progress} : RingFailing(t, r)
      BY <1>1, <3>1, RingFailEffect DEF RingFailing, RingFailsWith
    <3>2. CASE Ring!Read(t) /\ th'[t].pc # "error"
      BY <1>1, <3>2, RingReadEffect DEF Ring!Read, RingKeepsResults
    <3>3. CASE Ring!Write(t) /\ th'[t].pc # "error"
      BY <1>1, <3>3, RingWriteEffect DEF RingKeepsResults
    <3>4. CASE Ring!Wake(t) \/ Ring!TakeRead(t) \/ Ring!StopReading(t) \/ Ring!SetError(t) \/ Ring!StopNext(t)
      BY <1>1, <3>4, RingWakeEffect, RingTakeReadEffect, RingStopReadingEffect, RingSetErrorEffect,
         RingStopNextEffect DEF RingKeepsResults
    <3>5. CASE Ring!WakeNext(t) \/ Ring!Finish(t) \/ Ring!TakeWrite(t)
      BY <1>1, <3>5, RingWakeNextEffect, RingFinishEffect, RingTakeWriteEffect DEF RingKeepsResults, RingFailsWith
    <3>6. CASE RingGoing(t)
      BY <1>1, <3>6, RingGotoEffect DEF RingGoing, RingKeepsResults
    <3> QED
      BY <1>1, <3>1, <3>2, <3>3, <3>4, <3>5, <3>6, RingOutcomes
  <2> QED
    BY <2>1, <2>2
<1>5. \A u \in Ring!Threads \ {t} : Own(u)'
  BY <1>2, <1>3, <1>4
<1>6. SUFFICES /\ coder'.res \in Ring!Faults \cup {"ok"} /\ coder'.progress \in Ring!Faults \cup {"ok"}
               /\ Own(t)'
  BY <1>5 DEF Ring!ErrorsHappened
<1>7. Own(t)
  BY <1>3
<1>8. CASE Ring!SetError(t)
  <2>1. /\ th[t].pc = "error" /\ th'[t].pc = "stopNext" /\ th'[t].res = th[t].res
        /\ coder'.res = Ring!First(coder.res, th[t].res) /\ coder'.progress = coder.progress
    BY <1>1, <1>8, RingSetErrorEffect DEF RingMoves, RingKeepsResults
  <2>2. coder'.res \in Ring!Faults
    BY <1>1, <1>7, <2>1 DEF Ring!First
  <2> QED
    BY <1>1, <1>7, <2>1, <2>2
<1>9. CASE Ring!StopNext(t)
  <2>1. /\ th[t].pc = "stopNext" /\ th'[t].pc = "wakeNext" /\ coder'.res = coder.res
        /\ coder'.progress = Ring!First(coder.progress, th[t].res)
    BY <1>1, <1>9, RingStopNextEffect DEF RingMoves
  <2>2. coder'.progress \in Ring!Faults
    BY <1>1, <1>7, <2>1 DEF Ring!First
  <2> QED
    BY <1>1, <1>7, <2>1, <2>2
<1>10. CASE Ring!TakeWrite(t)
  <2>1. /\ coder' = coder /\ th'[t].pc = (IF th[t].stopWriting THEN "error" ELSE "write")
        /\ th[t].stopWriting => th'[t].res = "fail"
    BY <1>1, <1>10, RingTakeWriteEffect DEF RingMoves, RingFailsWith
  <2>2. th[t].stopWriting => coder.res # "ok" /\ coder.progress # "ok"
    BY <1>1 DEF Ring!InRing, Ring!StopsAreCaused
  <2> QED
    BY <1>1, <2>1, <2>2
<1>11. ASSUME NEW r \in Ring!Faults \cup {coder.progress}, RingFailing(t, r)
       PROVE  /\ coder'.res \in Ring!Faults \cup {"ok"} /\ coder'.progress \in Ring!Faults \cup {"ok"}
              /\ Own(t)'
  <2>1. /\ coder'.res = coder.res /\ coder'.progress \in Ring!Faults \cup {"ok"} /\ r \in Ring!Faults
        /\ th'[t].pc = "error" /\ th'[t].res = r
    BY <1>1, <1>11, RingFailEffect DEF RingFailing, RingMoves, RingFailsWith
  <2> QED
    BY <1>1, <2>1
<1>12. CASE RingGoing(t)
  <2>1. /\ coder'.res = coder.res /\ coder'.progress \in Ring!Faults \cup {"ok"} /\ th'[t].pc = "canWrite"
    BY <1>1, <1>12, RingGotoEffect DEF RingGoing, RingMoves
  <2> QED
    BY <1>1, <2>1
<1>13. CASE \/ Ring!Read(t) /\ th'[t].pc # "error"
            \/ Ring!Write(t) /\ th'[t].pc # "error"
  <2>1. coder' = coder /\ th'[t].pc \in {"code", "finished", "canRead"}
    BY <1>1, <1>13, RingReadEffect, RingWriteEffect DEF Ring!Read, RingMoves
  <2> QED
    BY <1>1, <2>1
<1>14. CASE Ring!Wake(t) \/ Ring!TakeRead(t) \/ Ring!StopReading(t) \/ Ring!WakeNext(t) \/ Ring!Finish(t)
  <2>1. coder' = coder /\ th'[t].pc \in {"exited", "canRead", "read", "finished", "loop"}
    BY <1>1, <1>14, RingWakeEffect, RingTakeReadEffect, RingStopReadingEffect, RingWakeNextEffect,
       RingFinishEffect DEF RingMoves
  <2> QED
    BY <1>1, <2>1
<1> QED
  BY <1>1, <1>8, <1>9, <1>10, <1>11, <1>12, <1>13, <1>14, RingOutcomes

LEMMA RingThreadCauses ==
  ASSUME Ring!IInv, main.pc = "await", NEW t \in Ring!Threads, Ring!ThreadStep(t)
  PROVE  Ring!StopsAreCaused'
<1> DEFINE n == Ring!NextThread(t)
<1>1. /\ Ring!TypeOK /\ Ring!StopsAreCaused /\ Ring!ErrorsHappened /\ n \in Ring!Threads
      /\ (th[t].pc = "read" => io.read < NumBlocks) /\ (n = Ring!NextThread(t))
  BY RingReaderReads, RingProperties DEF Ring!IInv, Ring!InRing
<1> HIDE DEF n
<1>2. /\ io.read = NumBlocks => io'.read = NumBlocks
      /\ coder.res # "ok" => coder'.res = coder.res
      /\ coder.progress # "ok" => coder'.progress = coder.progress
  BY RingCausesStay
<1>3. /\ (th'[n].stopReading /\ ~th[n].stopReading => io'.read = NumBlocks \/ coder'.res # "ok")
      /\ (th'[n].stopWriting /\ ~th[n].stopWriting => coder'.res # "ok" /\ coder'.progress # "ok")
  <2>1. CASE Ring!Read(t) /\ th'[t].pc # "error"
    <3>1. /\ th'[n].stopReading = (io.read + 1 = NumBlocks)
          /\ th'[n].stopWriting = th[n].stopWriting /\ io'.read = io.read + 1
      BY <1>1, <2>1, RingReadEffect DEF Ring!Read, RingKeepsWriting
    <3> QED
      BY <3>1
  <2>2. CASE Ring!StopReading(t)
    <3>1. /\ io' = io /\ coder' = coder /\ th[t].stopReading /\ th'[n].stopWriting = th[n].stopWriting
      BY <1>1, <2>2, RingStopReadingEffect DEF RingKeepsWriting
    <3> QED
      BY <1>1, <3>1 DEF Ring!StopsAreCaused
  <2>3. CASE Ring!StopNext(t)
    <3>1. /\ coder'.res = coder.res /\ coder'.progress = Ring!First(coder.progress, th[t].res)
          /\ th[t].pc = "stopNext"
      BY <1>1, <2>3, RingStopNextEffect DEF RingMoves
    <3>2. coder.res # "ok" /\ th[t].res # "ok"
      BY <1>1, <3>1, RingFaultsAreResults DEF Ring!ErrorsHappened
    <3> QED
      BY <3>1, <3>2 DEF Ring!First
  <2>4. CASE Ring!Write(t) /\ th'[t].pc # "error"
    BY <1>1, <2>4, RingWriteEffect DEF RingKeepsReading
  <2>5. CASE Ring!Wake(t) \/ Ring!TakeRead(t) \/ Ring!TakeWrite(t)
    BY <1>1, <2>5, RingWakeEffect, RingTakeReadEffect, RingTakeWriteEffect DEF RingKeepsReading, RingKeepsWriting
  <2>6. CASE Ring!SetError(t) \/ Ring!WakeNext(t) \/ Ring!Finish(t)
    BY <1>1, <2>6, RingSetErrorEffect, RingWakeNextEffect, RingFinishEffect DEF RingKeepsReading, RingKeepsWriting
  <2>7. CASE \E r \in Ring!Faults \cup {coder.progress} : RingFailing(t, r)
    BY <1>1, <2>7, RingFailEffect DEF RingFailing, RingKeepsReading, RingKeepsWriting
  <2>8. CASE RingGoing(t)
    BY <1>1, <2>8, RingGotoEffect DEF RingGoing, RingKeepsReading, RingKeepsWriting
  <2> QED
    BY <1>1, <2>1, <2>2, <2>3, <2>4, <2>5, <2>6, <2>7, <2>8, RingOutcomes
<1>4. ASSUME NEW u \in Ring!Threads
      PROVE  /\ th'[u].stopReading => io'.read = NumBlocks \/ coder'.res # "ok"
             /\ th'[u].stopWriting => coder'.res # "ok" /\ coder'.progress # "ok"
  <2>1. /\ th[u].stopReading => io.read = NumBlocks \/ coder.res # "ok"
        /\ th[u].stopWriting => coder.res # "ok" /\ coder.progress # "ok"
    BY <1>1 DEF Ring!StopsAreCaused
  <2>2. u = n \/ ((th'[u].stopReading <=> th[u].stopReading)
                    /\ (th'[u].stopWriting <=> th[u].stopWriting))
    BY <1>1, RingFlagsEffect
  <2> QED
    BY <1>2, <1>3, <2>1, <2>2
<1> QED
  BY <1>4 DEF Ring!StopsAreCaused

(* Without an error, the step of a thread leaves the writer there.         *)
LEMMA RingThreadWriter ==
  ASSUME Ring!IInv, main.pc = "await", NEW t \in Ring!Threads, Ring!ThreadStep(t), Ring!NoError'
  PROVE  \E z \in Ring!Threads :
           /\ Ring!Writer(z)'
           /\ \A u, d \in Ring!Threads :
                Ring!Ahead(z, u, d) /\ d < io'.read - Len(io'.written) => Ring!Holding(u)'
<1> DEFINE n == Ring!NextThread(t)
<1> USE DEF Ring!Writer, Ring!MayWrite, Ring!Holding
<1>1. /\ Ring!TypeOK /\ Ring!InRing /\ n \in Ring!Threads /\ (th[t].pc = "read" => io.read < NumBlocks)
      /\ Ring!ErrorsHappened /\ Ring!StopsAreCaused /\ "ok" \notin Ring!Faults
  BY RingReaderReads, RingProperties, RingFaultsAreResults DEF Ring!IInv, Ring!InRing
<1>2. coder.res = "ok" /\ coder'.res = "ok" /\ th'[t].pc # "error"
  BY RingCausesStay DEF Ring!NoError
<1>3. th[t].pc \notin {"error", "stopNext", "wakeNext"}
  <2>1. th[t].pc # "error"
    <3> SUFFICES ASSUME th[t].pc = "error" PROVE FALSE
      OBVIOUS
    <3>1. Ring!SetError(t)
      BY DEF Ring!ThreadStep, Ring!Wake, Ring!TakeRead, Ring!StopReading, Ring!Read, Ring!Code, Ring!TakeWrite, Ring!Write, Ring!StopNext,
         Ring!WakeNext, Ring!Finish
    <3>2. coder'.res = Ring!First(coder.res, th[t].res) /\ th[t].res \in Ring!Faults \cup {"fail"}
      BY <1>1, <3>1, RingSetErrorEffect DEF Ring!ErrorsHappened
    <3> QED
      BY <1>1, <1>2, <3>2 DEF Ring!First
  <2> QED
    BY <1>1, <1>2, <2>1 DEF Ring!ErrorsHappened
<1>4. \A u \in Ring!Threads \ {t} : th'[u].pc = th[u].pc
  BY <1>1, RingThreadLoop
<1>5. Ring!NoError
  BY <1>2, <1>3, <1>4 DEF Ring!NoError
<1>6. PICK z \in Ring!Threads :
        /\ Ring!Writer(z)
        /\ \A u, d \in Ring!Threads : Ring!Ahead(z, u, d) /\ d < io.read - Len(io.written) => Ring!Holding(u)
  BY <1>1, <1>5 DEF Ring!InRing, Ring!Complete
<1>7. \A u \in Ring!Threads : ~th[u].stopWriting
  BY <1>1, <1>2 DEF Ring!StopsAreCaused
<1> HIDE DEF n
<1>8. ASSUME io' = io, Ring!Holding(t) => Ring!Holding(t)', Ring!Writer(z)'
      PROVE  \E v \in Ring!Threads :
               /\ Ring!Writer(v)'
               /\ \A u, d \in Ring!Threads :
                    Ring!Ahead(v, u, d) /\ d < io'.read - Len(io'.written) => Ring!Holding(u)'
  <2>1. \A u \in Ring!Threads : Ring!Holding(u) => Ring!Holding(u)'
    BY <1>4, <1>8
  <2> QED
    BY <1>6, <1>8, <2>1
<1>9. CASE Ring!Wake(t)
  <2>1. io' = io /\ RingMoves(t, "loop", IF th[t].stopLoop THEN "exited" ELSE "canRead") /\ RingKeepsWriting
    BY <1>1, <1>9, RingWakeEffect
  <2>2. (Ring!Holding(t) => Ring!Holding(t)') /\ Ring!Writer(z)'
    BY <1>6, <2>1 DEF RingMoves, RingKeepsWriting
  <2> QED
    BY <1>8, <2>1, <2>2
<1>10. CASE Ring!TakeRead(t)
  <2>1. io' = io /\ RingMoves(t, "canRead", "read") /\ RingKeepsWriting
    BY <1>1, <1>10, RingTakeReadEffect
  <2>2. (Ring!Holding(t) => Ring!Holding(t)') /\ Ring!Writer(z)'
    BY <1>6, <2>1 DEF RingMoves, RingKeepsWriting
  <2> QED
    BY <1>8, <2>1, <2>2
<1>11. CASE Ring!StopReading(t)
  <2>1. io' = io /\ RingMoves(t, "canRead", "finished") /\ RingKeepsWriting
    BY <1>1, <1>11, RingStopReadingEffect
  <2>2. (Ring!Holding(t) => Ring!Holding(t)') /\ Ring!Writer(z)'
    BY <1>6, <2>1 DEF RingMoves, RingKeepsWriting
  <2> QED
    BY <1>8, <2>1, <2>2
<1>12. CASE Ring!TakeWrite(t)
  <2>1. /\ io' = io /\ RingMoves(t, "canWrite", "write")
        /\ \A u \in Ring!Threads : /\ th'[u].canWrite <=> th[u].canWrite /\ u # t
                                   /\ th'[u].stopWriting = th[u].stopWriting
    BY <1>1, <1>7, <1>12, RingTakeWriteEffect
  <2>2. (Ring!Holding(t) => Ring!Holding(t)') /\ Ring!Writer(z)'
    BY <1>6, <2>1 DEF RingMoves
  <2> QED
    BY <1>8, <2>1, <2>2
<1>13. CASE Ring!Finish(t)
  <2>1. io' = io /\ RingMoves(t, "finished", "loop") /\ RingKeepsWriting
    BY <1>1, <1>13, RingFinishEffect
  <2>2. (Ring!Holding(t) => Ring!Holding(t)') /\ Ring!Writer(z)'
    BY <1>6, <2>1 DEF RingMoves, RingKeepsWriting
  <2> QED
    BY <1>8, <2>1, <2>2
<1>14. CASE RingGoing(t)
  <2>1. io' = io /\ RingMoves(t, "code", "canWrite") /\ RingKeepsWriting
    BY <1>1, <1>14, RingGotoEffect DEF RingGoing
  <2>2. (Ring!Holding(t) => Ring!Holding(t)') /\ Ring!Writer(z)'
    BY <1>6, <2>1 DEF RingMoves, RingKeepsWriting
  <2> QED
    BY <1>8, <2>1, <2>2
<1>15. CASE Ring!Read(t)
  <2> DEFINE k == io.read - Len(io.written)
  <2>1. /\ RingMoves(t, "read", "code") /\ RingKeepsWriting
        /\ io'.read = io.read + 1 /\ io'.written = io.written
    BY <1>1, <1>2, <1>15, RingReadEffect DEF Ring!Read
  <2>2. Ring!Writer(z)'
    BY <1>6, <2>1 DEF RingMoves, RingKeepsWriting
  <2>3. k \in Ring!Threads /\ Ring!Ahead(z, t, k)
    BY <1>1, <1>6, <2>1, RingReaderPlace DEF RingMoves
  <2>4. ASSUME NEW u \in Ring!Threads, NEW d \in Ring!Threads, Ring!Ahead(z, u, d),
               d < io'.read - Len(io'.written)
        PROVE  Ring!Holding(u)'
    <3>1. io.read \in Nat /\ Len(io.written) \in Nat /\ d \in Nat
      BY <1>1, RingFlowProperties, RingProperties
    <3>2. d < k \/ d = k
      BY <2>1, <2>4, <3>1
    <3>3. CASE d = k
      <4>1. u = t
        BY <2>3, <2>4, <3>3, RingAheadUnique
      <4> QED
        BY <2>1, <4>1 DEF RingMoves
    <3>4. CASE d < k
      <4>1. Ring!Holding(u)
        BY <1>6, <2>4, <3>4
      <4> QED
        BY <1>4, <2>1, <4>1 DEF RingMoves
    <3> QED
      BY <3>2, <3>3, <3>4
  <2> QED
    BY <2>2, <2>4
<1>16. CASE Ring!Write(t)
  <2>1. /\ RingMoves(t, "write", IF th[t].stop THEN "finished" ELSE "canRead")
        /\ io'.read = io.read /\ io'.written = Append(io.written, th[t].block)
        /\ \A u \in Ring!Threads : /\ th'[u].canWrite <=> th[u].canWrite \/ u = n
                                   /\ th'[u].stopWriting = th[u].stopWriting
    BY <1>1, <1>2, <1>16, RingWriteEffect DEF n
  <2>2. z = t /\ th[t].pc = "write"
    BY <1>1, <1>6, <2>1 DEF Ring!InRing, Ring!OneWriter, RingMoves
  <2>3. Ring!Writer(n)'
    BY <1>1, <1>7, <2>1
  <2>4. ASSUME NEW u \in Ring!Threads, NEW d \in Ring!Threads, Ring!Ahead(n, u, d),
               d < io'.read - Len(io'.written)
        PROVE  Ring!Holding(u)'
    <3>1. /\ io.read \in Nat /\ Len(io.written) \in Nat
          /\ Len(io'.written) = Len(io.written) + 1
      <4>1. io.written \in Seq(0..NumBlocks) /\ th[t].block \in 0..NumBlocks
        BY <1>1 DEF Ring!TypeOK, Ring!IoType, Ring!ThreadType
      <4>2. Len(io'.written) = Len(io.written) + 1
        BY <2>1, <4>1, AppendProperties
      <4> QED
        BY <1>1, <4>2, RingFlowProperties
    <3>2. d \in Nat /\ d < NumThreads /\ NumThreads \in Nat
      BY RingProperties
    <3>3. d + 1 < io.read - Len(io.written)
      BY <2>1, <2>4, <3>1, <3>2
    <3>4. io.read - Len(io.written) <= NumThreads
      BY <1>1, <1>6 DEF Ring!InRing, Ring!InOrder
    <3>5. /\ d + 1 \in Nat /\ d + 1 < NumThreads /\ d + 1 <= NumThreads
          /\ d + 1 > 0 /\ (d + 1) - 1 = d /\ d + 1 # 0
      BY <3>1, <3>2, <3>3, <3>4
    <3>6. d + 1 \in Ring!Threads
      BY <3>5, RingProperties DEF Ring!Threads
    <3>7. Ring!Ahead(t, u, d + 1) /\ u # t
      <4>1. Ring!Ahead(t, u, d + 1)
        <5>1. Ring!Ahead(n, u, (d + 1) - 1)
          BY <2>4, <3>5
        <5> QED
          BY <3>5, <5>1, RingAheadNext DEF n
      <4> QED
        BY <3>2, <3>5, <4>1, RingAheadSame
    <3>8. Ring!Holding(u)
      BY <1>6, <2>2, <3>3, <3>6, <3>7
    <3> QED
      BY <1>4, <3>7, <3>8
  <2> QED
    BY <1>1, <2>3, <2>4
<1>17. ~(\E r \in Ring!Faults \cup {coder.progress} : RingFailing(t, r))
  BY <1>1, <1>2, RingFailEffect DEF RingFailing, RingMoves
<1>18. ~Ring!SetError(t) /\ ~Ring!StopNext(t) /\ ~Ring!WakeNext(t)
  BY <1>3 DEF Ring!SetError, Ring!StopNext, Ring!WakeNext
<1> QED
  BY <1>1, <1>9, <1>10, <1>11, <1>12, <1>13, <1>14, <1>15, <1>16, <1>17, <1>18, RingOutcomes

LEMMA RingThreadComplete ==
  ASSUME Ring!IInv, main.pc = "await", NEW t \in Ring!Threads, Ring!ThreadStep(t)
  PROVE  Ring!Complete'
<1>1. /\ Ring!TypeOK /\ Ring!InRing /\ Ring!Complete /\ Ring!ErrorsHappened /\ Ring!StopsAreCaused /\ main' = main
      /\ (th[t].pc = "read" => io.read < NumBlocks)
  BY RingReaderReads, RingOutcomes DEF Ring!IInv, Ring!InRing
<1> DEFINE Cause == io.read = NumBlocks \/ coder.res # "ok"
<1>2. (io.read = NumBlocks => io'.read = NumBlocks) /\ (Cause => Cause')
  BY RingCausesStay
<1>3. ASSUME NEW u \in Ring!Threads, Ring!Holding(u)', th'[u].stop PROVE io'.read = NumBlocks
  <2>1. CASE u # t
    <3>1. Ring!Holding(u) /\ th[u].stop
      BY <1>1, <1>3, <2>1, RingThreadLoop, RingFlagsEffect DEF Ring!Holding
    <3> QED
      BY <1>1, <1>2, <3>1 DEF Ring!Complete
  <2>2. CASE u = t /\ Ring!Read(t) /\ th'[t].pc # "error"
    <3>1. th'[t].stop = (io.read + 1 = NumBlocks) /\ io'.read = io.read + 1
      BY <1>1, <2>2, RingReadEffect DEF Ring!Read
    <3> QED
      BY <1>3, <2>2, <3>1
  <2>3. CASE u = t /\ ~(Ring!Read(t) /\ th'[t].pc # "error")
    <3>1. th[t].stop <=> th'[t].stop
      <4>1. CASE Ring!Write(t) /\ th'[t].pc # "error"
        BY <1>1, <4>1, RingWriteEffect DEF RingKeepsBlocks
      <4>2. CASE Ring!Wake(t) \/ Ring!TakeRead(t) \/ Ring!StopReading(t) \/ Ring!TakeWrite(t)
        BY <1>1, <4>2, RingWakeEffect, RingTakeReadEffect, RingStopReadingEffect, RingTakeWriteEffect
           DEF RingKeepsBlocks
      <4>3. CASE Ring!SetError(t) \/ Ring!StopNext(t) \/ Ring!WakeNext(t) \/ Ring!Finish(t)
        BY <1>1, <4>3, RingSetErrorEffect, RingStopNextEffect, RingWakeNextEffect, RingFinishEffect
           DEF RingKeepsBlocks
      <4>4. CASE \E r \in Ring!Faults \cup {coder.progress} : RingFailing(t, r)
        BY <1>1, <4>4, RingFailEffect DEF RingFailing, RingKeepsBlocks
      <4>5. CASE RingGoing(t)
        BY <1>1, <4>5, RingGotoEffect DEF RingGoing, RingKeepsBlocks
      <4> QED
        BY <1>1, <2>3, <4>1, <4>2, <4>3, <4>4, <4>5, RingOutcomes
    <3>2. Ring!Holding(t)
      <4>1. CASE Ring!Write(t) /\ th'[t].pc # "error"
        BY <4>1 DEF Ring!Holding, Ring!Write
      <4>2. CASE ~(Ring!Write(t) /\ th'[t].pc # "error")
        BY <1>3, <2>3, <4>2, RingQuietSteps DEF RingQuiet
      <4> QED
        BY <4>1, <4>2
    <3> QED
      BY <1>1, <1>2, <1>3, <2>3, <3>1, <3>2 DEF Ring!Complete
  <2> QED
    BY <2>1, <2>2, <2>3
<1>4. ASSUME NEW u \in Ring!Threads, th'[u].pc = "finished" \/ th'[u].finishedEvent \/ u < main'.i
      PROVE  Cause'
  <2>1. CASE th[u].pc = "finished" \/ th[u].finishedEvent \/ u < main.i
    BY <1>1, <1>2, <2>1 DEF Ring!Complete
  <2>2. CASE ~(th[u].pc = "finished" \/ th[u].finishedEvent \/ u < main.i)
    <3>1. u = t
      BY <1>1, <1>4, <2>2, RingThreadLoop
    <3>2. th'[t].pc = "finished" /\ th[t].pc # "finished"
      BY <1>1, <1>4, <2>2, <3>1, RingThreadLoop
    <3>3. CASE Ring!StopReading(t)
      <4>1. th[t].stopReading
        BY <3>3 DEF Ring!StopReading
      <4> QED
        BY <1>1, <1>2, <4>1 DEF Ring!StopsAreCaused
    <3>4. CASE Ring!WakeNext(t)
      BY <1>1, <1>2, <3>4 DEF Ring!ErrorsHappened, Ring!WakeNext
    <3>5. CASE Ring!Write(t)
      <4>1. th[t].stop /\ Ring!Holding(t)
        BY <1>1, <3>2, <3>5, RingWriteEffect DEF RingMoves, Ring!Holding, Ring!Write
      <4> QED
        BY <1>1, <1>2, <4>1 DEF Ring!Complete
    <3>6. CASE Ring!Wake(t) \/ Ring!TakeRead(t) \/ Ring!TakeWrite(t) \/ Ring!SetError(t) \/ Ring!StopNext(t) \/ Ring!Finish(t)
      BY <1>1, <3>2, <3>6, RingWakeEffect, RingTakeReadEffect, RingTakeWriteEffect, RingSetErrorEffect,
         RingStopNextEffect, RingFinishEffect DEF RingMoves
    <3>7. CASE Ring!Read(t) /\ th'[t].pc # "error"
      BY <1>1, <3>2, <3>7, RingReadEffect DEF RingMoves, Ring!Read
    <3>8. CASE \E r \in Ring!Faults \cup {coder.progress} : RingFailing(t, r)
      BY <1>1, <3>2, <3>8, RingFailEffect DEF RingFailing, RingMoves
    <3>9. CASE RingGoing(t)
      BY <1>1, <3>2, <3>9, RingGotoEffect DEF RingGoing, RingMoves
    <3> QED
      BY <1>1, <3>3, <3>4, <3>5, <3>6, <3>7, <3>8, <3>9, RingOutcomes
  <2> QED
    BY <2>1, <2>2
<1> QED
  BY <1>3, <1>4, RingThreadWriter DEF Ring!Complete

LEMMA RingThreadInRing ==
  ASSUME Ring!IInv, main.pc = "await", NEW t \in Ring!Threads, Ring!ThreadStep(t)
  PROVE  Ring!InRing'
<1>1. Ring!OneReader' /\ Ring!OneWriter' /\ Ring!InOrder'
  <2>1. Ring!InRing
    BY DEF Ring!IInv
  <2> QED
    BY <2>1, RingReadOrder, RingWriteOrder, RingQuietSteps, RingQuietOrder
<1> QED
  BY <1>1, RingThreadStops, RingThreadCauses, RingThreadErrors, RingThreadComplete DEF Ring!InRing

LEMMA RingThreadStepIInv ==
  ASSUME Ring!IInv, NEW t \in Ring!Threads, Ring!ThreadStep(t)
  PROVE  Ring!IInv'
<1>1. Ring!TypeOK /\ main' = main /\ main.pc \in {"start", "await", "join"}
  BY RingOutcomes, RingStepPhases DEF Ring!IInv
<1>2. Ring!TypeOK'
  BY <1>1, RingThreadTypeOK, RingReaderReads
<1>3. \A u \in Ring!Threads : Ring!Rendezvous(u)'
  BY RingThreadRendezvous
<1>4. main.pc = "start" => Ring!Clean'
  <2> SUFFICES ASSUME main.pc = "start" PROVE Ring!Clean'
    OBVIOUS
  <2>1. RingKeepsReading /\ RingKeepsWriting /\ coder' = coder /\ io' = io
    BY <1>1, RingStepPhases, RingWakeEffect
  <2> QED
    BY <2>1 DEF Ring!IInv, Ring!Clean, RingKeepsReading, RingKeepsWriting
<1>5. main.pc = "await" => Ring!InRing'
  BY RingThreadInRing
<1> QED
  BY <1>1, <1>2, <1>3, <1>4, <1>5 DEF Ring!IInv

-----------------------------------------------------------------------------
(* The steps of the calling thread.                                        *)
LEMMA RingMainTypeOK ==
  ASSUME Ring!IInv, Ring!MainStep
  PROVE  Ring!TypeOK'
<1>1. main \in Ring!MainType /\ th \in [Ring!Threads -> Ring!ThreadType] /\ coder \in Ring!MtType /\ io \in Ring!IoType
  BY DEF Ring!IInv, Ring!TypeOK
<1>2. main.i \in Ring!Threads => main.i + 1 \in 0..NumThreads
  BY RingProperties
<1>3. 0 \in 0..NumThreads /\ 0 \in Ring!Threads /\ 0 \in 0..NumBlocks
  BY RingProperties
<1>4. CASE Ring!Prepare
  <2>1. main.round + 1 \in 0..MaxRounds
    <3>1. main.round \in 0..MaxRounds /\ main.round < MaxRounds /\ MaxRounds \in Nat
      BY <1>1, <1>4, ConstantsAssumption DEF Ring!Prepare, Ring!MainType
    <3> QED
      BY <3>1
  <2>2. main' \in Ring!MainType
    BY <1>1, <1>3, <1>4, <2>1 DEF Ring!Prepare, Ring!MainType
  <2>3. th' \in [Ring!Threads -> Ring!ThreadType]
    BY <1>1, <1>4 DEF Ring!Prepare, Ring!ThreadType
  <2>4. coder' \in Ring!MtType /\ io' \in Ring!IoType
    <3>1. <<>> \in Seq(0..NumBlocks)
      OBVIOUS
    <3> QED
      BY <1>3, <1>4, <3>1 DEF Ring!Prepare, Ring!MtType, Ring!IoType, Ring!Results
  <2> QED
    BY <2>2, <2>3, <2>4 DEF Ring!TypeOK
<1>5. CASE Ring!PrepareFails \/ Ring!AllCreated \/ Ring!AllFinished \/ Ring!Destruct
  <2>1. main' \in Ring!MainType
    BY <1>1, <1>3, <1>5 DEF Ring!PrepareFails, Ring!AllCreated, Ring!AllFinished, Ring!Destruct, Ring!MainType
  <2> QED
    BY <1>1, <1>5, <2>1 DEF Ring!PrepareFails, Ring!AllCreated, Ring!AllFinished, Ring!Destruct, Ring!TypeOK
<1>6. CASE Ring!CreateThread
  <2>1. main' \in Ring!MainType
    BY <1>1, <1>2, <1>6 DEF Ring!CreateThread, Ring!MainType
  <2>2. th' \in [Ring!Threads -> Ring!ThreadType]
    BY <1>1, <1>6 DEF Ring!CreateThread, Ring!ThreadType, Ring!ThreadPcs
  <2> QED
    BY <1>1, <1>6, <2>1, <2>2 DEF Ring!CreateThread, Ring!TypeOK
<1>7. CASE Ring!StartThread \/ Ring!GiveTurns \/ Ring!AwaitThread
  <2>1. main' \in Ring!MainType
    BY <1>1, <1>2, <1>3, <1>7 DEF Ring!StartThread, Ring!GiveTurns, Ring!AwaitThread, Ring!MainType
  <2>2. th' \in [Ring!Threads -> Ring!ThreadType]
    <3>1. CASE Ring!StartThread
      BY <1>1, <3>1 DEF Ring!StartThread, Ring!ThreadType
    <3>3. CASE Ring!AwaitThread
      BY <1>1, <3>3 DEF Ring!AwaitThread, Ring!ThreadType
    <3>2. CASE Ring!GiveTurns
      <4>1. th' = [th EXCEPT ![0].canWrite = TRUE, ![0].canRead = TRUE]
        BY <3>2 DEF Ring!GiveTurns
      <4> QED
        BY <1>1, <1>3, <4>1 DEF Ring!ThreadType
    <3> QED
      BY <1>7, <3>1, <3>2, <3>3
  <2> QED
    BY <1>1, <1>7, <2>1, <2>2 DEF Ring!StartThread, Ring!GiveTurns, Ring!AwaitThread, Ring!TypeOK
<1>8. CASE Ring!Return
  <2>1. Ring!First(main.res, coder.res) \in Ring!Results \cup {"none", "mem", "thread"}
    BY <1>1 DEF Ring!First, Ring!MainType, Ring!MtType
  <2>2. main' \in Ring!MainType
    BY <1>1, <1>8, <2>1 DEF Ring!Return, Ring!MainType
  <2> QED
    BY <1>1, <1>8, <2>2 DEF Ring!Return, Ring!TypeOK
<1>9. CASE Ring!StopThread
  <2>1. main' \in Ring!MainType
    BY <1>1, <1>2, <1>9 DEF Ring!StopThread, Ring!MainType
  <2>2. th' \in [Ring!Threads -> Ring!ThreadType]
    <3>1. \/ th' = th
          \/ th' = [th EXCEPT ![main.i].stopLoop = TRUE, ![main.i].startEvent = TRUE]
      BY <1>9 DEF Ring!StopThread
    <3>2. CASE th' = [th EXCEPT ![main.i].stopLoop = TRUE, ![main.i].startEvent = TRUE]
      BY <1>1, <3>2 DEF Ring!ThreadType
    <3> QED
      BY <1>1, <3>1, <3>2
  <2> QED
    BY <1>1, <1>9, <2>1, <2>2 DEF Ring!StopThread, Ring!TypeOK
<1>10. CASE Ring!JoinThread
  <2>1. main.i \in Ring!Threads
    BY <1>10 DEF Ring!IInv, Ring!JoinThread
  <2>2. main' \in Ring!MainType
    BY <1>1, <1>2, <1>10, <2>1 DEF Ring!JoinThread, Ring!MainType
  <2> QED
    BY <1>1, <1>10, <2>2 DEF Ring!JoinThread, Ring!TypeOK
<1> QED
  BY <1>4, <1>5, <1>6, <1>7, <1>8, <1>9, <1>10 DEF Ring!MainStep

(* Where the calling thread is after its step, and what it did to a thread. *)
RingPhase(from, i, to, j) ==
  main.pc = from /\ main.i = i /\ main'.pc = to /\ main'.i = j

LEMMA RingMainEffect ==
  ASSUME Ring!TypeOK
  PROVE  /\ Ring!Prepare => RingPhase("idle", main.i, "create", 0) /\ main'.returned = "none"
                            /\ main'.res = "ok"
         /\ Ring!PrepareFails => RingPhase("create", 0, "idle", 0) /\ main'.returned = "mem"
                                 /\ main'.res = main.res
         /\ Ring!AllCreated => RingPhase("create", NumThreads, "start", 0)
                               /\ main'.returned = main.returned /\ main'.res = main.res
         /\ Ring!StartThread => RingPhase("start", main.i, "start", main.i + 1)
                                /\ main'.returned = main.returned /\ main'.res = main.res
         /\ Ring!GiveTurns => RingPhase("start", NumThreads, "await", 0)
                              /\ main'.returned = main.returned /\ main'.res = main.res
         /\ Ring!AwaitThread => RingPhase("await", main.i, "await", main.i + 1)
                                /\ main'.returned = main.returned /\ main'.res = main.res
         /\ Ring!AllFinished => RingPhase("await", NumThreads, "close", NumThreads)
                                /\ main'.returned = main.returned /\ main'.res = main.res
         /\ Ring!Return => RingPhase("close", main.i, "idle", main.i)
                           /\ main'.returned = Ring!First(main.res, coder.res) /\ main'.res = main.res
         /\ Ring!Destruct => RingPhase("idle", main.i, "destruct", 0)
                             /\ main'.returned = main.returned /\ main'.res = main.res
         /\ Ring!JoinThread => RingPhase("join", main.i, "destruct", main.i + 1)
                               /\ main'.returned = main.returned /\ main'.res = main.res
<1>1. main \in Ring!MainType
  BY DEF Ring!TypeOK
<1> QED
  BY <1>1 DEF Ring!Prepare, Ring!PrepareFails, Ring!AllCreated, Ring!StartThread, Ring!GiveTurns, Ring!AwaitThread, Ring!AllFinished,
     Ring!Return, Ring!Destruct, Ring!JoinThread, RingPhase, Ring!MainType

LEMMA RingMainForkEffect ==
  ASSUME Ring!TypeOK
  PROVE  /\ Ring!CreateThread =>
              /\ main.pc = "create" /\ main'.returned = main.returned
              /\ \/ main'.pc = "create" /\ main'.i = main.i + 1 /\ main'.res = main.res
                 \/ main'.pc = "close" /\ main'.i = main.i /\ main'.res = "thread"
                      /\ SetupFaults /\ th' = th
         /\ Ring!StopThread =>
              /\ main.pc = "destruct" /\ main'.returned = main.returned /\ main'.res = main.res
              /\ \/ main'.pc = "destruct" /\ main'.i = main.i + 1 /\ th[main.i].pc = "none"
                      /\ th' = th
                 \/ main'.pc = "join" /\ main'.i = main.i /\ th[main.i].pc # "none"
<1>1. main \in Ring!MainType
  BY DEF Ring!TypeOK
<1> QED
  BY <1>1 DEF Ring!CreateThread, Ring!StopThread, Ring!MainType

(* It touches the events of the thread it is at, and clears or gives turns. *)
LEMMA RingMainThreads ==
  ASSUME Ring!TypeOK, Ring!MainStep
  PROVE  /\ \A u \in Ring!Threads :
              /\ u # main.i \/ main.pc # "create" => th'[u].pc = th[u].pc
              /\ u # main.i => /\ th'[u].startEvent = th[u].startEvent
                               /\ th'[u].finishedEvent = th[u].finishedEvent
                               /\ th'[u].stopLoop = th[u].stopLoop
              /\ th'[u].stop = th[u].stop /\ th'[u].res = th[u].res
              /\ th'[u].block = th[u].block
         /\ ~Ring!Prepare => io' = io /\ coder' = coder
         /\ ~Ring!Prepare /\ ~Ring!GiveTurns => RingKeepsReading /\ RingKeepsWriting
         /\ ~Ring!CreateThread /\ ~Ring!StartThread /\ ~Ring!AwaitThread /\ ~Ring!StopThread =>
              RingKeepsLoop /\ \A u \in Ring!Threads : th'[u].pc = th[u].pc
<1>1. th \in [Ring!Threads -> Ring!ThreadType] /\ 0 \in Ring!Threads
  BY RingProperties DEF Ring!TypeOK
<1> USE DEF RingKeepsReading, RingKeepsWriting, RingKeepsLoop
<1>2. CASE Ring!Prepare
  BY <1>1, <1>2 DEF Ring!Prepare, Ring!StartThread, Ring!GiveTurns, Ring!AwaitThread, Ring!StopThread, Ring!CreateThread, Ring!ThreadType
<1>3. CASE Ring!CreateThread
  <2>1. main.pc = "create" /\ main.i \in Ring!Threads /\ io' = io /\ coder' = coder
    BY <1>3 DEF Ring!CreateThread
  <2>2. \A u \in Ring!Threads : /\ u # main.i => th'[u] = th[u]
                                /\ \E p \in Ring!ThreadPcs : th'[u] = [th[u] EXCEPT !.pc = p]
    <3>1. CASE th' = th
      BY <1>1, <3>1 DEF Ring!ThreadType
    <3>2. CASE th' = [th EXCEPT ![main.i].pc = IF @ = "none" THEN "loop" ELSE @]
      BY <1>1, <2>1, <3>2 DEF Ring!ThreadType, Ring!ThreadPcs
    <3> QED
      BY <1>3, <3>1, <3>2 DEF Ring!CreateThread
  <2>3. ASSUME NEW u \in Ring!Threads
        PROVE  /\ u # main.i => th'[u].pc = th[u].pc
               /\ th'[u].startEvent = th[u].startEvent
               /\ th'[u].finishedEvent = th[u].finishedEvent
               /\ th'[u].stopLoop = th[u].stopLoop
               /\ th'[u].stop = th[u].stop /\ th'[u].res = th[u].res
               /\ th'[u].block = th[u].block
               /\ th'[u].canRead = th[u].canRead /\ th'[u].stopReading = th[u].stopReading
               /\ th'[u].canWrite = th[u].canWrite /\ th'[u].stopWriting = th[u].stopWriting
    <3>1. PICK p \in Ring!ThreadPcs : th'[u] = [th[u] EXCEPT !.pc = p]
      BY <2>2
    <3>2. th[u] \in Ring!ThreadType
      BY <1>1
    <3> QED
      BY <2>2, <3>1, <3>2 DEF Ring!ThreadType
  <2> QED
    BY <1>3, <2>1, <2>3
<1>4. CASE Ring!StartThread
  BY <1>1, <1>4 DEF Ring!StartThread, Ring!GiveTurns, Ring!Prepare, Ring!ThreadType
<1>5. CASE Ring!GiveTurns
  <2>1. th' = [th EXCEPT ![0].canWrite = TRUE, ![0].canRead = TRUE]
    BY <1>5 DEF Ring!GiveTurns
  <2>2. io' = io /\ coder' = coder
    BY <1>5 DEF Ring!GiveTurns
  <2> QED
    BY <1>1, <1>5, <2>1, <2>2 DEF Ring!ThreadType
<1>6. CASE Ring!AwaitThread
  BY <1>1, <1>6 DEF Ring!AwaitThread, Ring!GiveTurns, Ring!Prepare, Ring!ThreadType
<1>7. CASE Ring!StopThread
  <2>1. \/ th' = th
        \/ th' = [th EXCEPT ![main.i].stopLoop = TRUE, ![main.i].startEvent = TRUE]
    BY <1>7 DEF Ring!StopThread
  <2>2. main.i \in Ring!Threads /\ io' = io /\ coder' = coder
    BY <1>7 DEF Ring!StopThread
  <2> QED
    BY <1>1, <1>7, <2>1, <2>2 DEF Ring!ThreadType
<1>8. CASE Ring!PrepareFails \/ Ring!AllCreated \/ Ring!AllFinished \/ Ring!Return \/ Ring!Destruct \/ Ring!JoinThread
  BY <1>1, <1>8 DEF Ring!PrepareFails, Ring!AllCreated, Ring!AllFinished, Ring!Return, Ring!Destruct, Ring!JoinThread
<1> QED
  BY <1>2, <1>3, <1>4, <1>5, <1>6, <1>7, <1>8 DEF Ring!MainStep

LEMMA RingMainRendezvous ==
  ASSUME Ring!IInv, Ring!MainStep, NEW u \in Ring!Threads
  PROVE  Ring!Rendezvous(u)'
<1>1. Ring!TypeOK /\ Ring!Rendezvous(u) /\ th[u] \in Ring!ThreadType /\ th \in [Ring!Threads -> Ring!ThreadType]
  BY DEF Ring!IInv, Ring!TypeOK
<1>2. main.i \in Nat /\ main.i <= NumThreads /\ u \in Nat /\ u < NumThreads /\ NumThreads \in Nat
  BY <1>1, RingMainProperties, RingProperties
<1>3. CASE Ring!PrepareFails \/ Ring!AllCreated \/ Ring!AllFinished \/ Ring!Return \/ Ring!Destruct \/ Ring!Prepare \/ Ring!GiveTurns
  <2>1. /\ th'[u].pc = th[u].pc /\ th'[u].startEvent = th[u].startEvent
        /\ th'[u].finishedEvent = th[u].finishedEvent /\ th'[u].stopLoop = th[u].stopLoop
    <3>1. ~Ring!CreateThread /\ ~Ring!StartThread /\ ~Ring!AwaitThread /\ ~Ring!StopThread
      <4>1. NumThreads \notin Ring!Threads
        BY <1>2 DEF Ring!Threads
      <4>2. CASE Ring!AllCreated \/ Ring!GiveTurns \/ Ring!AllFinished
        BY <4>1, <4>2 DEF Ring!AllCreated, Ring!GiveTurns, Ring!AllFinished, Ring!CreateThread, Ring!StartThread,
           Ring!AwaitThread, Ring!StopThread
      <4>3. CASE Ring!Return \/ Ring!Destruct \/ Ring!Prepare
        BY <4>3 DEF Ring!Return, Ring!Destruct, Ring!Prepare, Ring!CreateThread, Ring!StartThread, Ring!AwaitThread, Ring!StopThread
      <4>4. CASE Ring!PrepareFails
        BY <4>4, <1>1 DEF Ring!PrepareFails, Ring!CreateThread, Ring!StartThread, Ring!AwaitThread, Ring!StopThread, Ring!TypeOK, Ring!MainType
      <4> QED
        BY <1>3, <4>2, <4>3, <4>4
    <3> QED
      BY <1>1, <3>1, RingMainThreads DEF RingKeepsLoop
  <2>2. \/ RingPhase("create", 0, "idle", 0) \/ RingPhase("create", NumThreads, "start", 0)
        \/ RingPhase("await", NumThreads, "close", NumThreads)
        \/ RingPhase("close", main.i, "idle", main.i)
        \/ RingPhase("idle", main.i, "destruct", 0) \/ RingPhase("idle", main.i, "create", 0)
        \/ RingPhase("start", NumThreads, "await", 0)
    BY <1>1, <1>3, RingMainEffect
  <2>3. CASE RingPhase("create", 0, "idle", 0) \/ RingPhase("close", main.i, "idle", main.i)
             \/ RingPhase("idle", main.i, "destruct", 0) \/ RingPhase("idle", main.i, "create", 0)
    BY <1>1, <1>2, <2>1, <2>3 DEF Ring!Rendezvous, RingPhase
  <2>4. CASE RingPhase("create", NumThreads, "start", 0)
    BY <1>1, <1>2, <2>1, <2>4 DEF Ring!Rendezvous, RingPhase
  <2>5. CASE RingPhase("await", NumThreads, "close", NumThreads)
    BY <1>1, <1>2, <2>1, <2>5 DEF Ring!Rendezvous, RingPhase
  <2>6. CASE RingPhase("start", NumThreads, "await", 0)
    BY <1>1, <1>2, <2>1, <2>6 DEF Ring!Rendezvous, RingPhase
  <2> QED
    BY <2>2, <2>3, <2>4, <2>5, <2>6
<1>4. CASE Ring!CreateThread
  <2>1. /\ th'[u].startEvent = th[u].startEvent
        /\ th'[u].finishedEvent = th[u].finishedEvent /\ th'[u].stopLoop = th[u].stopLoop
        /\ u # main.i => th'[u].pc = th[u].pc
        /\ u = main.i /\ main'.pc = "create" => th'[u].pc = IF th[u].pc = "none" THEN "loop" ELSE th[u].pc
        /\ main'.pc = "close" => th'[u].pc = th[u].pc
    <3>1. CASE th' = th /\ main' = [main EXCEPT !.pc = "close", !.res = "thread"]
      BY <1>1, <3>1 DEF Ring!TypeOK, Ring!MainType
    <3>2. CASE th' = [th EXCEPT ![main.i].pc = IF @ = "none" THEN "loop" ELSE @]
               /\ main' = [main EXCEPT !.i = @ + 1]
      BY <1>1, <1>4, <3>2 DEF Ring!CreateThread, Ring!ThreadType, Ring!TypeOK, Ring!MainType
    <3> QED
      BY <1>4, <3>1, <3>2 DEF Ring!CreateThread
  <2>2. /\ main.pc = "create"
        /\ \/ main'.pc = "create" /\ main'.i = main.i + 1
           \/ main'.pc = "close" /\ main'.i = main.i
    BY <1>1, <1>4, RingMainForkEffect
  <2>3. CASE main'.pc = "close"
    BY <1>1, <1>2, <2>1, <2>2, <2>3 DEF Ring!Rendezvous
  <2>4. CASE main'.pc = "create" /\ main'.i = main.i + 1
    <3>1. u < main'.i => u < main.i \/ u = main.i
      BY <1>2, <2>4
    <3> QED
      BY <1>1, <1>2, <2>1, <2>2, <2>4, <3>1 DEF Ring!Rendezvous
  <2> QED
    BY <2>2, <2>3, <2>4
<1>5. CASE Ring!StartThread
  <2>1. RingPhase("start", main.i, "start", main.i + 1)
    BY <1>1, <1>5, RingMainEffect
  <2>2. /\ th'[u].startEvent <=> th[u].startEvent \/ u = main.i
        /\ th'[u].finishedEvent = th[u].finishedEvent /\ th'[u].stopLoop = th[u].stopLoop
        /\ th'[u].pc = th[u].pc
    BY <1>1, <1>5 DEF Ring!StartThread, Ring!ThreadType
  <2>3. u < main.i + 1 <=> u < main.i \/ u = main.i
    BY <1>2
  <2> QED
    BY <1>1, <1>2, <2>1, <2>2, <2>3 DEF Ring!Rendezvous, RingPhase
<1>6. CASE Ring!AwaitThread
  <2>1. RingPhase("await", main.i, "await", main.i + 1) /\ th[main.i].finishedEvent
    BY <1>1, <1>6, RingMainEffect DEF Ring!AwaitThread
  <2>2. /\ th'[u].startEvent = th[u].startEvent
        /\ th'[u].finishedEvent <=> th[u].finishedEvent /\ u # main.i
        /\ th'[u].stopLoop = th[u].stopLoop /\ th'[u].pc = th[u].pc
    BY <1>1, <1>6 DEF Ring!AwaitThread, Ring!ThreadType
  <2>3. /\ u < main.i + 1 <=> u < main.i \/ u = main.i
        /\ main.i <= u /\ u # main.i => main.i + 1 <= u
    BY <1>2
  <2> QED
    BY <1>1, <1>2, <2>1, <2>2, <2>3 DEF Ring!Rendezvous, RingPhase
<1>7. CASE Ring!StopThread
  <2>1. /\ main.pc = "destruct"
        /\ \/ main'.pc = "destruct" /\ main'.i = main.i + 1 /\ th[main.i].pc = "none" /\ th' = th
           \/ main'.pc = "join" /\ main'.i = main.i /\ th[main.i].pc # "none"
    BY <1>1, <1>7, RingMainForkEffect
  <2>2. u < main.i + 1 <=> u < main.i \/ u = main.i
    BY <1>2
  <2>3. CASE main'.pc = "destruct" /\ main'.i = main.i + 1 /\ th[main.i].pc = "none" /\ th' = th
    <3>1. u > main.i + 1 \/ u = main.i + 1 => u > main.i
      BY <1>2
    <3> QED
      BY <1>1, <1>2, <2>1, <2>2, <2>3, <3>1 DEF Ring!Rendezvous
  <2>4. CASE main'.pc = "join" /\ main'.i = main.i /\ th[main.i].pc # "none"
    <3>1. th' = [th EXCEPT ![main.i].stopLoop = TRUE, ![main.i].startEvent = TRUE]
      BY <1>7, <2>1, <2>4 DEF Ring!StopThread
    <3>2. main.i \in Ring!Threads
      BY <1>7 DEF Ring!StopThread
    <3>3. /\ th'[u].pc = th[u].pc /\ th'[u].finishedEvent = th[u].finishedEvent
          /\ th'[u].startEvent <=> th[u].startEvent \/ u = main.i
          /\ th'[u].stopLoop <=> th[u].stopLoop \/ u = main.i
      BY <1>1, <3>1, <3>2 DEF Ring!ThreadType
    <3> QED
      BY <1>1, <1>2, <2>1, <2>4, <3>3 DEF Ring!Rendezvous
  <2> QED
    BY <2>1, <2>3, <2>4
<1>8. CASE Ring!JoinThread
  <2>1. RingPhase("join", main.i, "destruct", main.i + 1) /\ th' = th /\ th[main.i].pc = "exited"
    BY <1>1, <1>8, RingMainEffect DEF Ring!JoinThread
  <2>2. /\ u < main.i + 1 <=> u < main.i \/ u = main.i
        /\ u > main.i + 1 \/ u = main.i + 1 => u > main.i
    BY <1>2
  <2> QED
    BY <1>1, <1>2, <2>1, <2>2 DEF Ring!Rendezvous, RingPhase
<1> QED
  BY <1>3, <1>4, <1>5, <1>6, <1>7, <1>8 DEF Ring!MainStep

(* A call starts with the rights at thread 0, and nothing read or written. *)
LEMMA RingGiveTurnsInRing ==
  ASSUME Ring!IInv, Ring!GiveTurns
  PROVE  Ring!InRing'
<1> USE DEF Ring!Reader, Ring!Writer, Ring!MayRead, Ring!MayWrite, Ring!Holding
<1>1. /\ Ring!TypeOK /\ Ring!Clean /\ main.pc = "start" /\ main.i = NumThreads /\ io' = io /\ coder' = coder
      /\ th \in [Ring!Threads -> Ring!ThreadType] /\ 0 \in Ring!Threads
  BY RingProperties DEF Ring!IInv, Ring!GiveTurns, Ring!TypeOK
<1>2. th' = [th EXCEPT ![0].canWrite = TRUE, ![0].canRead = TRUE]
  BY DEF Ring!GiveTurns
<1>3. ASSUME NEW u \in Ring!Threads
      PROVE  /\ th'[u].canRead <=> u = 0
             /\ th'[u].canWrite <=> u = 0
             /\ ~th'[u].stopReading /\ ~th'[u].stopWriting
             /\ th'[u].pc \in {"loop", "canRead"} /\ ~th'[u].finishedEvent
  <2>1. ~th[u].canRead /\ ~th[u].canWrite /\ ~th[u].stopReading /\ ~th[u].stopWriting
    BY <1>1 DEF Ring!Clean
  <2>2. th[u].pc \in {"loop", "canRead"} /\ ~th[u].finishedEvent
    <3>1. Ring!Rendezvous(u) /\ u < main.i
      BY <1>1, RingProperties DEF Ring!IInv
    <3> QED
      BY <1>1, <3>1 DEF Ring!Rendezvous
  <2> QED
    BY <1>1, <1>2, <2>1, <2>2 DEF Ring!ThreadType
<1>4. io'.read = 0 /\ io'.written = <<>> /\ Len(io'.written) = 0 /\ coder'.res = "ok" /\ coder'.progress = "ok"
  BY <1>1 DEF Ring!Clean
<1>10. io'.read - Len(io'.written) = 0 /\ Len(io'.written) <= io'.read
  <2>1. io'.read = 0 /\ Len(io'.written) = 0
    BY <1>4
  <2> QED
    BY <2>1
<1>5. Ring!OneReader' /\ Ring!OneWriter'
  <2>1. 0 < NumBlocks
    BY RingProperties
  <2> QED
    BY <1>3, <1>4, <2>1 DEF Ring!OneReader, Ring!OneWriter
<1>6. \A u \in Ring!Threads : Ring!StopsFollow(u)'
  <2>1. \A u \in Ring!Threads : ~th'[Ring!NextThread(u)].stopReading
    BY <1>3, RingProperties
  <2> QED
    BY <1>3, <2>1 DEF Ring!StopsFollow
<1>7. Ring!StopsAreCaused' /\ Ring!ErrorsHappened'
  BY <1>3, <1>4 DEF Ring!StopsAreCaused, Ring!ErrorsHappened
<1>8. Ring!InOrder'
  <2>1. io'.read - Len(io'.written) = 0 /\ 0 <= NumThreads /\ Len(io'.written) <= io'.read
    BY <1>10, RingProperties
  <2>2. \A d \in Ring!Threads : ~(d < 0)
    BY RingProperties
  <2>3. \A z, u, d \in Ring!Threads : Ring!PlaceAfter(z, u, d)'
    BY <1>3, <2>1, <2>2 DEF Ring!PlaceAfter
  <2>4. Ring!Ahead(0, 0, 0)
    BY DEF Ring!Ahead
  <2> QED
    BY <1>3, <2>1, <2>3, <2>4 DEF Ring!InOrder
<1>9. Ring!Complete'
  <2>1. main'.i = 0
    BY <1>1, RingMainEffect DEF RingPhase
  <2>2. \A d \in Ring!Threads : ~(d < io'.read - Len(io'.written))
    <3>1. \A d \in Ring!Threads : ~(d < 0)
      BY RingProperties
    <3> QED
      BY <1>10, <3>1
  <2>3. \A u \in Ring!Threads : ~(u < main'.i)
    BY <2>1, RingProperties
  <2>4. Ring!Writer(0)'
    BY <1>1, <1>3
  <2> QED
    BY <1>1, <1>3, <2>2, <2>3, <2>4 DEF Ring!Complete
<1> QED
  BY <1>5, <1>6, <1>7, <1>8, <1>9 DEF Ring!InRing

LEMMA RingAwaitInRing ==
  ASSUME Ring!IInv, Ring!AwaitThread
  PROVE  Ring!InRing'
<1> USE DEF Ring!Reader, Ring!Writer, Ring!MayRead, Ring!MayWrite, Ring!Holding
<1>1. /\ Ring!TypeOK /\ Ring!InRing /\ main.pc = "await" /\ main.i \in Ring!Threads /\ io' = io /\ coder' = coder
      /\ th[main.i].finishedEvent /\ main'.i = main.i + 1
  BY RingMainEffect DEF Ring!IInv, Ring!AwaitThread, RingPhase
<1>2. /\ \A u \in Ring!Threads :
           /\ th'[u].pc = th[u].pc /\ th'[u].startEvent = th[u].startEvent
           /\ th'[u].stop = th[u].stop /\ th'[u].res = th[u].res
           /\ th'[u].block = th[u].block
           /\ th'[u].canRead = th[u].canRead /\ th'[u].stopReading = th[u].stopReading
           /\ th'[u].canWrite = th[u].canWrite /\ th'[u].stopWriting = th[u].stopWriting
           /\ th'[u].finishedEvent => th[u].finishedEvent
  BY <1>1 DEF Ring!AwaitThread, Ring!TypeOK, Ring!ThreadType
<1>3. Ring!OneReader'
  BY <1>1, <1>2 DEF Ring!InRing, Ring!OneReader
<1>4. Ring!OneWriter'
  BY <1>1, <1>2 DEF Ring!InRing, Ring!OneWriter
<1>5. ASSUME NEW u \in Ring!Threads PROVE Ring!StopsFollow(u)'
  <2>1. Ring!StopsFollow(u) /\ Ring!NextThread(u) \in Ring!Threads
    BY <1>1, RingProperties DEF Ring!InRing
  <2> QED
    BY <1>2, <2>1 DEF Ring!StopsFollow
<1>6. Ring!StopsAreCaused' /\ Ring!ErrorsHappened'
  BY <1>1, <1>2 DEF Ring!InRing, Ring!StopsAreCaused, Ring!ErrorsHappened
<1>7. Ring!InOrder'
  <2>1. \A z, u, d \in Ring!Threads : Ring!PlaceAfter(z, u, d) => Ring!PlaceAfter(z, u, d)'
    BY <1>1, <1>2 DEF Ring!PlaceAfter, Ring!HasRead
  <2>2. \A u \in Ring!Threads : /\ Ring!Reader(u)' <=> Ring!Reader(u)
                                /\ Ring!Writer(u)' <=> Ring!Writer(u)
    BY <1>2
  <2> QED
    BY <1>1, <2>1, <2>2 DEF Ring!InRing, Ring!InOrder
<1>8. Ring!Complete'
  <2>1. Ring!Complete
    BY <1>1 DEF Ring!InRing
  <2>2. \A u \in Ring!Threads : /\ Ring!Writer(u)' <=> Ring!Writer(u)
                                /\ Ring!Holding(u)' <=> Ring!Holding(u)
    BY <1>2
  <2>3. Ring!NoError' => Ring!NoError
    BY <1>1, <1>2 DEF Ring!NoError
  <2>4. \A u \in Ring!Threads : u < main'.i => u < main.i \/ u = main.i
    BY <1>1, RingProperties
  <2>5. ASSUME NEW u \in Ring!Threads, th'[u].pc = "finished" \/ th'[u].finishedEvent \/ u < main'.i
        PROVE  io'.read = NumBlocks \/ coder'.res # "ok"
    BY <1>1, <1>2, <2>1, <2>4, <2>5 DEF Ring!Complete
  <2>6. \A u \in Ring!Threads : Ring!Holding(u)' /\ th'[u].stop => io'.read = NumBlocks
    BY <1>1, <1>2, <2>1, <2>2 DEF Ring!Complete
  <2>7. Ring!NoError' => \E z \in Ring!Threads :
          /\ Ring!Writer(z)'
          /\ \A u, d \in Ring!Threads :
               Ring!Ahead(z, u, d) /\ d < io'.read - Len(io'.written) => Ring!Holding(u)'
    BY <1>1, <2>1, <2>2, <2>3 DEF Ring!Complete
  <2> QED
    BY <2>5, <2>6, <2>7 DEF Ring!Complete
<1> QED
  BY <1>3, <1>4, <1>5, <1>6, <1>7, <1>8 DEF Ring!InRing

(* When all threads have finished, all blocks are written or there was an  *)
(* error.                                                                  *)
LEMMA RingAllFinishedComplete ==
  ASSUME Ring!IInv, Ring!AllFinished
  PROVE  /\ coder'.res \in Ring!Faults \cup {"ok"}
         /\ coder'.res = "ok" => Len(io'.written) = NumBlocks
<1>1. Ring!TypeOK /\ Ring!InRing /\ main.pc = "await" /\ main.i = NumThreads /\ io' = io /\ coder' = coder
  BY DEF Ring!IInv, Ring!AllFinished
<1>2. coder.res \in Ring!Faults \cup {"ok"}
  BY <1>1 DEF Ring!InRing, Ring!ErrorsHappened
<1>3. ASSUME coder.res = "ok" PROVE Len(io.written) = NumBlocks
  <2>1. \A t \in Ring!Threads : th[t].pc = "loop"
    <3>1. \A t \in Ring!Threads : Ring!Rendezvous(t) /\ t < main.i
      BY <1>1, RingProperties DEF Ring!IInv
    <3> QED
      BY <1>1, <3>1 DEF Ring!Rendezvous
  <2>2. Ring!NoError
    BY <1>3, <2>1 DEF Ring!NoError
  <2>3. PICK z \in Ring!Threads :
          \A t, d \in Ring!Threads : Ring!Ahead(z, t, d) /\ d < io.read - Len(io.written) => Ring!Holding(t)
    BY <1>1, <2>2 DEF Ring!InRing, Ring!Complete
  <2>4. Ring!Ahead(z, z, 0) /\ 0 \in Ring!Threads
    BY RingProperties DEF Ring!Ahead
  <2>5. ~(0 < io.read - Len(io.written))
    BY <2>1, <2>3, <2>4 DEF Ring!Holding
  <2>6. 0 < main.i
    BY <1>1, RingProperties
  <2>7. io.read = NumBlocks
    BY <1>1, <1>3, <2>4, <2>6 DEF Ring!InRing, Ring!Complete
  <2>8. Len(io.written) <= io.read
    BY <1>1 DEF Ring!InRing, Ring!InOrder
  <2> QED
    BY <1>1, <2>5, <2>7, <2>8, RingFlowProperties
<1> QED
  BY <1>1, <1>2, <1>3

LEMMA RingMainStepIInv ==
  ASSUME Ring!IInv, Ring!MainStep
  PROVE  Ring!IInv'
<1>1. Ring!TypeOK /\ Ring!TypeOK' /\ \A u \in Ring!Threads : Ring!Rendezvous(u)'
  BY RingMainTypeOK, RingMainRendezvous DEF Ring!IInv
<1>2. /\ main.pc \in {"create", "start", "await", "close"} <=> main.returned = "none"
      /\ main.pc \in {"create", "start", "await"} => main.res = "ok"
      /\ main.res = "thread" => SetupFaults
      /\ main.pc = "join" => main.i \in Ring!Threads
      /\ main.pc \in {"create", "start"} => Ring!Clean
      /\ main.pc = "await" => Ring!InRing
  BY DEF Ring!IInv
<1> DEFINE Rest == /\ main.pc \in {"create", "start", "await", "close"} <=> main.returned = "none"
                   /\ main.pc \in {"create", "start", "await"} => main.res = "ok"
                   /\ main.res = "thread" => SetupFaults
                   /\ main.pc = "join" => main.i \in Ring!Threads
                   /\ main.pc \in {"create", "start"} => Ring!Clean
                   /\ main.pc = "await" => Ring!InRing
                   /\ main.pc = "close" =>
                        /\ coder.res \in Ring!Faults \cup {"ok"}
                        /\ main.res = "ok" /\ coder.res = "ok" => Len(io.written) = NumBlocks
<1>3. CASE Ring!Prepare
  <2>1. RingPhase("idle", main.i, "create", 0) /\ main'.returned = "none" /\ main'.res = "ok"
    BY <1>1, <1>3, RingMainEffect
  <2>2. Ring!Clean'
    <3>1. th \in [Ring!Threads -> Ring!ThreadType]
      BY <1>1 DEF Ring!TypeOK
    <3> QED
      BY <1>3, <3>1 DEF Ring!Prepare, Ring!Clean, Ring!ThreadType
  <2> QED
    BY <1>1, <2>1, <2>2 DEF Ring!IInv, RingPhase
<1>4. ASSUME Ring!Clean, ~Ring!Prepare, ~Ring!GiveTurns PROVE Ring!Clean'
  BY <1>1, <1>4, RingMainThreads DEF Ring!Clean, RingKeepsReading, RingKeepsWriting
<1>5. CASE Ring!PrepareFails
  BY <1>1, <1>2, <1>5, RingMainEffect DEF Ring!IInv, RingPhase
<1>6. CASE Ring!CreateThread
  <2>1. ~Ring!Prepare /\ ~Ring!GiveTurns
    BY <1>6 DEF Ring!CreateThread, Ring!Prepare, Ring!GiveTurns
  <2>2. /\ main.pc = "create" /\ main'.returned = main.returned /\ Ring!Clean'
        /\ \/ main'.pc = "create" /\ main'.i = main.i + 1 /\ main'.res = main.res
           \/ main'.pc = "close" /\ main'.i = main.i /\ main'.res = "thread" /\ SetupFaults
    BY <1>1, <1>2, <1>4, <1>6, <2>1, RingMainForkEffect
  <2>3. coder'.res = "ok"
    BY <2>2 DEF Ring!Clean
  <2> QED
    BY <1>1, <1>2, <2>2, <2>3 DEF Ring!IInv
<1>7. CASE Ring!AllCreated \/ Ring!StartThread
  <2>1. ~Ring!Prepare /\ ~Ring!GiveTurns
    <3>1. NumThreads \notin Ring!Threads
      BY RingProperties DEF Ring!Threads
    <3> QED
      BY <1>7, <3>1 DEF Ring!AllCreated, Ring!StartThread, Ring!Prepare, Ring!GiveTurns
  <2>2. /\ main.pc \in {"create", "start"} /\ main'.pc = "start"
        /\ main'.returned = main.returned /\ main'.res = main.res
    BY <1>1, <1>7, RingMainEffect DEF RingPhase
  <2> QED
    BY <1>1, <1>2, <1>4, <2>1, <2>2 DEF Ring!IInv
<1>8. CASE Ring!GiveTurns
  <2>1. /\ main.pc = "start" /\ main'.pc = "await"
        /\ main'.returned = main.returned /\ main'.res = main.res
    BY <1>1, <1>8, RingMainEffect DEF RingPhase
  <2> QED
    BY <1>1, <1>2, <1>8, <2>1, RingGiveTurnsInRing DEF Ring!IInv
<1>9. CASE Ring!AwaitThread
  <2>1. /\ main.pc = "await" /\ main'.pc = "await"
        /\ main'.returned = main.returned /\ main'.res = main.res
    BY <1>1, <1>9, RingMainEffect DEF RingPhase
  <2> QED
    BY <1>1, <1>2, <1>9, <2>1, RingAwaitInRing DEF Ring!IInv
<1>10. CASE Ring!AllFinished
  <2>1. /\ main.pc = "await" /\ main'.pc = "close"
        /\ main'.returned = main.returned /\ main'.res = main.res
    BY <1>1, <1>10, RingMainEffect DEF RingPhase
  <2> QED
    BY <1>1, <1>2, <1>10, <2>1, RingAllFinishedComplete DEF Ring!IInv
<1>11. CASE Ring!Return
  <2>1. /\ main.pc = "close" /\ main'.pc = "idle" /\ main'.res = main.res
        /\ main'.returned = Ring!First(main.res, coder.res)
    BY <1>1, <1>11, RingMainEffect DEF RingPhase
  <2>2. main'.returned # "none"
    <3>1. main.res \in {"ok", "thread"} /\ coder.res \in Ring!Results
      BY <1>1 DEF Ring!TypeOK, Ring!MainType, Ring!MtType
    <3> QED
      BY <2>1, <3>1 DEF Ring!First, Ring!Results
  <2> QED
    BY <1>1, <1>2, <2>1, <2>2 DEF Ring!IInv
<1>12. CASE Ring!Destruct \/ Ring!JoinThread
  <2>1. /\ main.pc \in {"idle", "join"} /\ main'.pc = "destruct"
        /\ main'.returned = main.returned /\ main'.res = main.res
    BY <1>1, <1>12, RingMainEffect DEF RingPhase
  <2> QED
    BY <1>1, <1>2, <2>1 DEF Ring!IInv
<1>13. CASE Ring!StopThread
  <2>1. /\ main.pc = "destruct" /\ main.i \in Ring!Threads
        /\ main'.returned = main.returned /\ main'.res = main.res
        /\ main'.pc = "destruct" \/ (main'.pc = "join" /\ main'.i = main.i)
    BY <1>1, <1>13, RingMainForkEffect DEF Ring!StopThread
  <2> QED
    BY <1>1, <1>2, <2>1 DEF Ring!IInv
<1> QED
  BY <1>3, <1>5, <1>6, <1>7, <1>8, <1>9, <1>10, <1>11, <1>12, <1>13 DEF Ring!MainStep

LEMMA RingStepIInv == Ring!IInv /\ [Ring!Next]_Ring!vars => Ring!IInv'
<1> SUFFICES ASSUME Ring!IInv, [Ring!Next]_Ring!vars PROVE Ring!IInv'
  OBVIOUS
<1>1. CASE UNCHANGED Ring!vars
  <2>1. main' = main /\ th' = th /\ coder' = coder /\ io' = io
    BY <1>1 DEF Ring!vars
  <2>2. /\ Ring!TypeOK' <=> Ring!TypeOK
        /\ \A t \in Ring!Threads : Ring!Rendezvous(t)' <=> Ring!Rendezvous(t)
        /\ Ring!Clean' <=> Ring!Clean
    BY <2>1 DEF Ring!TypeOK, Ring!Rendezvous, Ring!Clean
  <2>3. \A t \in Ring!Threads : /\ Ring!Reader(t)' <=> Ring!Reader(t)
                                /\ Ring!Writer(t)' <=> Ring!Writer(t)
                                /\ Ring!MayRead(t)' <=> Ring!MayRead(t)
                                /\ Ring!MayWrite(t)' <=> Ring!MayWrite(t)
                                /\ Ring!Holding(t)' <=> Ring!Holding(t)
                                /\ Ring!StopsFollow(t)' <=> Ring!StopsFollow(t)
    BY <2>1 DEF Ring!Reader, Ring!Writer, Ring!MayRead, Ring!MayWrite, Ring!Holding, Ring!StopsFollow
  <2>4. \A z, t, d \in Ring!Threads : Ring!PlaceAfter(z, t, d)' <=> Ring!PlaceAfter(z, t, d)
    BY <2>1 DEF Ring!PlaceAfter, Ring!HasRead, Ring!Holding
  <2>5. /\ Ring!OneReader' <=> Ring!OneReader
        /\ Ring!OneWriter' <=> Ring!OneWriter
        /\ Ring!StopsAreCaused' <=> Ring!StopsAreCaused
        /\ Ring!ErrorsHappened' <=> Ring!ErrorsHappened
        /\ Ring!NoError' <=> Ring!NoError
    BY <2>1, <2>3 DEF Ring!OneReader, Ring!OneWriter, Ring!StopsAreCaused, Ring!ErrorsHappened, Ring!NoError
  <2>6. Ring!InOrder' <=> Ring!InOrder
    BY <2>1, <2>3, <2>4 DEF Ring!InOrder
  <2>7. Ring!Complete' <=> Ring!Complete
    BY <2>1, <2>3, <2>5 DEF Ring!Complete
  <2>8. Ring!InRing' <=> Ring!InRing
    BY <2>3, <2>5, <2>6, <2>7 DEF Ring!InRing
  <2> QED
    BY <2>1, <2>2, <2>8 DEF Ring!IInv
<1> QED
  BY <1>1, RingThreadStepIInv, RingMainStepIInv DEF Ring!Next

(* Events, flags, rights and blocks of the threads fit together in every   *)
(* reachable state of CMtCoder.                                            *)
THEOREM RingInvariant == Ring!Spec => []Ring!IInv
<1>1. Ring!Init => Ring!IInv
  BY RingInitIInv
<1>2. Ring!IInv /\ [Ring!Next]_Ring!vars => Ring!IInv'
  BY RingStepIInv
<1> QED
  BY <1>1, <1>2, PTL DEF Ring!Spec

LEMMA RingRestOfIInv == Ring!IInv => Ring!ThreadsAtRest
BY DEF Ring!IInv, Ring!Rendezvous, Ring!ThreadsAtRest

(* When MtCoder_Code has returned, and when it closes the events, every    *)
(* thread is at its start event and no event of the call is still set.     *)
THEOREM RingAtRest == Ring!Spec => []Ring!ThreadsAtRest
BY RingRestOfIInv, RingInvariant, PTL

-----------------------------------------------------------------------------
(* The order of the blocks at the output.                                  *)

(* CMtThread_Prepare begins a new output, MtThread_Process adds the block  *)
(* that comes next in the input, and MtCoder_Code returns "ok" when all    *)
(* are written, or else an error that happened; no other step changes      *)
(* output or result.                                                       *)
RingStarts == main.returned # "none" /\ io'.written = <<>> /\ main'.returned = "none"
RingWrites ==
  /\ main.returned = "none" /\ Len(io.written) < NumBlocks
  /\ io'.written = Append(io.written, Len(io.written) + 1)
  /\ main'.returned = main.returned
RingReturns ==
  /\ main.returned = "none" /\ io'.written = io.written
  /\ main'.returned \in Ring!Faults \cup (IF SetupFaults THEN {"mem", "thread"} ELSE {})
                          \cup IF Len(io.written) = NumBlocks THEN {"ok"} ELSE {}
RingSilent == io'.written = io.written /\ main'.returned = main.returned

LEMMA RingStepInOrder == Ring!IInv /\ [Ring!Next]_Ring!vars => RingStarts \/ RingWrites \/ RingReturns \/ RingSilent
<1> SUFFICES ASSUME Ring!IInv, [Ring!Next]_Ring!vars PROVE RingStarts \/ RingWrites \/ RingReturns \/ RingSilent
  OBVIOUS
<1>1. Ring!TypeOK
  BY DEF Ring!IInv
<1>2. ASSUME NEW t \in Ring!Threads, Ring!ThreadStep(t) PROVE RingWrites \/ RingSilent
  <2>1. main' = main /\ (th[t].pc = "read" => io.read < NumBlocks)
    BY <1>1, <1>2, RingOutcomes, RingReaderReads
  <2>2. CASE Ring!Write(t) /\ th'[t].pc # "error"
    <3>1. th[t].pc = "write" /\ io'.written = Append(io.written, th[t].block)
      BY <1>1, <2>2, RingWriteEffect DEF Ring!Write
    <3>2. main.pc = "await"
      <4>1. ~Ring!Wake(t)
        BY <3>1 DEF Ring!Wake
      <4> QED
        BY <1>2, <4>1, RingStepPhases
    <3>3. 0 < io.read - Len(io.written) /\ th[t].block = Len(io.written) + 1
      BY <1>1, <3>1, <3>2, RingWriterPlace DEF Ring!IInv
    <3>4. Len(io.written) < NumBlocks
      <4>1. /\ io.read \in Nat /\ io.read <= NumBlocks /\ Len(io.written) \in Nat
            /\ NumBlocks \in Nat
        BY <1>1, RingFlowProperties, RingProperties
      <4> QED
        BY <3>3, <4>1
    <3>5. main.returned = "none"
      BY <3>2 DEF Ring!IInv
    <3> QED
      BY <2>1, <3>1, <3>3, <3>4, <3>5 DEF RingWrites
  <2>3. CASE Ring!Read(t) /\ th'[t].pc # "error"
    BY <1>1, <2>1, <2>3, RingReadEffect DEF Ring!Read, RingSilent
  <2>4. CASE Ring!Wake(t) \/ Ring!TakeRead(t) \/ Ring!StopReading(t) \/ Ring!TakeWrite(t)
    BY <1>1, <2>1, <2>4, RingWakeEffect, RingTakeReadEffect, RingStopReadingEffect, RingTakeWriteEffect
       DEF RingSilent
  <2>5. CASE Ring!SetError(t) \/ Ring!StopNext(t) \/ Ring!WakeNext(t) \/ Ring!Finish(t)
    BY <1>1, <2>1, <2>5, RingSetErrorEffect, RingStopNextEffect, RingWakeNextEffect, RingFinishEffect DEF RingSilent
  <2>6. CASE \E r \in Ring!Faults \cup {coder.progress} : RingFailing(t, r)
    BY <2>1, <2>6 DEF RingFailing, RingSilent
  <2>7. CASE RingGoing(t)
    BY <2>1, <2>7 DEF RingGoing, RingSilent
  <2> QED
    BY <1>1, <1>2, <2>2, <2>3, <2>4, <2>5, <2>6, <2>7, RingOutcomes
<1>3. CASE Ring!MainStep
  <2>1. CASE Ring!Prepare
    <3>1. main.returned # "none"
      BY <2>1 DEF Ring!IInv, Ring!Prepare
    <3>2. io'.written = <<>> /\ main'.returned = "none"
      BY <1>1, <2>1, RingMainEffect DEF Ring!Prepare
    <3> QED
      BY <3>1, <3>2 DEF RingStarts
  <2>2. CASE Ring!PrepareFails
    <3>1. main.returned = "none" /\ SetupFaults /\ main'.returned = "mem" /\ io' = io
      BY <1>1, <2>2, RingMainEffect DEF Ring!IInv, Ring!PrepareFails
    <3> QED
      BY <3>1 DEF RingReturns
  <2>3. CASE Ring!Return
    <3>1. /\ main.pc = "close" /\ main.returned = "none" /\ io' = io
          /\ main'.returned = Ring!First(main.res, coder.res)
      BY <1>1, <2>3, RingMainEffect DEF Ring!IInv, Ring!Return
    <3>2. /\ main.res \in {"ok", "thread"} /\ (main.res = "thread" => SetupFaults)
          /\ coder.res \in Ring!Faults \cup {"ok"}
          /\ main.res = "ok" /\ coder.res = "ok" => Len(io.written) = NumBlocks
      BY <3>1 DEF Ring!IInv, Ring!TypeOK, Ring!MainType
    <3> QED
      BY <3>1, <3>2 DEF RingReturns, Ring!First
  <2>4. CASE ~Ring!Prepare /\ ~Ring!PrepareFails /\ ~Ring!Return
    <3>1. io' = io
      BY <1>1, <1>3, <2>4, RingMainThreads
    <3>2. main'.returned = main.returned
      BY <1>1, <1>3, <2>4, RingMainEffect, RingMainForkEffect DEF Ring!MainStep
    <3> QED
      BY <3>1, <3>2 DEF RingSilent
  <2> QED
    BY <2>1, <2>2, <2>3, <2>4
<1>4. CASE UNCHANGED Ring!vars
  BY <1>4 DEF Ring!vars, RingSilent
<1> QED
  BY <1>2, <1>3, <1>4 DEF Ring!Next

(* In every step the output grows by the next block of the input, and only *)
(* while MtCoder_Code runs; a call that says "ok" has written them all, and *)
(* a call that says something else says what happened.                     *)
THEOREM RingInOrder ==
  Ring!Spec => [][RingStarts \/ RingWrites \/ RingReturns]_<<io.written, main.returned>>
<1>1. Ring!IInv /\ [Ring!Next]_Ring!vars => [RingStarts \/ RingWrites \/ RingReturns]_<<io.written, main.returned>>
  BY RingStepInOrder DEF RingSilent
<1> QED
  BY <1>1, RingInvariant, PTL DEF Ring!Spec

-----------------------------------------------------------------------------
(* The invariant of the coder in use.                                      *)
CoderIInv ==
  /\ which \in {"enc", "dec", "ring"}
  /\ which = "enc" => Enc!IInv
  /\ which = "dec" => Dec!IInv
  /\ which = "ring" => Ring!IInv

(* A step is one of the coder in use.                                      *)
LEMMA CoderSteps ==
  ASSUME [Next]_vars
  PROVE  /\ which' = which
         /\ which = "enc" => [Enc!Next]_Enc!vars
         /\ which = "dec" => [Dec!Next]_Dec!vars
         /\ which = "ring" => [Ring!Next]_Ring!vars
<1>1. CASE UNCHANGED vars
  BY <1>1 DEF vars, Enc!vars, Dec!vars, Ring!vars
<1>2. CASE MainStep
  BY <1>2 DEF MainStep, Enc!Next, Dec!Next, Ring!Next
<1>3. ASSUME NEW t \in Threads, ThreadStep(t)
      PROVE  /\ which' = which
             /\ which = "enc" => Enc!Next
             /\ which = "dec" => Dec!Next
             /\ which = "ring" => Ring!Next
  <2>1. t \in Enc!Threads /\ t \in Dec!Threads /\ t \in Ring!Threads
    BY DEF Threads, Enc!Threads, Dec!Threads, Ring!Threads
  <2> QED
    BY <1>3, <2>1 DEF ThreadStep, Enc!Next, Dec!Next, Ring!Next
<1> QED
  BY <1>1, <1>2, <1>3 DEF Next

LEMMA CoderInit == Init => CoderIInv
<1>1. Enc!Init => Enc!IInv
  BY EncInitIInv, ConstantsAssumption, InputsAssumption
<1>2. Dec!Init => Dec!IInv
  BY DecInitIInv, ConstantsAssumption, InputsAssumption
<1>3. Ring!Init => Ring!IInv
  BY RingInitIInv, ConstantsAssumption, InputsAssumption
<1> QED
  BY <1>1, <1>2, <1>3 DEF Init, CoderIInv

LEMMA CoderStep == CoderIInv /\ [Next]_vars => CoderIInv'
<1> SUFFICES ASSUME CoderIInv, [Next]_vars PROVE CoderIInv'
  OBVIOUS
<1>1. Enc!IInv /\ [Enc!Next]_Enc!vars => Enc!IInv'
  BY EncStepIInv, ConstantsAssumption, InputsAssumption
<1>2. Dec!IInv /\ [Dec!Next]_Dec!vars => Dec!IInv'
  BY DecStepIInv, ConstantsAssumption, InputsAssumption
<1>3. Ring!IInv /\ [Ring!Next]_Ring!vars => Ring!IInv'
  BY RingStepIInv, ConstantsAssumption, InputsAssumption
<1> QED
  BY <1>1, <1>2, <1>3, CoderSteps DEF CoderIInv

LEMMA CoderInvariant == FairSpec => []CoderIInv
BY CoderInit, CoderStep, PTL DEF FairSpec

(* Between two calls of Code the threads of all three coders are at rest,  *)
(* the BZip2 coders have one turn to write at most, and the invariant of   *)
(* each holds whichever is in use: in every state that TLC or a caller     *)
(* reaches.                                                                *)
THEOREM CodersAtRest == FairSpec => []ThreadsAtRest
<1>1. CoderIInv => ThreadsAtRest
  <2> SUFFICES ASSUME CoderIInv PROVE ThreadsAtRest
    OBVIOUS
  <2>1. which = "enc" => Enc!TypeOK /\ Enc!OneTurn /\ Enc!ThreadsAtRest /\ Enc!IInv
    <3>1. Enc!IInv => Enc!ThreadsAtRest
      BY EncRestOfIInv, ConstantsAssumption, InputsAssumption
    <3>2. Enc!IInv => Enc!TypeOK /\ Enc!OneTurn
      BY DEF Enc!IInv
    <3> QED
      BY <3>1, <3>2 DEF CoderIInv
  <2>2. which = "dec" => Dec!TypeOK /\ Dec!OneTurn /\ Dec!ThreadsAtRest /\ Dec!IInv
    <3>1. Dec!IInv => Dec!ThreadsAtRest
      BY DecRestOfIInv, ConstantsAssumption, InputsAssumption
    <3>2. Dec!IInv => Dec!TypeOK /\ Dec!OneTurn
      BY DEF Dec!IInv
    <3> QED
      BY <3>1, <3>2 DEF CoderIInv
  <2>3. which = "ring" => Ring!TypeOK /\ Ring!ThreadsAtRest /\ Ring!IInv
    <3>1. Ring!IInv => Ring!ThreadsAtRest
      BY RingRestOfIInv, ConstantsAssumption, InputsAssumption
    <3>2. Ring!IInv => Ring!TypeOK
      BY DEF Ring!IInv
    <3> QED
      BY <3>1, <3>2 DEF CoderIInv
  <2> QED
    BY <2>1, <2>2, <2>3 DEF ThreadsAtRest, TypeOK, OneTurn
<1> QED
  BY <1>1, CoderInvariant, PTL

(* The threads of the BZip2 decoder write the good blocks in order up to   *)
(* the first bad one, and DecodeFile says of the stream what one thread    *)
(* that reads it from the start would say.                                 *)
THEOREM DecoderLikeOneThread == FairSpec => []DecodesLikeOneThread
<1>1. CoderIInv => DecodesLikeOneThread
  <2>1. Dec!IInv => Dec!LikeOneThread
    BY DEF Dec!IInv
  <2> QED
    BY <2>1 DEF CoderIInv, DecodesLikeOneThread
<1> QED
  BY <1>1, CoderInvariant, PTL

-----------------------------------------------------------------------------
(* The order of the blocks.                                                *)
Output == IF which = "dec" THEN <<>> ELSE io.written
Result == IF which = "dec" THEN "ok" ELSE main.returned

LEMMA CoderInOrder ==
  CoderIInv /\ [Next]_vars =>
    [Ordered!Start \/ Ordered!Write \/ Ordered!Return]_<<Output, Result>>
<1> SUFFICES ASSUME CoderIInv, [Next]_vars
             PROVE  [Ordered!Start \/ Ordered!Write \/ Ordered!Return]_<<Output, Result>>
  OBVIOUS
<1> USE DEF Output, Result
<1>1. which' = which /\ which \in {"enc", "dec", "ring"}
  BY CoderSteps DEF CoderIInv
<1>2. CASE which = "dec"
  BY <1>1, <1>2
<1>3. CASE which = "enc"
  <2>1. EncStarts \/ EncWrites \/ EncReturns \/ EncSilent
    <3>1. Enc!IInv /\ [Enc!Next]_Enc!vars
      BY <1>3, CoderSteps DEF CoderIInv
    <3> QED
      BY <3>1, EncStepInOrder, ConstantsAssumption, InputsAssumption
  <2>2. Output = io.written /\ Output' = io'.written /\ Result = main.returned /\ Result' = main'.returned
    BY <1>1, <1>3
  <2>3. Enc!Faults \subseteq Errors
    BY DEF Enc!Faults, Errors
  <2>4. CASE EncStarts
    BY <1>1, <1>3, <2>4 DEF EncStarts, Ordered!Start
  <2>5. CASE EncWrites
    BY <1>1, <1>3, <2>5 DEF EncWrites, Ordered!Write
  <2>6. CASE EncReturns
    BY <1>1, <1>3, <2>3, <2>6 DEF EncReturns, Ordered!Return
  <2>7. CASE EncSilent
    BY <2>2, <2>7 DEF EncSilent
  <2> QED
    BY <2>1, <2>4, <2>5, <2>6, <2>7
<1>4. CASE which = "ring"
  <2>1. RingStarts \/ RingWrites \/ RingReturns \/ RingSilent
    <3>1. Ring!IInv /\ [Ring!Next]_Ring!vars
      BY <1>4, CoderSteps DEF CoderIInv
    <3> QED
      BY <3>1, RingStepInOrder, ConstantsAssumption, InputsAssumption
  <2>2. Output = io.written /\ Output' = io'.written /\ Result = main.returned /\ Result' = main'.returned
    BY <1>1, <1>4
  <2>3. Ring!Faults \cup (IF SetupFaults THEN {"mem", "thread"} ELSE {}) \subseteq Errors
    BY DEF Ring!Faults, Errors
  <2>4. CASE RingStarts
    BY <1>1, <1>4, <2>4 DEF RingStarts, Ordered!Start
  <2>5. CASE RingWrites
    BY <1>1, <1>4, <2>5 DEF RingWrites, Ordered!Write
  <2>6. CASE RingReturns
    BY <1>1, <1>4, <2>3, <2>6 DEF RingReturns, Ordered!Return
  <2>7. CASE RingSilent
    BY <2>2, <2>7 DEF RingSilent
  <2> QED
    BY <2>1, <2>4, <2>5, <2>6, <2>7
<1> QED
  BY <1>1, <1>2, <1>3, <1>4

(* The BZip2 encoder and the ring of MtCoder.c implement OrderedBlocks:    *)
(* each of their steps is one of its steps, or leaves output and result as *)
(* they are.                                                               *)
THEOREM CodersKeepOrder == FairSpec => OrderedSpec
<1>1. Init => Ordered!Init
  <2>1. CASE which = "enc" /\ Enc!Init
    BY <2>1 DEF Enc!Init, Ordered!Init
  <2>2. CASE which = "dec" /\ Dec!Init
    BY <2>2 DEF Ordered!Init
  <2>3. CASE which = "ring" /\ Ring!Init
    BY <2>3 DEF Ring!Init, Ordered!Init
  <2> QED
    BY <2>1, <2>2, <2>3 DEF Init
<1>2. CoderIInv /\ [Next]_vars =>
        [Ordered!Start \/ Ordered!Write \/ Ordered!Return]_
          <<IF which = "dec" THEN <<>> ELSE io.written, IF which = "dec" THEN "ok" ELSE main.returned>>
  BY CoderInOrder DEF Output, Result
<1> QED
  BY <1>1, <1>2, CoderInvariant, PTL DEF FairSpec, OrderedSpec, Ordered!Spec
=============================================================================
