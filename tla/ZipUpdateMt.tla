----------------------------- MODULE ZipUpdateMt -----------------------------
(***************************************************************************)
(* The multithreaded Update2 of the ZIP handler.  The calling thread walks *)
(* the update items, hands files to encoder threads and writes the archive *)
(* in item order; each encoder writes to a COutMemStream, which collects   *)
(* blocks of a shared pool until its item is the next one of the archive   *)
(* and then goes on writing into the archive file itself.                  *)
(*                                                                         *)
(* Data is counted in chunks of one memory block.  Steps are cut where a   *)
(* thread blocks, and where another thread can see a half-done operation   *)
(* on the events, the pool, the mixer lock or the archive file.            *)
(***************************************************************************)
EXTENDS Integers, Sequences, FiniteSets, SequencesExt

CONSTANTS
  N,             \* number of update items
  Kind,          \* what each item is: "new" file, new "dir", or "old" data
  NumThreads,
  NumBlocks,     \* memory blocks, and the initial count of the semaphore
  MaxChunks,     \* bound: the most blocks one pass of an encoder writes
  NumMethods,    \* length of MethodSequence: passes an encoder may make
  MaySkip,       \* GetStream may answer S_FALSE
  MutexKinds,    \* CriticalSection_Init: "normal", or "errorcheck" (DEBUG_SYNCHRO)
  EncoderFaults, \* reading, encoding or a callback may fail
  FileFaults     \* writing to the archive file may fail

Items   == 1..N
Threads == 1..NumThreads
Blocks  == 1..NumBlocks

ASSUME ConstantsAssumption ==
  /\ N \in Nat /\ NumThreads \in Nat \ {0} /\ NumBlocks \in Nat \ {0}
  /\ MaxChunks \in Nat /\ NumMethods \in Nat \ {0}
  /\ Kind \in [Items -> {"new", "dir", "old"}]
  /\ NumThreads <= Cardinality({i \in Items : Kind[i] # "old"})
  /\ MutexKinds \in (SUBSET {"normal", "errorcheck"}) \ {{}}
  /\ {MaySkip, EncoderFaults, FileFaults} \subseteq BOOLEAN

VARIABLES
  main,  \* locals of Update2: pc, mtItemIndex, itemIndex, lastReal, threadIndices,
         \*   thread (threadInfo), list and next (blocks being freed, and where to
         \*   go on), result, joining (the thread ~CThreads has come to)
  th,    \* CThreadInfo and its COutMemStream, per thread
  refs,  \* refs.Refs: Skip, Defined, Blocks, TotalSize, PackSize per item
  pool,  \* memManager: free blocks and Semaphore
  mem,   \* contents of each block
  arc    \* the archive: data its stream took per item, file position, finished items,
         \*   lost (the first item whose failed write nobody looked at)

vars == <<main, th, refs, pool, mem, arc>>

None == 0

Erased == <<>>

IdleThread ==
  [pc |-> "wait", compressEvent |-> FALSE, completedEvent |-> FALSE, exitThread |-> FALSE,
   stopEvent |-> FALSE, realEvent |-> FALSE, realMode |-> FALSE, unlockSent |-> FALSE,
   isFree |-> TRUE, item |-> None, blocks |-> <<>>, total |-> 0,
   pass |-> 0, made |-> 0, region |-> None, result |-> "ok"]

Init ==
  /\ main = [pc |-> "top", mtItemIndex |-> 1, itemIndex |-> 1, lastReal |-> None,
             threadIndices |-> <<>>, thread |-> None, list |-> {}, next |-> "top",
             result |-> "ok", joining |-> 1]
  /\ th = [t \in Threads |-> IdleThread]
  /\ refs = [i \in Items |-> [skip |-> FALSE, defined |-> FALSE, blocks |-> <<>>,
                              total |-> 0, packSize |-> 0]]
  /\ pool = [free |-> Blocks, sem |-> NumBlocks]
  /\ mem = [b \in Blocks |-> Erased]
  /\ arc = [data |-> [i \in Items |-> <<>>], pos |-> None, order |-> <<>>,
            packSize |-> [i \in Items |-> 0], lost |-> None]

-----------------------------------------------------------------------------
(* CMemBlockManagerMt and the archive file.                                *)

Released(n) == IF pool.sem + n > NumBlocks THEN pool.sem ELSE pool.sem + n

Contents(blocks, n) == [k \in 1..n |-> mem[blocks[k]]]

(* Writing goes to the position the file has, whoever is writing; a failed *)
(* write leaves some prefix behind.                                        *)
Append2File(chunks) ==
  arc' = IF arc.pos = None THEN arc ELSE [arc EXCEPT !.data[arc.pos] = @ \o chunks]

AppendPrefix(chunks) ==
  \E n \in 0..(Len(chunks) - 1) : Append2File(SubSeq(chunks, 1, n))

-----------------------------------------------------------------------------
(* An encoder thread: CThreadInfo::WaitAndCode, CAddCommon::Compress and   *)
(* COutMemStream.                                                          *)

Goto(t, pc) == th' = [th EXCEPT ![t].pc = pc]

ThreadWake(t) ==
  /\ th[t].pc = "wait" /\ th[t].compressEvent
  /\ th' = [th EXCEPT ![t].compressEvent = FALSE,
                      ![t].pc = IF th[t].exitThread THEN "exited" ELSE "rewind",
                      ![t].pass = 1]
  /\ UNCHANGED <<main, refs, pool, mem, arc>>

Rewind_KeepSize(t) ==
  /\ th[t].pc = "rewind"
  /\ th' = [th EXCEPT ![t].pc = "encode", ![t].made = 0]
  /\ arc' = IF th[t].realMode THEN [arc EXCEPT !.pos = th[t].region] ELSE arc
  /\ UNCHANGED <<main, refs, pool, mem>>

(* Each pass starts with SetSize(0) and Seek(0) on the output stream.      *)
Rewind(t) ==
  /\ th[t].pc = "rewind"
  /\ th' = [th EXCEPT ![t].pc = "encode", ![t].made = 0,
                      ![t].total = IF th[t].realMode THEN @ ELSE 0]
  /\ arc' = IF th[t].realMode
            THEN [arc EXCEPT !.data[th[t].region] = <<>>, !.pos = th[t].region]
            ELSE arc
  /\ UNCHANGED <<main, refs, pool, mem>>

Chunk(t) == <<th[t].item, th[t].pass, th[t].made + 1>>

Encoding(t) == th[t].pc = "encode" /\ th[t].made < MaxChunks

(* Write into a block the stream already has.                              *)
Fill(t) ==
  LET k == th[t].made + 1 IN
  /\ th[t].pc = "fill" \/ Encoding(t)
  /\ ~th[t].realMode /\ k <= Len(th[t].blocks)
  /\ mem' = [mem EXCEPT ![th[t].blocks[k]] = Chunk(t)]
  /\ th' = [th EXCEPT ![t].made = k, ![t].total = IF k > @ THEN k ELSE @,
                      ![t].pc = "encode"]
  /\ UNCHANGED <<main, refs, pool, arc>>

NeedBlock(t) ==
  /\ Encoding(t) /\ ~th[t].realMode /\ th[t].made = Len(th[t].blocks)
  /\ Goto(t, "block")
  /\ UNCHANGED <<main, refs, pool, mem, arc>>

(* WaitForMultipleObjects on {StopWritingEvent, WriteToRealStreamEvent,    *)
(* Semaphore}; the first signaled one is consumed.  An encoder whose Write *)
(* fails returns that error without writing again.                         *)
WaitBlock(t) ==
  /\ th[t].pc = "block"
  /\ \/ /\ th[t].stopEvent
        /\ th' = [th EXCEPT ![t].stopEvent = FALSE, ![t].result = "abort",
                            ![t].pc = "signal"]
        /\ UNCHANGED pool
     \/ /\ ~th[t].stopEvent /\ th[t].realEvent
        /\ th' = [th EXCEPT ![t].realEvent = FALSE, ![t].realMode = TRUE,
                            ![t].pc = "flush"]
        /\ UNCHANGED pool
     \/ /\ ~th[t].stopEvent /\ ~th[t].realEvent /\ pool.sem > 0
        /\ pool' = [pool EXCEPT !.sem = @ - 1]
        /\ Goto(t, "alloc")
  /\ UNCHANGED <<main, refs, mem, arc>>

(* AllocateBlock, behind the semaphore; a null block would be E_FAIL.      *)
AllocateBlock(t) ==
  /\ th[t].pc = "alloc"
  /\ IF pool.free = {}
     THEN th' = [th EXCEPT ![t].result = "fail", ![t].pc = "signal"] /\ UNCHANGED pool
     ELSE LET b == CHOOSE x \in pool.free : \A y \in pool.free : x <= y IN
          /\ pool' = [pool EXCEPT !.free = @ \ {b}]
          /\ th' = [th EXCEPT ![t].blocks = Append(@, b), ![t].pc = "fill"]
  /\ UNCHANGED <<main, refs, mem, arc>>

(* WriteToRealStream from inside Write: the collected blocks go out, are   *)
(* given back one by one, and the pending chunk follows.                   *)
Flush(t) ==
  LET chunks == Contents(th[t].blocks, th[t].total) IN
  /\ th[t].pc = "flush"
  /\ \/ Append2File(chunks) /\ Goto(t, "free")
     \/ /\ FileFaults /\ AppendPrefix(chunks)
        /\ th' = [th EXCEPT ![t].result = "fail", ![t].pc = "signal"]
  /\ UNCHANGED <<main, refs, pool, mem>>

FreeBlock(t) ==
  /\ th[t].pc = "free" /\ th[t].blocks # <<>>
  /\ pool' = [pool EXCEPT !.free = @ \cup {Last(th[t].blocks)}]
  /\ mem' = [mem EXCEPT ![Last(th[t].blocks)] = Erased]
  /\ th' = [th EXCEPT ![t].blocks = Front(@), ![t].pc = "release"]
  /\ UNCHANGED <<main, refs, arc>>

ReleaseBlock(t) ==
  /\ th[t].pc = "release"
  /\ pool' = [pool EXCEPT !.sem = Released(1)]
  /\ Goto(t, "free")
  /\ UNCHANGED <<main, refs, mem, arc>>

FreeDone(t) ==
  /\ th[t].pc = "free" /\ th[t].blocks = <<>>
  /\ th' = [th EXCEPT ![t].total = 0, ![t].pc = "direct"]
  /\ UNCHANGED <<main, refs, pool, mem, arc>>

(* OutSeqStream->Write: straight into the archive file.                    *)
DirectWrite(t) ==
  /\ th[t].pc = "direct" \/ (Encoding(t) /\ th[t].realMode)
  /\ \/ /\ Append2File(<<Chunk(t)>>)
        /\ th' = [th EXCEPT ![t].made = @ + 1, ![t].pc = "encode"]
     \/ /\ FileFaults /\ UNCHANGED arc
        /\ th' = [th EXCEPT ![t].result = "fail", ![t].pc = "signal"]
  /\ UNCHANGED <<main, refs, pool, mem>>

(* A pass ends: with the next method of the sequence if the result was not *)
(* small enough, else with the final report to the progress mixer, whose   *)
(* lock the calling thread may hold.                                       *)
EndPass(t) ==
  /\ th[t].pc = "encode"
  /\ \/ /\ th[t].pass < NumMethods
        /\ th' = [th EXCEPT ![t].pass = @ + 1, ![t].pc = "rewind"]
     \/ th' = [th EXCEPT ![t].pc = "report"]
     \/ EncoderFaults /\ th' = [th EXCEPT ![t].result = "fail", ![t].pc = "signal"]
  /\ UNCHANGED <<main, refs, pool, mem, arc>>

MixerIsLocked == main.pc \in {"getstream", "skip", "stuck"}

Report(t) ==
  /\ th[t].pc = "report" /\ ~MixerIsLocked
  /\ \E r \in IF EncoderFaults THEN {"ok", "abort"} ELSE {"ok"} :
       th' = [th EXCEPT ![t].result = r, ![t].pc = "signal"]
  /\ UNCHANGED <<main, refs, pool, mem, arc>>

SignalCompletion(t) ==
  /\ th[t].pc = "signal"
  /\ th' = [th EXCEPT ![t].completedEvent = TRUE, ![t].pc = "wait"]
  /\ UNCHANGED <<main, refs, pool, mem, arc>>

ThreadStep(t) ==
  \/ ThreadWake(t) \/ Rewind(t) \/ Fill(t) \/ NeedBlock(t) \/ WaitBlock(t)
  \/ AllocateBlock(t) \/ Flush(t) \/ FreeBlock(t) \/ ReleaseBlock(t) \/ FreeDone(t)
  \/ DirectWrite(t) \/ EndPass(t) \/ Report(t) \/ SignalCompletion(t)

-----------------------------------------------------------------------------
(* The calling thread: Update2.                                            *)

Stop(result) == main' = [main EXCEPT !.pc = "stop", !.result = result]

AtTop == main.pc = "top" /\ main.itemIndex <= N

CanDispatch == Len(main.threadIndices) < NumThreads /\ main.mtItemIndex <= N

(* mtItemIndex passes over what needs no encoder.                          *)
PassOver ==
  /\ AtTop /\ CanDispatch /\ Kind[main.mtItemIndex] # "new"
  /\ main' = [main EXCEPT !.mtItemIndex = @ + 1]
  /\ UNCHANGED <<th, refs, pool, mem, arc>>

LockMixer ==
  /\ AtTop /\ CanDispatch /\ Kind[main.mtItemIndex] = "new"
  /\ main' = [main EXCEPT !.mtItemIndex = @ + 1, !.pc = "getstream"]
  /\ UNCHANGED <<th, refs, pool, mem, arc>>

FirstFree == CHOOSE k \in Threads : th[k].isFree /\ \A j \in 1..(k - 1) : ~th[j].isFree

Dispatch_StaleRealEvent(i) ==
  LET k == FirstFree IN
  /\ th' = [th EXCEPT ![k] = [IdleThread EXCEPT
              !.isFree = FALSE, !.compressEvent = TRUE, !.item = i, !.pc = th[k].pc,
              !.realEvent = th[k].realEvent]]
  /\ UNCHANGED pool
  /\ main' = [main EXCEPT !.threadIndices = Append(@, k), !.pc = "top"]

(* OutStreamSpec->Init, CompressEvent.Set and the lists of running threads. *)
Dispatch(i) ==
  LET k == FirstFree IN
  /\ th' = [th EXCEPT ![k] = [@ EXCEPT
              !.isFree = FALSE, !.realEvent = FALSE, !.unlockSent = FALSE,
              !.realMode = FALSE, !.blocks = <<>>, !.total = 0, !.made = 0,
              !.region = None, !.compressEvent = TRUE, !.item = i]]
  /\ pool' = [free |-> pool.free \cup Range(th[k].blocks),
              sem |-> Released(Len(th[k].blocks))]
  /\ main' = [main EXCEPT !.threadIndices = Append(@, k), !.pc = "top"]

(* GetStream under the mixer's lock: a stream, S_FALSE or an error.        *)
GetStream ==
  /\ main.pc = "getstream"
  /\ \/ Dispatch(main.mtItemIndex - 1)
     \/ MaySkip /\ main' = [main EXCEPT !.pc = "skip"] /\ UNCHANGED <<th, pool>>
     \/ EncoderFaults /\ Stop("fail") /\ UNCHANGED <<th, pool>>
  /\ UNCHANGED <<refs, mem, arc>>

(* S_FALSE: SetProgressOffset enters the critical section that this thread *)
(* is already in.  A normal pthread mutex never lets it through, one that  *)
(* checks for errors only says so.                                         *)
SkipFile ==
  /\ main.pc = "skip" /\ "errorcheck" \in MutexKinds
  /\ \/ /\ refs' = [refs EXCEPT ![main.mtItemIndex - 1].skip = TRUE]
        /\ main' = [main EXCEPT !.pc = "top"]
     \/ EncoderFaults /\ Stop("abort") /\ UNCHANGED refs
  /\ UNCHANGED <<th, pool, mem, arc>>

StickAtFile ==
  /\ main.pc = "skip" /\ "normal" \in MutexKinds
  /\ main' = [main EXCEPT !.pc = "stuck"]
  /\ UNCHANGED <<th, refs, pool, mem, arc>>

AtItem == AtTop /\ ~CanDispatch

PassSkipped ==
  /\ AtItem /\ refs[main.itemIndex].skip
  /\ main' = [main EXCEPT !.itemIndex = @ + 1]
  /\ UNCHANGED <<th, refs, pool, mem, arc>>

(* WriteDirHeader or UpdateItemOldData; both move the file's position.     *)
WriteOldOrDir ==
  /\ AtItem /\ ~refs[main.itemIndex].skip /\ Kind[main.itemIndex] # "new"
  /\ \/ /\ arc' = [arc EXCEPT !.pos = None, !.order = Append(@, main.itemIndex)]
        /\ main' = [main EXCEPT !.itemIndex = @ + 1]
     \/ /\ EncoderFaults \/ FileFaults
        /\ arc' = [arc EXCEPT !.pos = None] /\ Stop("fail")
  /\ UNCHANGED <<th, refs, pool, mem>>

AtFile ==
  /\ AtItem /\ ~refs[main.itemIndex].skip /\ Kind[main.itemIndex] = "new"

(* An item that waits in memory: its data, whether or not writing it went  *)
(* well, then its header and the end of its blocks.  The stream is a       *)
(* CCacheOutStream: a write that fails in its MyWrite may leave the file's *)
(* position ahead of _phyPos with the cache kept, so that from then on     *)
(* bytes of this and of other items may lie at shifted places.             *)
WriteDetached ==
  LET i == main.itemIndex
      r == refs[i]
      chunks == Contents(r.blocks, r.total) IN
  /\ AtFile /\ r.defined
  /\ \E n \in IF FileFaults THEN 0..Len(chunks) ELSE {Len(chunks)} :
       arc' = [arc EXCEPT !.data[i] = SubSeq(chunks, 1, n), !.pos = None,
                          !.order = Append(@, i), !.packSize[i] = r.packSize,
                          !.lost = IF n < Len(chunks) /\ @ = None THEN i ELSE @]
  /\ main' = [main EXCEPT !.lastReal = i, !.itemIndex = i + 1, !.pc = "free",
                          !.list = Range(r.blocks), !.next = "top"]
  /\ refs' = [refs EXCEPT ![i].blocks = <<>>, ![i].total = 0]
  /\ UNCHANGED <<th, pool, mem>>

(* The header of a detached item throws: the item keeps its blocks.        *)
DetachedHeaderFails ==
  /\ AtFile /\ refs[main.itemIndex].defined /\ FileFaults
  /\ arc' = [arc EXCEPT !.pos = None] /\ Stop("fail")
  /\ UNCHANGED <<th, refs, pool, mem>>

GrantFront_NoEvent ==
  LET f == main.threadIndices[1] IN
  /\ AtFile /\ ~refs[main.itemIndex].defined /\ main.threadIndices # <<>>
  /\ th' = [th EXCEPT ![f].region = main.itemIndex, ![f].unlockSent = TRUE]
  /\ arc' = [arc EXCEPT !.pos = main.itemIndex]
  /\ main' = [main EXCEPT !.lastReal = main.itemIndex, !.pc = "await"]
  /\ UNCHANGED <<refs, pool, mem>>

(* The item is still being compressed, by the thread at the front: from    *)
(* now on it may write into the archive file itself.                       *)
GrantFront ==
  LET i == main.itemIndex
      f == main.threadIndices[1] IN
  /\ AtFile /\ ~refs[i].defined /\ main.threadIndices # <<>>
  /\ IF th[f].unlockSent
     THEN UNCHANGED <<th, arc>>
     ELSE /\ arc' = [arc EXCEPT !.pos = i]
          /\ th' = [th EXCEPT ![f].region = i, ![f].unlockSent = TRUE, ![f].realEvent = TRUE]
  /\ main' = [main EXCEPT !.lastReal = i, !.pc = "await"]
  /\ UNCHANGED <<refs, pool, mem>>

Completed(k) == th[main.threadIndices[k]].completedEvent

Detach_Leak(k) ==
  LET t == main.threadIndices[k]
      i == th[t].item IN
  /\ refs' = [refs EXCEPT ![i] = [@ EXCEPT !.defined = TRUE, !.total = th[t].total,
                !.blocks = SubSeq(th[t].blocks, 1, th[t].total), !.packSize = th[t].made]]
  /\ main' = [main EXCEPT !.threadIndices = RemoveAt(@, k), !.pc = "top"]
  /\ th' = [th EXCEPT ![t].completedEvent = FALSE, ![t].isFree = TRUE,
                      ![t].blocks = <<>>, ![t].total = 0]

(* DetachData: refs gets the blocks that hold data, the rest is freed.     *)
Detach(k) ==
  LET t == main.threadIndices[k]
      i == th[t].item
      keep == SubSeq(th[t].blocks, 1, th[t].total)
      rest == SubSeq(th[t].blocks, th[t].total + 1, Len(th[t].blocks)) IN
  /\ refs' = [refs EXCEPT ![i] = [@ EXCEPT !.defined = TRUE, !.blocks = keep,
                                           !.total = th[t].total, !.packSize = th[t].made]]
  /\ main' = [main EXCEPT !.threadIndices = RemoveAt(@, k), !.pc = "free",
                          !.list = Range(rest), !.next = "top"]
  /\ th' = [th EXCEPT ![t].completedEvent = FALSE, ![t].isFree = TRUE,
                      ![t].blocks = <<>>, ![t].total = 0]

(* WaitForMultipleObjects over the completion events, in the order of      *)
(* threadIndices.                                                          *)
AwaitCompletion ==
  /\ main.pc = "await"
  /\ \E k \in 1..Len(main.threadIndices) :
       LET t == main.threadIndices[k] IN
       /\ Completed(k) /\ \A j \in 1..(k - 1) : ~Completed(j)
       /\ \/ /\ th[t].result # "ok"
             /\ th' = [th EXCEPT ![t].completedEvent = FALSE, ![t].isFree = TRUE]
             /\ Stop(th[t].result) /\ UNCHANGED refs
          \/ /\ th[t].result = "ok" /\ k = 1
             /\ th' = [th EXCEPT ![t].completedEvent = FALSE, ![t].isFree = TRUE]
             /\ main' = [main EXCEPT !.threadIndices = Tail(@), !.thread = t, !.pc = "drain"]
             /\ UNCHANGED refs
          \/ th[t].result = "ok" /\ k > 1 /\ Detach(k)
  /\ UNCHANGED <<pool, mem, arc>>

(* Variant for a mutant: a failed write is not looked at here either.       *)
Drain_Unchecked ==
  LET t == main.thread
      chunks == Contents(th[t].blocks, th[t].total) IN
  /\ main.pc = "drain"
  /\ Append2File(chunks) \/ (FileFaults /\ AppendPrefix(chunks))
  /\ main' = [main EXCEPT !.pc = "free", !.next = "header", !.list = Range(th[t].blocks)]
  /\ th' = [th EXCEPT ![t].blocks = <<>>, ![t].total = 0]
  /\ UNCHANGED <<refs, pool, mem>>

(* What the front thread still holds in memory goes to the file.           *)
Drain ==
  LET t == main.thread
      chunks == Contents(th[t].blocks, th[t].total) IN
  /\ main.pc = "drain"
  /\ \/ /\ Append2File(chunks)
        /\ main' = [main EXCEPT !.pc = "free", !.next = "header",
                                !.list = Range(th[t].blocks)]
        /\ th' = [th EXCEPT ![t].blocks = <<>>, ![t].total = 0]
     \/ FileFaults /\ AppendPrefix(chunks) /\ Stop("fail") /\ UNCHANGED th
  /\ UNCHANGED <<refs, pool, mem>>

WriteHeader ==
  LET i == main.itemIndex IN
  /\ main.pc = "header"
  /\ \/ /\ arc' = [arc EXCEPT !.pos = None, !.order = Append(@, i),
                              !.packSize[i] = th[main.thread].made]
        /\ main' = [main EXCEPT !.itemIndex = i + 1, !.pc = "top"]
     \/ FileFaults /\ arc' = [arc EXCEPT !.pos = None] /\ Stop("fail")
  /\ UNCHANGED <<th, refs, pool, mem>>

(* CMemLockBlocks::FreeBlock, once per block: the pool, then the semaphore. *)
MainFreeBlock ==
  /\ main.pc = "free" /\ main.list # {}
  /\ \E b \in main.list :
       /\ pool' = [pool EXCEPT !.free = @ \cup {b}]
       /\ mem' = [mem EXCEPT ![b] = Erased]
       /\ main' = [main EXCEPT !.list = @ \ {b}, !.pc = "release"]
  /\ UNCHANGED <<th, refs, arc>>

MainReleaseBlock ==
  /\ main.pc = "release"
  /\ pool' = [pool EXCEPT !.sem = Released(1)]
  /\ main' = [main EXCEPT !.pc = "free"]
  /\ UNCHANGED <<th, refs, mem, arc>>

MainFreeDone ==
  /\ main.pc = "free" /\ main.list = {}
  /\ main' = [main EXCEPT !.pc = main.next]
  /\ UNCHANGED <<th, refs, pool, mem, arc>>

(* The last progress call may abort, WriteCentralDir may throw.            *)
WriteCentralDir ==
  /\ main.pc = "top" /\ main.itemIndex > N
  /\ \/ Stop("ok")
     \/ (EncoderFaults \/ FileFaults) /\ Stop("fail")
  /\ UNCHANGED <<th, refs, pool, mem, arc>>

(* ~CThreads: StopWaitClose on each thread in turn.                        *)
StopThread ==
  LET t == main.joining IN
  /\ main.pc = "stop" /\ t <= NumThreads
  /\ th' = [th EXCEPT ![t].exitThread = TRUE, ![t].stopEvent = TRUE, ![t].compressEvent = TRUE]
  /\ main' = [main EXCEPT !.pc = "join"]
  /\ UNCHANGED <<refs, pool, mem, arc>>

JoinThread ==
  /\ main.pc = "join" /\ th[main.joining].pc = "exited"
  /\ main' = [main EXCEPT !.pc = "stop", !.joining = @ + 1]
  /\ UNCHANGED <<th, refs, pool, mem, arc>>

(* ~COutMemStream and ~CMemRefs give every block back.                     *)
FreeAll ==
  /\ main.pc = "stop" /\ main.joining > NumThreads
  /\ main' = [main EXCEPT !.pc = "free", !.next = "done",
                !.list = UNION ({Range(th[t].blocks) : t \in Threads}
                                  \cup {Range(refs[i].blocks) : i \in Items})]
  /\ th' = [t \in Threads |-> [th[t] EXCEPT !.blocks = <<>>, !.total = 0]]
  /\ refs' = [i \in Items |-> [refs[i] EXCEPT !.blocks = <<>>, !.total = 0]]
  /\ UNCHANGED <<pool, mem, arc>>

MainStep ==
  \/ PassOver \/ LockMixer \/ GetStream \/ SkipFile \/ StickAtFile
  \/ PassSkipped \/ WriteOldOrDir
  \/ WriteDetached \/ DetachedHeaderFails \/ GrantFront \/ AwaitCompletion \/ Drain
  \/ WriteHeader \/ MainFreeBlock \/ MainReleaseBlock \/ MainFreeDone
  \/ WriteCentralDir \/ StopThread \/ JoinThread \/ FreeAll

Next == MainStep \/ \E t \in Threads : ThreadStep(t)

Spec == Init /\ [][Next]_vars

(* Every thread that can run goes on running.                              *)
FairSpec == Spec /\ WF_vars(MainStep) /\ \A t \in Threads : WF_vars(ThreadStep(t))

-----------------------------------------------------------------------------
(* Properties.                                                             *)

MainPcs == {"top", "getstream", "skip", "stuck", "await", "drain", "header", "free",
            "release", "stop", "join", "done"}
ThreadPcs == {"wait", "rewind", "encode", "fill", "block", "alloc", "flush",
              "free", "release", "direct", "report", "signal", "exited"}
Results == {"ok", "fail", "abort"}

Chunks == Items \X (1..NumMethods) \X (1..MaxChunks)
Stored == Chunks \cup {Erased}

MainType == [pc : MainPcs, mtItemIndex : 1..(N + 1), itemIndex : 1..(N + 1),
             lastReal : 0..N, threadIndices : Seq(Threads), thread : 0..NumThreads,
             list : SUBSET Blocks, next : {"top", "header", "done"},
             result : Results, joining : 1..(NumThreads + 1)]
ThreadType == [pc : ThreadPcs, compressEvent : BOOLEAN, completedEvent : BOOLEAN,
               exitThread : BOOLEAN, stopEvent : BOOLEAN, realEvent : BOOLEAN,
               realMode : BOOLEAN, unlockSent : BOOLEAN, isFree : BOOLEAN,
               item : 0..N, blocks : Seq(Blocks), total : 0..MaxChunks,
               pass : 0..NumMethods, made : 0..MaxChunks, region : 0..N,
               result : Results]
RefType == [skip : BOOLEAN, defined : BOOLEAN, blocks : Seq(Blocks),
            total : 0..MaxChunks, packSize : 0..MaxChunks]
PoolType == [free : SUBSET Blocks, sem : 0..NumBlocks]
ArcType == [data : [Items -> Seq(Stored)], pos : 0..N, order : Seq(Items),
            packSize : [Items -> 0..MaxChunks], lost : 0..N]

(* The variables have the types of the fields they stand for; indices stay *)
(* inside their vectors and the semaphore inside its maximum.              *)
TypeOK ==
  /\ main \in MainType /\ th \in [Threads -> ThreadType] /\ refs \in [Items -> RefType]
  /\ pool \in PoolType /\ mem \in [Blocks -> Stored] /\ arc \in ArcType

InFinalPhase ==
  \/ main.pc \in {"stop", "join", "done"}
  \/ (main.pc \in {"free", "release"} /\ main.next = "done")

(* threadIndices lists the running threads in item order, and when Update2 *)
(* waits, the first of them has the item the archive needs next: taking    *)
(* Front() of the list, and letting that thread at the file, is right.     *)
FrontIsNext ==
  LET ti == main.threadIndices IN
  ~InFinalPhase =>
    /\ \A j, k \in 1..Len(ti) : j < k => th[ti[j]].item < th[ti[k]].item
    /\ \A t \in Threads : (t \in Range(ti)) = ~th[t].isFree
    /\ (AtFile /\ ~refs[main.itemIndex].defined) \/ main.pc = "await" =>
         ti # <<>> /\ th[ti[1]].item = main.itemIndex

(* All the threads and Update2 share one file position.  A thread that     *)
(* writes to the file itself has the item being assembled, the file stands *)
(* inside that item's region, and nobody else moves it.                    *)
WriterOwnsFile ==
  \A t \in Threads : th[t].realMode /\ ~th[t].isFree =>
    /\ th[t].item = main.itemIndex /\ th[t].region = main.itemIndex
    /\ arc.pos = main.itemIndex /\ main.lastReal = main.itemIndex
    /\ \A u \in Threads \ {t} : ~(th[u].realMode /\ ~th[u].isFree)

(* Who has a block: the pool, the main thread while it gives blocks back,  *)
(* the stream of a thread, or the data of an item.                         *)
Owners == {<<0, 0>>, <<1, 0>>} \cup {<<2, t>> : t \in Threads} \cup {<<3, i>> : i \in Items}
BlocksOf(o) ==
  CASE o[1] = 0 -> pool.free
    [] o[1] = 1 -> main.list
    [] o[1] = 2 -> Range(th[o[2]].blocks)
    [] o[1] = 3 -> Range(refs[o[2]].blocks)

BlocksAreOwned ==
  /\ \A o, p \in Owners : o # p => BlocksOf(o) \cap BlocksOf(p) = {}
  /\ \A b \in Blocks : \E o \in Owners : b \in BlocksOf(o)
  /\ \A t \in Threads : IsInjective(th[t].blocks)
  /\ \A i \in Items : IsInjective(refs[i].blocks)

Promised == {t \in Threads : th[t].pc \in {"alloc", "release"}}

SemaphoreCounts ==
  Cardinality(pool.free) =
    pool.sem + Cardinality(Promised) + (IF main.pc = "release" THEN 1 ELSE 0)

(* Every block is in one place only; the semaphore counts the free blocks, *)
(* apart from those a thread was promised and has not taken yet and those  *)
(* given back whose Release is still to come; at the end all are free.     *)
PoolIsBalanced ==
  /\ BlocksAreOwned /\ SemaphoreCounts
  /\ main.pc = "done" => pool.sem = NumBlocks

Lost == arc.lost # None \/ (FileFaults /\ InFinalPhase /\ main.result # "ok")

Sequential == INSTANCE SequentialUpdate WITH
  archive <- [k \in 1..Len(arc.order) |->
                LET i == arc.order[k] IN
                [item |-> i, data |-> arc.data[i], size |-> arc.packSize[i]]],
  outcome <- IF InFinalPhase THEN main.result ELSE "none",
  lost <- Lost,
  Faults <- EncoderFaults \/ FileFaults, LostWrites <- FileFaults

(* The threads together produce what a sequential update would: whole      *)
(* items in order, none changed after its header, as long as no failed     *)
(* write went unnoticed.                                                   *)
SequentialSpec == Sequential!Spec

(* Written(i): the header of an item states the data that was written.     *)
(* What an encoder or Update2 itself writes for the item at the front is   *)
(* whole, or the update fails: only the write of an item that waited in    *)
(* memory can fail unnoticed.  Until then every finished item is whole.    *)
Written(i) == Len(arc.data[i]) = arc.packSize[i]
DataIsWhole ==
  IF arc.lost = None THEN \A i \in Range(arc.order) : Written(i)
                     ELSE arc.lost \in Range(arc.order) /\ refs[arc.lost].defined

(* Update2 returns and its destructors finish: no thread waits forever for *)
(* a block, an event or a lock, with or without an error - but for the     *)
(* lock that the main thread takes twice for a file it skips.              *)
Termination == <>(main.pc \in {"done", "stuck"})

-----------------------------------------------------------------------------
(* What makes the safety properties inductive.  The events of a thread follow its place,   *)
(* and Update2 joins the threads in their order;                           *)
Lifecycle(t) ==
  /\ th[t].isFree => th[t].pc \in {"wait", "exited"} /\ (th[t].compressEvent => th[t].exitThread)
  /\ ~InFinalPhase =>
       /\ ~th[t].exitThread /\ ~th[t].stopEvent /\ th[t].pc # "exited"
       /\ th[t].isFree => ~th[t].completedEvent
       /\ ~th[t].isFree => (th[t].pc = "wait" <=> th[t].compressEvent \/ th[t].completedEvent)
       /\ th[t].compressEvent => ~th[t].completedEvent
       /\ th[t].result # "ok" => EncoderFaults \/ FileFaults
  /\ t < main.joining => th[t].pc = "exited"

PhasesOfEnd ==
  /\ ~InFinalPhase => main.joining = 1
  /\ InFinalPhase /\ main.pc \notin {"stop", "join"} => main.joining = NumThreads + 1
  /\ main.pc = "join" => main.joining \in Threads
  /\ main.list # {} => main.pc \in {"free", "release"}
  /\ main.next = "done" =>
       /\ main.pc \in {"free", "release", "done"}
       /\ \A t \in Threads : th[t].blocks = <<>>
       /\ \A i \in Items : refs[i].blocks = <<>>

(* between an item's last data and its header no thread has the item,      *)
Finishing ==
  main.pc \in {"drain", "header"} \/ (main.pc \in {"free", "release"} /\ main.next = "header")
AtStream == main.pc \in {"getstream", "skip", "stuck"}

FirstItem == IF Finishing THEN main.itemIndex + 1 ELSE main.itemIndex
EndItem == IF AtStream THEN main.mtItemIndex - 1 ELSE main.mtItemIndex

(* every file from there on that was reached is skipped, waits in memory   *)
(* or has its own thread;                                                  *)
Running(t, i) == ~th[t].isFree /\ th[t].item = i

ItemsHaveThreads ==
  /\ \A t \in Threads : ~th[t].isFree => th[t].item \in Items
  /\ \A t, u \in Threads : ~th[t].isFree /\ Running(u, th[t].item) => t = u
  /\ ~InFinalPhase =>
       /\ main.itemIndex <= EndItem
       /\ \A t \in Threads : ~th[t].isFree =>
            /\ th[t].item \in FirstItem..(EndItem - 1) /\ Kind[th[t].item] = "new"
            /\ ~refs[th[t].item].skip /\ ~refs[th[t].item].defined
       /\ \A i \in FirstItem..(EndItem - 1) :
            Kind[i] = "new" => \/ refs[i].skip \/ refs[i].defined
                               \/ \E t \in Threads : Running(t, i)
       /\ \A i \in Items :
            /\ refs[i].skip \/ refs[i].defined => Kind[i] = "new" /\ i < EndItem
            /\ refs[i].skip => MaySkip /\ ~refs[i].defined

(* where Update2 stands fits the item and the list of threads;             *)
MainFits ==
  /\ AtStream =>
       /\ EndItem \in Items /\ Kind[EndItem] = "new" /\ main.itemIndex <= N
       /\ Len(main.threadIndices) < NumThreads
       /\ main.pc # "getstream" => MaySkip
  /\ main.pc = "await" =>
       /\ main.threadIndices # <<>> /\ main.itemIndex <= N
       /\ th[main.threadIndices[1]].item = main.itemIndex
       /\ th[main.threadIndices[1]].unlockSent
  /\ Finishing =>
       /\ main.itemIndex < main.mtItemIndex /\ Kind[main.itemIndex] = "new"
       /\ ~refs[main.itemIndex].skip /\ ~refs[main.itemIndex].defined
       /\ main.thread \in Threads /\ th[main.thread].isFree
       /\ th[main.thread].item = main.itemIndex
       /\ arc.pos = main.itemIndex /\ main.lastReal = main.itemIndex

(* the file stands in the item that was granted to its thread, or is       *)
(* being finished;                                                         *)
Granted(t) == ~th[t].isFree /\ th[t].unlockSent

FileIsGranted ==
  /\ \A t \in Threads : th[t].realEvent \/ th[t].realMode => th[t].unlockSent
  /\ \A t \in Threads : Granted(t) =>
       /\ th[t].item = main.itemIndex /\ th[t].region = main.itemIndex
       /\ arc.pos = main.itemIndex /\ main.lastReal = main.itemIndex
  /\ arc.pos # None =>
       /\ arc.pos = main.itemIndex
       /\ ~InFinalPhase => Finishing \/ \E t \in Threads : Granted(t)

ItemsInOrder ==
  /\ \A k \in 1..Len(arc.order) : arc.order[k] < main.itemIndex
  /\ \A j, k \in 1..Len(arc.order) : j < k => arc.order[j] < arc.order[k]
  /\ \A i \in 1..(main.itemIndex - 1) : ~refs[i].skip => i \in Range(arc.order)

(* a thread's data is in its blocks, in the file, or on the way between;   *)
PassData(i, m, n) == [k \in 1..n |-> <<i, m, k>>]
HoldPass(blocks, i, m, n) ==
  n <= Len(blocks) /\ \A k \in 1..n : mem[blocks[k]] = <<i, m, k>>

InMemory(t) ==
  /\ th[t].made = th[t].total /\ th[t].total <= Len(th[t].blocks)
  /\ th[t].pc # "rewind" => HoldPass(th[t].blocks, th[t].item, th[t].pass, th[t].total)
  /\ arc.data[th[t].item] = <<>>
InFile(t) == arc.data[th[t].item] = PassData(th[t].item, th[t].pass, th[t].made)
Emptied(t) == th[t].blocks = <<>> /\ th[t].total = 0

StreamFits(t) ==
  LET pc == th[t].pc IN
  /\ pc \in {"fill", "block", "alloc"} => ~th[t].realMode
  /\ pc \in {"flush", "free", "release", "direct"} => th[t].realMode
  /\ pc \in {"fill", "block", "alloc", "flush", "free", "release", "direct"} =>
       th[t].made < MaxChunks
  /\ pc = "fill" => th[t].made < Len(th[t].blocks)
  /\ pc \in {"block", "alloc"} => th[t].made = Len(th[t].blocks)
  /\ th[t].pass = 0 => pc = "wait" /\ th[t].compressEvent
  /\ ~th[t].realMode \/ pc = "flush" => InMemory(t)
  /\ th[t].realMode /\ pc \in {"rewind", "direct", "encode", "report"} => Emptied(t)
  /\ th[t].realMode /\ pc \in {"free", "release", "direct", "encode", "report"} => InFile(t)
  /\ th[t].realMode /\ pc \in {"signal", "wait"} /\ th[t].result = "ok" =>
       Emptied(t) /\ InFile(t)
  /\ th[t].compressEvent /\ ~th[t].exitThread => pc = "wait" /\ ~th[t].realMode

Drained(t) == main.pc = "drain" /\ t = main.thread

StreamsFit ==
  /\ \A t \in Threads :
       (~th[t].isFree \/ Drained(t)) /\ th[t].pc # "exited" => StreamFits(t)
  /\ ~InFinalPhase => \A t \in Threads :
       th[t].isFree /\ ~Drained(t) => th[t].blocks = <<>>
  /\ main.pc = "drain" => th[main.thread].result = "ok"
  /\ Finishing /\ main.pc # "drain" => InFile(main.thread) /\ th[main.thread].pass # 0

(* the data of an item that waits is whole, other items have no blocks,    *)
(* and nothing is in the file of items that are still to come.             *)
ItemsFit ==
  /\ \A i \in Items : ~refs[i].defined => refs[i].blocks = <<>>
  /\ ~InFinalPhase => \A i \in main.itemIndex..N : refs[i].defined =>
       /\ refs[i].packSize = refs[i].total
       /\ \E m \in 1..NumMethods : HoldPass(refs[i].blocks, i, m, refs[i].total)
  /\ \A i \in main.itemIndex..N :
       /\ arc.packSize[i] = 0
       /\ i > main.itemIndex \/ (arc.pos = None /\ ~InFinalPhase) => arc.data[i] = <<>>

(* Together: the invariant that every step of Update2 and of its threads   *)
(* keeps.                                                                  *)
IInv ==
  /\ TypeOK /\ FrontIsNext /\ WriterOwnsFile /\ PoolIsBalanced
  /\ (\A t \in Threads : Lifecycle(t)) /\ PhasesOfEnd
  /\ ItemsHaveThreads /\ MainFits /\ FileIsGranted /\ ItemsInOrder
  /\ StreamsFit /\ ItemsFit /\ DataIsWhole

(* The archive has one writer at a time.  IInv, which says why, is checked *)
(* and proved with it.                                                     *)
OneWriterOfArchive == IInv /\ WriterOwnsFile
=============================================================================
