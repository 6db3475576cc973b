------------------------------- MODULE MtCoder -------------------------------
(***************************************************************************)
(* The ring of threads of C/MtCoder.c.  Each thread reads a block, codes   *)
(* it and writes it; the right to read and the right to write go round the *)
(* ring as auto-reset events, and the end of the input or an error goes    *)
(* round as the flags stopReading and stopWriting.  The last block of the  *)
(* input is a short one, maybe empty.                                      *)
(***************************************************************************)
EXTENDS BlockCoderParams

VARIABLES
  main,  \* MtCoder_Code: pc, loop index, rounds, own error, what it returned
  th,    \* CMtThread and its CLoopThread
  mt,    \* CMtCoder: res, and mtProgress.res
  io     \* blocks read, block numbers written

vars == <<main, th, mt, io>>

NoThread ==
  [pc |-> "none", startEvent |-> FALSE, finishedEvent |-> FALSE, stopLoop |-> FALSE,
   canRead |-> FALSE, canWrite |-> FALSE, stopReading |-> FALSE, stopWriting |-> FALSE,
   block |-> 0, stop |-> FALSE, res |-> "ok"]

Init ==
  /\ main = [pc |-> "idle", i |-> 0, round |-> 0, res |-> "ok", returned |-> "ok"]
  /\ th = [t \in Threads |-> NoThread]
  /\ mt = [res |-> "ok", progress |-> "ok"]
  /\ io = [read |-> 0, written |-> <<>>]

NextThread(t) == IF t = NumThreads - 1 THEN 0 ELSE t + 1

First(res, new) == IF res = "ok" THEN new ELSE res

-----------------------------------------------------------------------------
(* LoopThreadFunc, ThreadFunc and MtThread_Process.                        *)

Goto(t, pc) == th' = [th EXCEPT ![t].pc = pc]

Fail(t, res) == th' = [th EXCEPT ![t].pc = "error", ![t].res = res]

Wake(t) ==
  /\ th[t].pc = "loop" /\ th[t].startEvent
  /\ th' = [th EXCEPT ![t].startEvent = FALSE,
                      ![t].pc = IF th[t].stopLoop THEN "exited" ELSE "canRead"]
  /\ UNCHANGED <<main, mt, io>>

TakeRead(t) ==
  /\ th[t].pc = "canRead" /\ th[t].canRead /\ ~th[t].stopReading
  /\ th' = [th EXCEPT ![t].canRead = FALSE, ![t].pc = "read"]
  /\ UNCHANGED <<main, mt, io>>

(* A thread told to stop tells the next one (which, in a ring of one, is   *)
(* the thread itself: hence the nested EXCEPTs here and below).            *)
StopReading(t) ==
  LET n == NextThread(t) IN
  /\ th[t].pc = "canRead" /\ th[t].canRead /\ th[t].stopReading
  /\ th' = [[th EXCEPT ![t].canRead = FALSE, ![t].pc = "finished"]
              EXCEPT ![n].stopReading = TRUE, ![n].canRead = TRUE]
  /\ UNCHANGED <<main, mt, io>>

(* FullRead, and the right to read for the next thread.                    *)
Read(t) ==
  LET n == NextThread(t)
      last == io.read + 1 = NumBlocks IN
  /\ th[t].pc = "read"
  /\ \/ /\ io' = [io EXCEPT !.read = @ + 1]
        /\ th' = [[th EXCEPT ![t].pc = "code", ![t].block = io.read + 1, ![t].stop = last]
                    EXCEPT ![n].stopReading = last, ![n].canRead = TRUE]
     \/ ReadFaults /\ Fail(t, "read") /\ UNCHANGED io
  /\ UNCHANGED <<main, mt>>

(* mtCallback->Code, which may find in mtProgress that it has to stop.     *)
Code(t) ==
  /\ th[t].pc = "code"
  /\ \/ Goto(t, "canWrite") /\ UNCHANGED mt
     \/ CodeFaults /\ Fail(t, "code") /\ UNCHANGED mt
     \/ AbortFaults /\ mt' = [mt EXCEPT !.progress = First(@, "abort")]
          /\ Fail(t, First(mt.progress, "abort"))
     \/ mt.progress # "ok" /\ Fail(t, mt.progress) /\ UNCHANGED mt
  /\ UNCHANGED <<main, io>>

TakeWrite(t) ==
  /\ th[t].pc = "canWrite" /\ th[t].canWrite
  /\ th' = [th EXCEPT ![t].canWrite = FALSE,
                      ![t].pc = IF th[t].stopWriting THEN "error" ELSE "write",
                      ![t].res = IF th[t].stopWriting THEN "fail" ELSE @]
  /\ UNCHANGED <<main, mt, io>>

Write(t) ==
  LET n == NextThread(t) IN
  /\ th[t].pc = "write"
  /\ \/ /\ io' = [io EXCEPT !.written = Append(@, th[t].block)]
        /\ th' = [[th EXCEPT ![t].pc = IF th[t].stop THEN "finished" ELSE "canRead"]
                    EXCEPT ![n].canWrite = TRUE]
     \/ WriteFaults /\ Fail(t, "write") /\ UNCHANGED io
  /\ UNCHANGED <<main, mt>>

SetError_Last(t) ==
  /\ th[t].pc = "error"
  /\ mt' = [mt EXCEPT !.res = th[t].res]
  /\ Goto(t, "stopNext")
  /\ UNCHANGED <<main, io>>

(* MtCoder_SetError: the first error is the one that counts.               *)
SetError(t) ==
  /\ th[t].pc = "error"
  /\ mt' = [mt EXCEPT !.res = First(@, th[t].res)]
  /\ Goto(t, "stopNext")
  /\ UNCHANGED <<main, io>>

(* MtProgress_SetError, then both flags of the next thread: it may see them *)
(* before the events are set, as it may hold an earlier right to write.    *)
StopNext(t) ==
  LET n == NextThread(t) IN
  /\ th[t].pc = "stopNext"
  /\ mt' = [mt EXCEPT !.progress = First(@, th[t].res)]
  /\ th' = [[th EXCEPT ![t].pc = "wakeNext"]
              EXCEPT ![n].stopReading = TRUE, ![n].stopWriting = TRUE]
  /\ UNCHANGED <<main, io>>

WakeNext(t) ==
  LET n == NextThread(t) IN
  /\ th[t].pc = "wakeNext"
  /\ th' = [[th EXCEPT ![t].pc = "finished"]
              EXCEPT ![n].canRead = TRUE, ![n].canWrite = TRUE]
  /\ UNCHANGED <<main, mt, io>>

Finish(t) ==
  /\ th[t].pc = "finished"
  /\ th' = [th EXCEPT ![t].finishedEvent = TRUE, ![t].pc = "loop"]
  /\ UNCHANGED <<main, mt, io>>

ThreadStep(t) ==
  \/ Wake(t) \/ TakeRead(t) \/ StopReading(t) \/ Read(t) \/ Code(t) \/ TakeWrite(t)
  \/ Write(t) \/ SetError(t) \/ StopNext(t) \/ WakeNext(t)
  \/ Finish(t)

-----------------------------------------------------------------------------
(* MtCoder_Code and MtCoder_Destruct, on the calling thread.               *)

(* CMtThread_Prepare makes new events and clears the flags of all threads. *)
Prepare ==
  /\ main.pc = "idle" /\ main.round < MaxRounds
  /\ th' = [t \in Threads |-> [th[t] EXCEPT !.canRead = FALSE, !.canWrite = FALSE,
                                            !.stopReading = FALSE, !.stopWriting = FALSE]]
  /\ mt' = [res |-> "ok", progress |-> "ok"]
  /\ io' = [read |-> 0, written |-> <<>>]
  /\ main' = [main EXCEPT !.pc = "create", !.i = 0, !.round = @ + 1, !.res = "ok",
                          !.returned = "none"]

PrepareFails ==
  /\ main.pc = "create" /\ main.i = 0 /\ SetupFaults
  /\ main' = [main EXCEPT !.pc = "idle", !.returned = "mem"]
  /\ UNCHANGED <<th, mt, io>>

CreateThread ==
  /\ main.pc = "create" /\ main.i \in Threads
  /\ \/ /\ th' = [th EXCEPT ![main.i].pc = IF @ = "none" THEN "loop" ELSE @]
        /\ main' = [main EXCEPT !.i = @ + 1]
     \/ /\ SetupFaults /\ th[main.i].pc = "none"
        /\ main' = [main EXCEPT !.pc = "close", !.res = "thread"]
        /\ UNCHANGED th
  /\ UNCHANGED <<mt, io>>

AllCreated ==
  /\ main.pc = "create" /\ main.i = NumThreads
  /\ main' = [main EXCEPT !.pc = "start", !.i = 0]
  /\ UNCHANGED <<th, mt, io>>

StartThread ==
  /\ main.pc = "start" /\ main.i \in Threads
  /\ th' = [th EXCEPT ![main.i].startEvent = TRUE]
  /\ main' = [main EXCEPT !.i = @ + 1]
  /\ UNCHANGED <<mt, io>>

(* Thread 0 is the first to write and the first to read.                   *)
GiveTurns ==
  /\ main.pc = "start" /\ main.i = NumThreads
  /\ th' = [th EXCEPT ![0].canWrite = TRUE, ![0].canRead = TRUE]
  /\ main' = [main EXCEPT !.pc = "await", !.i = 0]
  /\ UNCHANGED <<mt, io>>

AwaitThread_OnlyFirst ==
  /\ main.pc = "await" /\ main.i \in Threads /\ th[0].finishedEvent
  /\ main' = [main EXCEPT !.i = NumThreads]
  /\ th' = [th EXCEPT ![0].finishedEvent = FALSE]
  /\ UNCHANGED <<mt, io>>

AwaitThread ==
  /\ main.pc = "await" /\ main.i \in Threads /\ th[main.i].finishedEvent
  /\ th' = [th EXCEPT ![main.i].finishedEvent = FALSE]
  /\ main' = [main EXCEPT !.i = @ + 1]
  /\ UNCHANGED <<mt, io>>

AllFinished ==
  /\ main.pc = "await" /\ main.i = NumThreads
  /\ main' = [main EXCEPT !.pc = "close"]
  /\ UNCHANGED <<th, mt, io>>

(* CMtThread_CloseEvents, and the result.                                  *)
Return ==
  /\ main.pc = "close"
  /\ main' = [main EXCEPT !.pc = "idle", !.returned = First(main.res, mt.res)]
  /\ UNCHANGED <<th, mt, io>>

Destruct ==
  /\ main.pc = "idle"
  /\ main' = [main EXCEPT !.pc = "destruct", !.i = 0]
  /\ UNCHANGED <<th, mt, io>>

StopThread ==
  /\ main.pc = "destruct" /\ main.i \in Threads
  /\ IF th[main.i].pc = "none"
     THEN main' = [main EXCEPT !.i = @ + 1] /\ UNCHANGED th
     ELSE /\ th' = [th EXCEPT ![main.i].stopLoop = TRUE, ![main.i].startEvent = TRUE]
          /\ main' = [main EXCEPT !.pc = "join"]
  /\ UNCHANGED <<mt, io>>

JoinThread ==
  /\ main.pc = "join" /\ th[main.i].pc = "exited"
  /\ main' = [main EXCEPT !.pc = "destruct", !.i = @ + 1]
  /\ UNCHANGED <<th, mt, io>>

MainStep ==
  \/ Prepare \/ PrepareFails \/ CreateThread \/ AllCreated \/ StartThread \/ GiveTurns
  \/ AwaitThread \/ AllFinished \/ Return \/ Destruct \/ StopThread \/ JoinThread

Next == MainStep \/ \E t \in Threads : ThreadStep(t)

Spec == Init /\ [][Next]_vars

-----------------------------------------------------------------------------
(* Properties.                                                             *)

ThreadPcs == {"none", "loop", "canRead", "read", "code", "canWrite", "write", "error",
              "stopNext", "wakeNext", "finished", "exited"}
Results == {"ok", "read", "code", "write", "abort", "fail"}

MainType == [pc : {"idle", "create", "start", "await", "close", "destruct", "join"},
             i : 0..NumThreads, round : 0..MaxRounds, res : {"ok", "thread"},
             returned : Results \cup {"none", "mem", "thread"}]
ThreadType == [pc : ThreadPcs, startEvent : BOOLEAN, finishedEvent : BOOLEAN,
               stopLoop : BOOLEAN, canRead : BOOLEAN, canWrite : BOOLEAN,
               stopReading : BOOLEAN, stopWriting : BOOLEAN, block : 0..NumBlocks,
               stop : BOOLEAN, res : Results]
MtType == [res : Results, progress : Results]
IoType == [read : 0..NumBlocks, written : Seq(0..NumBlocks)]

TypeOK ==
  main \in MainType /\ th \in [Threads -> ThreadType] /\ mt \in MtType /\ io \in IoType

(* When MtCoder_Code returns, and closes the events the ring uses, every   *)
(* thread is back at its start event: nobody sets or waits on a closed     *)
(* event, or codes a block of a call that is over.                         *)
ThreadsAtRest ==
  main.pc \in {"idle", "close"} =>
    \A t \in Threads : th[t].pc \in {"none", "loop"} /\ ~th[t].startEvent
                         /\ ~th[t].finishedEvent

(* What makes this inductive, and the order of the blocks with it.  The    *)
(* events of the loops follow MtCoder_Code and MtCoder_Destruct,           *)
Rendezvous(t) ==
  /\ th[t].startEvent => th[t].pc = "loop" /\ ~th[t].finishedEvent
  /\ th[t].stopLoop => main.pc \in {"destruct", "join"}
  /\ main.pc \in {"idle", "create", "close", "destruct", "join"} => ~th[t].finishedEvent
  /\ main.pc \in {"idle", "create", "close"} => th[t].pc \in {"none", "loop"} /\ ~th[t].startEvent
  /\ main.pc = "create" => (t < main.i => th[t].pc = "loop")
  /\ main.pc = "start" =>
       /\ ~th[t].finishedEvent
       /\ IF t < main.i THEN th[t].startEvent \/ th[t].pc = "canRead"
          ELSE ~th[t].startEvent /\ th[t].pc = "loop"
  /\ main.pc = "await" =>
       /\ th[t].pc \notin {"none", "exited"}
       /\ th[t].pc = "loop" => th[t].startEvent \/ th[t].finishedEvent \/ t < main.i
       /\ th[t].finishedEvent => th[t].pc = "loop" /\ main.i <= t
       /\ t < main.i => th[t].pc = "loop" /\ ~th[t].startEvent
  /\ main.pc \in {"destruct", "join"} =>
       /\ t < main.i => th[t].pc \in {"none", "exited"}
       /\ t > main.i \/ (main.pc = "destruct" /\ t = main.i) =>
            th[t].pc \in {"none", "loop"} /\ ~th[t].startEvent
  /\ main.pc = "join" /\ t = main.i =>
       /\ th[t].stopLoop
       /\ th[t].startEvent \/ th[t].pc = "exited"

(* a call starts with no flag or error of the last one,                    *)
Clean ==
  /\ io.read = 0 /\ io.written = <<>> /\ mt.res = "ok" /\ mt.progress = "ok"
  /\ \A t \in Threads : ~th[t].canRead /\ ~th[t].canWrite
                        /\ ~th[t].stopReading /\ ~th[t].stopWriting

(* the rights to read and to write are not there twice, nor together with  *)
(* a flag that stops them,                                                 *)
MayRead(t) == th[t].canRead /\ ~th[t].stopReading
MayWrite(t) == th[t].canWrite /\ ~th[t].stopWriting
Reader(t) == th[t].pc = "read" \/ MayRead(t)
Writer(t) == th[t].pc = "write" \/ MayWrite(t)

OneReader ==
  /\ \A t, u \in Threads : Reader(t) /\ Reader(u) => t = u
  /\ \A t \in Threads : Reader(t) => io.read < NumBlocks /\ ~(th[t].pc = "read" /\ MayRead(t))

OneWriter ==
  /\ \A t, u \in Threads : Writer(t) /\ Writer(u) => t = u
  /\ \A t \in Threads : ~(th[t].pc = "write" /\ MayWrite(t))

Holding(t) == th[t].pc \in {"code", "canWrite", "write"}

(* only the thread before it stops a thread, when it reads no more itself, *)
StopsFollow(t) ==
  LET n == NextThread(t) IN
  /\ th[n].stopReading =>
       \/ th[t].pc \in {"wakeNext", "finished", "loop"} /\ ~th[t].startEvent
       \/ th[t].stop /\ th[t].pc \in {"code", "canWrite", "write", "error", "stopNext"}
  /\ th[t].pc = "wakeNext" => th[n].stopReading /\ th[n].stopWriting

StopsAreCaused ==
  \A t \in Threads :
    /\ th[t].stopReading => io.read = NumBlocks \/ mt.res # "ok"
    /\ th[t].stopWriting => mt.res # "ok" /\ mt.progress # "ok"

(* the blocks read and not yet written are with the threads that follow    *)
(* the writer, in their order, and then comes the reader,                  *)
HasRead(t) == th[t].pc \notin {"canRead", "read"} /\ ~th[t].startEvent

PlaceAfter(z, t, d) ==
  IF d < io.read - Len(io.written)
  THEN HasRead(t) /\ (Holding(t) => th[t].block = Len(io.written) + 1 + d)
  ELSE ~Holding(t)

InOrder ==
  /\ Len(io.written) <= io.read
  /\ \A z \in Threads : Writer(z) =>
       /\ io.read - Len(io.written) <= NumThreads
       /\ \A t, d \in Threads : Ahead(z, t, d) => PlaceAfter(z, t, d)
       /\ \A t \in Threads : Reader(t) => Ahead(z, t, io.read - Len(io.written))

(* an error that counts is one that happened,                              *)
Faults ==
  (IF ReadFaults THEN {"read"} ELSE {}) \cup (IF CodeFaults THEN {"code"} ELSE {})
  \cup (IF WriteFaults THEN {"write"} ELSE {}) \cup (IF AbortFaults THEN {"abort"} ELSE {})

ErrorsHappened ==
  /\ mt.res \in Faults \cup {"ok"} /\ mt.progress \in Faults \cup {"ok"}
  /\ \A t \in Threads :
       /\ th[t].pc \in {"error", "stopNext"} => th[t].res \in Faults \cup {"fail"}
       /\ th[t].pc \in {"error", "stopNext"} /\ th[t].res = "fail" =>
            mt.res # "ok" /\ mt.progress # "ok"
       /\ th[t].pc \in {"stopNext", "wakeNext"} => mt.res # "ok"

(* and without an error the writer is there and all blocks are held that   *)
(* are not written, to the last block of the input.                        *)
NoError == mt.res = "ok" /\ \A t \in Threads : th[t].pc # "error"

Complete ==
  /\ NoError => \E z \in Threads :
       /\ Writer(z)
       /\ \A t, d \in Threads : Ahead(z, t, d) /\ d < io.read - Len(io.written) => Holding(t)
  /\ \A t \in Threads :
       /\ Holding(t) /\ th[t].stop => io.read = NumBlocks
       /\ th[t].pc = "finished" \/ th[t].finishedEvent \/ t < main.i =>
            io.read = NumBlocks \/ mt.res # "ok"

InRing ==
  /\ OneReader /\ OneWriter /\ \A t \in Threads : StopsFollow(t)
  /\ StopsAreCaused /\ InOrder /\ ErrorsHappened /\ Complete

IInv ==
  /\ TypeOK
  /\ \A t \in Threads : Rendezvous(t)
  /\ main.pc \in {"create", "start", "await", "close"} <=> main.returned = "none"
  /\ main.pc \in {"create", "start", "await"} => main.res = "ok"
  /\ main.res = "thread" => SetupFaults
  /\ main.pc = "join" => main.i \in Threads
  /\ main.pc \in {"create", "start"} => Clean
  /\ main.pc = "await" => InRing
  /\ main.pc = "close" => /\ mt.res \in Faults \cup {"ok"}
                          /\ main.res = "ok" /\ mt.res = "ok" => Len(io.written) = NumBlocks
=============================================================================
