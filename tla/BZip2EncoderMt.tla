--------------------------- MODULE BZip2EncoderMt ---------------------------
(***************************************************************************)
(* The multithreaded BZip2 encoder.  Threads take blocks of the input in   *)
(* turn under one critical section, encode them side by side, and write    *)
(* them in turn: the thread that wrote block k signals CanWriteEvent of    *)
(* the slot of block k + 1.  CodeReal waits until every thread has seen    *)
(* the end of the stream, then lets them all go back to their start.       *)
(***************************************************************************)
EXTENDS BlockCoderParams

VARIABLES
  main,  \* CodeReal: pc, the thread it waits for, rounds started, what it returned
  enc,   \* CEncoder: events, flags, NextBlockIndex, Result, who is in CS
  th,    \* CThreadInfo: pc, block number, m_BlockIndex and its three events
  io     \* blocks read and block numbers written, and whether the output stream failed

vars == <<main, enc, th, io>>

Nobody == NumThreads

Init ==
  /\ main = [pc |-> "idle", t |-> 0, round |-> 0, returned |-> "ok"]
  /\ enc = [canProcess |-> FALSE, canStartWaiting |-> FALSE, closeThreads |-> FALSE,
            streamWasFinished |-> FALSE, next |-> 0, result |-> "ok", cs |-> Nobody]
  /\ th = [t \in Threads |-> [pc |-> "wait", block |-> 0, slot |-> 0,
             finished |-> FALSE, started |-> FALSE, canWrite |-> FALSE]]
  /\ io = [read |-> 0, written |-> <<>>, failed |-> FALSE]

NextSlot(k) == IF k + 1 = NumThreads THEN 0 ELSE k + 1

-----------------------------------------------------------------------------
(* CThreadInfo::ThreadFunc.                                                *)

Goto(t, pc) == th' = [th EXCEPT ![t].pc = pc]

EnterCS(t) ==
  /\ th[t].pc = "wait" /\ enc.canProcess /\ enc.cs = Nobody
  /\ enc' = [enc EXCEPT !.cs = t]
  /\ Goto(t, "inside")
  /\ UNCHANGED <<main, io>>

CloseThread(t) ==
  /\ th[t].pc = "inside" /\ enc.closeThreads
  /\ enc' = [enc EXCEPT !.cs = Nobody]
  /\ Goto(t, "exited")
  /\ UNCHANGED <<main, io>>

SeeFinished(t) ==
  /\ th[t].pc = "inside" /\ ~enc.closeThreads /\ enc.streamWasFinished
  /\ Goto(t, "finish")
  /\ UNCHANGED <<main, enc, io>>

(* ReadRleBlock, and the slot in which the block will be written; no block *)
(* is left at the end of the input.                                        *)
ReadBlock(t) ==
  /\ th[t].pc = "inside" /\ ~enc.closeThreads /\ ~enc.streamWasFinished
  /\ IF io.read = NumBlocks
     THEN /\ enc' = [enc EXCEPT !.next = NextSlot(@)]
          /\ th' = [th EXCEPT ![t].pc = "finish", ![t].slot = enc.next]
          /\ UNCHANGED io
     ELSE /\ io' = [io EXCEPT !.read = @ + 1]
          /\ enc' = [enc EXCEPT !.next = NextSlot(@), !.cs = Nobody]
          /\ th' = [th EXCEPT ![t].pc = "encode", ![t].block = io.read + 1,
                              ![t].slot = enc.next]
  /\ UNCHANGED main

ReadFails(t) ==
  /\ ReadFaults /\ th[t].pc = "inside" /\ ~enc.closeThreads /\ ~enc.streamWasFinished
  /\ enc' = [enc EXCEPT !.result = "read"]
  /\ Goto(t, "finish")
  /\ UNCHANGED <<main, io>>

(* EncodeBlock3: the block is encoded, its turn to be written has to come. *)
TakeTurn(t) ==
  /\ th[t].pc = "encode" /\ th[th[t].slot].canWrite
  /\ th' = [th EXCEPT ![th[t].slot].canWrite = FALSE, ![t].pc = "write"]
  /\ UNCHANGED <<main, enc, io>>

(* CombinedCrc.Update and WriteBytes; an exception skips the rest.         *)
WriteBlock(t) ==
  /\ th[t].pc = "write"
  /\ \/ /\ io' = [io EXCEPT !.written = Append(@, th[t].block)]
        /\ Goto(t, "pass") /\ UNCHANGED enc
     \/ /\ WriteFaults
        /\ enc' = [enc EXCEPT !.result = "write"]
        /\ io' = [io EXCEPT !.failed = TRUE]
        /\ Goto(t, "finish")
  /\ UNCHANGED main

(* Progress, then CanWriteEvent of the next slot whatever Progress said.   *)
PassTurn(t) ==
  LET n == NextSlot(th[t].slot) IN
  /\ th[t].pc = "pass"
  /\ \/ th' = [th EXCEPT ![t].pc = "wait", ![n].canWrite = TRUE] /\ UNCHANGED enc
     \/ /\ AbortFaults
        /\ th' = [th EXCEPT ![t].pc = "finish", ![n].canWrite = TRUE]
        /\ enc' = [enc EXCEPT !.result = "abort"]
  /\ UNCHANGED <<main, io>>

(* FinishStream, inside CS or, after an error, outside of it.              *)
FinishStream(t) ==
  /\ th[t].pc = "finish"
  /\ enc' = [enc EXCEPT !.streamWasFinished = TRUE, !.cs = IF @ = t THEN Nobody ELSE @]
  /\ th' = [th EXCEPT ![t].pc = "rest", ![t].finished = TRUE]
  /\ UNCHANGED <<main, io>>

StartWaiting(t) ==
  /\ th[t].pc = "rest" /\ enc.canStartWaiting
  /\ th' = [th EXCEPT ![t].pc = "wait", ![t].started = TRUE]
  /\ UNCHANGED <<main, enc, io>>

ThreadStep(t) ==
  \/ EnterCS(t) \/ CloseThread(t) \/ SeeFinished(t) \/ ReadBlock(t) \/ ReadFails(t)
  \/ TakeTurn(t) \/ WriteBlock(t) \/ PassTurn(t) \/ FinishStream(t) \/ StartWaiting(t)

-----------------------------------------------------------------------------
(* CEncoder::CodeReal and Free, on the calling thread.                     *)

(* The events and flags of the last call are reset, one after the other;   *)
(* no thread looks at them before CanProcessEvent.                         *)
CodeReset ==
  /\ main.pc = "idle" /\ main.round < MaxRounds
  /\ th' = [t \in Threads |-> [th[t] EXCEPT !.finished = FALSE, !.started = FALSE,
                                            !.canWrite = FALSE]]
  /\ enc' = [enc EXCEPT !.next = 0, !.streamWasFinished = FALSE, !.closeThreads = FALSE,
                        !.canStartWaiting = FALSE]
  /\ io' = [read |-> 0, written |-> <<>>, failed |-> FALSE]
  /\ main' = [main EXCEPT !.pc = "reset", !.round = @ + 1, !.returned = "none"]

CodeStart ==
  /\ main.pc = "reset"
  /\ th' = [th EXCEPT ![0].canWrite = TRUE]
  /\ enc' = [enc EXCEPT !.result = "ok", !.canProcess = TRUE]
  /\ main' = [main EXCEPT !.pc = "finished", !.t = 0]
  /\ UNCHANGED io

AwaitFinished ==
  /\ main.pc = "finished" /\ main.t \in Threads /\ th[main.t].finished
  /\ th' = [th EXCEPT ![main.t].finished = FALSE]
  /\ main' = [main EXCEPT !.t = @ + 1]
  /\ UNCHANGED <<enc, io>>

LetWait ==
  /\ main.pc = "finished" /\ main.t = NumThreads
  /\ enc' = [enc EXCEPT !.canProcess = FALSE, !.canStartWaiting = TRUE]
  /\ main' = [main EXCEPT !.pc = "started", !.t = 0]
  /\ UNCHANGED <<th, io>>

AwaitStarted ==
  /\ main.pc = "started" /\ main.t \in Threads /\ th[main.t].started
  /\ th' = [th EXCEPT ![main.t].started = FALSE]
  /\ main' = [main EXCEPT !.t = @ + 1]
  /\ UNCHANGED <<enc, io>>

(* RINOK(Result), and else the end of the stream is written.               *)
CodeReturn ==
  /\ main.pc = "started" /\ main.t = NumThreads
  /\ enc' = [enc EXCEPT !.canStartWaiting = FALSE]
  /\ main' = [main EXCEPT !.pc = "idle", !.returned = enc.result]
  /\ UNCHANGED <<th, io>>

(* ~CEncoder: Free.                                                        *)
Close ==
  /\ main.pc = "idle"
  /\ enc' = [enc EXCEPT !.closeThreads = TRUE, !.canProcess = TRUE]
  /\ main' = [main EXCEPT !.pc = "close"]
  /\ UNCHANGED <<th, io>>

Join ==
  /\ main.pc = "close" /\ \A t \in Threads : th[t].pc = "exited"
  /\ main' = [main EXCEPT !.pc = "done"]
  /\ UNCHANGED <<enc, th, io>>

MainStep ==
  \/ CodeReset \/ CodeStart \/ AwaitFinished \/ LetWait \/ AwaitStarted
  \/ CodeReturn \/ Close \/ Join

Next == MainStep \/ \E t \in Threads : ThreadStep(t)

Spec == Init /\ [][Next]_vars

-----------------------------------------------------------------------------
(* Properties.                                                             *)

ThreadPcs == {"wait", "inside", "encode", "write", "pass", "finish", "rest", "exited"}
Results == {"ok", "read", "write", "abort"}

MainType == [pc : {"idle", "reset", "finished", "started", "close", "done"},
             t : 0..NumThreads, round : 0..MaxRounds, returned : Results \cup {"none"}]
EncoderType == [canProcess : BOOLEAN, canStartWaiting : BOOLEAN, closeThreads : BOOLEAN,
                streamWasFinished : BOOLEAN, next : Threads, result : Results,
                cs : 0..NumThreads]
ThreadType == [pc : ThreadPcs, block : 0..NumBlocks, slot : Threads,
               finished : BOOLEAN, started : BOOLEAN, canWrite : BOOLEAN]
IoType == [read : 0..NumBlocks, written : Seq(0..NumBlocks), failed : BOOLEAN]

TypeOK ==
  main \in MainType /\ enc \in EncoderType /\ th \in [Threads -> ThreadType] /\ io \in IoType

(* One turn to write exists at most: a thread that writes, or one event    *)
(* that is set, never two.                                                 *)
OneTurn ==
  /\ \A s, u \in Threads : th[s].canWrite /\ th[u].canWrite => s = u
  /\ \A s, u \in Threads : th[s].pc \in {"write", "pass"} =>
       ~th[u].canWrite /\ (th[u].pc \in {"write", "pass"} => s = u)

(* When CodeReal goes on to write the end of the stream, or returns, no    *)
(* encoder thread is still at work on a block of that call.                *)
ThreadsAtRest ==
  main.pc \in {"idle", "reset"} =>
    enc.cs = Nobody /\ \A t \in Threads : th[t].pc = "wait"

(* What makes these inductive, and the order of the blocks with them.  The *)
(* events of the main thread follow the phases of CodeReal,                *)
Phases ==
  /\ enc.closeThreads <=> main.pc \in {"close", "done"}
  /\ enc.canProcess <=> main.pc \in {"finished", "close", "done"}
  /\ enc.canStartWaiting <=> main.pc = "started"

(* the critical section has the one owner who is in it, or in FinishStream *)
(* on the way out,                                                         *)
SectionIsOwned ==
  /\ \A t \in Threads : th[t].pc = "inside" => enc.cs = t
  /\ enc.cs # Nobody => th[enc.cs].pc \in {"inside", "finish"}

(* a thread has passed a point of the rendezvous when its event is set, or *)
(* when CodeReal has taken the event already,                              *)
Rendezvous(t) ==
  /\ main.pc \in {"idle", "reset"} =>
       th[t].pc = "wait" /\ ~th[t].finished /\ ~th[t].started
  /\ main.pc = "finished" =>
       /\ th[t].pc # "exited" /\ ~th[t].started
       /\ th[t].pc = "rest" <=> th[t].finished \/ t < main.t
       /\ th[t].finished => main.t <= t
  /\ main.pc = "started" =>
       /\ th[t].pc \in {"rest", "wait"} /\ ~th[t].finished
       /\ th[t].pc = "wait" <=> th[t].started \/ t < main.t
       /\ th[t].started => main.t <= t
  /\ main.pc = "close" => th[t].pc \in {"wait", "inside", "exited"}
  /\ main.pc = "done" => th[t].pc = "exited"

(* the turn is at slot z, or will be after PassTurn, and is lost with the  *)
(* output stream,                                                          *)
TurnAt(z) ==
  \/ th[z].canWrite
  \/ \E t \in Threads : th[t].pc = "write" /\ th[t].slot = z
  \/ \E t \in Threads : th[t].pc = "pass" /\ NextSlot(th[t].slot) = z

Holding(t) == th[t].pc \in {"encode", "write"}

(* until then the blocks read and not yet written are with one thread each *)
(* and their slots follow the one whose turn it is, up to NextBlockIndex   *)
(* while there are blocks to read,                                         *)
BlocksAreHeld ==
  /\ Len(io.written) <= io.read
  /\ \A t \in Threads : Holding(t) => th[t].block \in (Len(io.written) + 1)..io.read
  /\ \A t, u \in Threads : Holding(t) /\ Holding(u) /\ th[t].block = th[u].block => t = u
  /\ \A b \in (Len(io.written) + 1)..io.read : \E t \in Threads : Holding(t) /\ th[t].block = b

AtEnd == enc.streamWasFinished \/ \E t \in Threads : th[t].pc = "finish" /\ enc.cs = t

SlotsFollowTurn ==
  \A z \in Threads : TurnAt(z) =>
    /\ AtEnd \/ Ahead(z, enc.next, io.read - Len(io.written))
    /\ \A t \in Threads : Holding(t) => Ahead(z, th[t].slot, th[t].block - Len(io.written) - 1)

(* and the stream is finished after an error or when all blocks are read.  *)
EndIsCaused ==
  /\ enc.result = "ok" /\ (enc.streamWasFinished \/ \E t \in Threads : th[t].pc = "finish") =>
       io.read = NumBlocks
  /\ \A t \in Threads : th[t].pc = "rest" => enc.streamWasFinished
  /\ main.pc = "started" => enc.streamWasFinished
  /\ io.failed => enc.result # "ok" /\ \A z \in Threads : ~TurnAt(z)

Faults == (IF ReadFaults THEN {"read"} ELSE {}) \cup (IF WriteFaults THEN {"write"} ELSE {})
          \cup (IF AbortFaults THEN {"abort"} ELSE {})

InCall ==
  main.pc \in {"finished", "started"} =>
    /\ enc.result \in Faults \cup {"ok"} /\ EndIsCaused
    /\ ~io.failed => BlocksAreHeld /\ SlotsFollowTurn

IInv ==
  /\ TypeOK /\ Phases /\ SectionIsOwned /\ OneTurn
  /\ \A t \in Threads : Rendezvous(t) /\ (main.pc = "reset" => ~th[t].canWrite)
  /\ main.pc \in {"reset", "finished", "started"} <=> main.returned = "none"
  /\ main.pc = "reset" => /\ io.read = 0 /\ io.written = <<>> /\ ~io.failed
                          /\ enc.next = 0 /\ ~enc.streamWasFinished
  /\ InCall
=============================================================================
