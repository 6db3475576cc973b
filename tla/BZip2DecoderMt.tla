--------------------------- MODULE BZip2DecoderMt ---------------------------
(***************************************************************************)
(* The multithreaded BZip2 decoder.  As in the encoder, threads take the   *)
(* blocks of the stream in turn under one critical section and write them  *)
(* in turn, and DecodeFile meets them all before it returns.  A thread may *)
(* fail in two places that overlap: inside the critical section (Result1,  *)
(* no more blocks are read) and in its turn to write (Result2, no more     *)
(* blocks are written).                                                    *)
(***************************************************************************)
EXTENDS BlockCoderParams

VARIABLES
  main,  \* DecodeFile: pc, the thread it waits for, rounds started, what it returned
  dec,   \* CDecoder: events, flags, NextBlockIndex, Result1, Result2, who is in CS
  th,    \* CState: pc, block number, slot, whether it stops, and its three events
  io     \* the input, blocks read of it, block numbers decoded into the output

vars == <<main, dec, th, io>>

Nobody == NumThreads

Init ==
  /\ main = [pc |-> "idle", t |-> 0, round |-> 0, returned |-> "ok"]
  /\ dec = [canProcess |-> FALSE, canStartWaiting |-> FALSE, closeThreads |-> FALSE,
            finished1 |-> FALSE, finished2 |-> FALSE, next |-> 0, result1 |-> "ok",
            result2 |-> "ok", crcError |-> FALSE, cs |-> Nobody]
  /\ th = [t \in Threads |-> [pc |-> "wait", block |-> 0, slot |-> 0, stops |-> FALSE,
             finished |-> FALSE, started |-> FALSE, canWrite |-> FALSE]]
  /\ io = [input |-> [blocks |-> <<>>, end |-> "ok"], read |-> 0, written |-> <<>>]

NextSlot(k) == IF k + 1 = NumThreads THEN 0 ELSE k + 1

(* The HRESULT for what is wrong with a block or with the end: data that   *)
(* cannot be right and a CRC that is not are both S_FALSE.                 *)
HResult(q) ==
  CASE q = "good" -> "ok" [] q \in {"data", "crc"} -> "false" [] OTHER -> q

-----------------------------------------------------------------------------
(* CState::ThreadFunc.                                                     *)

Goto(t, pc) == th' = [th EXCEPT ![t].pc = pc]

EnterCS(t) ==
  /\ th[t].pc = "wait" /\ dec.canProcess /\ dec.cs = Nobody
  /\ dec' = [dec EXCEPT !.cs = t]
  /\ Goto(t, "inside")
  /\ UNCHANGED <<main, io>>

CloseThread(t) ==
  /\ th[t].pc = "inside" /\ dec.closeThreads
  /\ dec' = [dec EXCEPT !.cs = Nobody]
  /\ Goto(t, "exited")
  /\ UNCHANGED <<main, io>>

SeeFinished(t) ==
  /\ th[t].pc = "inside" /\ ~dec.closeThreads /\ dec.finished1
  /\ Goto(t, "finish")
  /\ UNCHANGED <<main, dec, io>>

Reading(t) == th[t].pc = "inside" /\ ~dec.closeThreads /\ ~dec.finished1

(* ReadSignature and ReadBlock find a block.                               *)
ReadBlock(t) ==
  /\ Reading(t) /\ io.read < Len(io.input.blocks)
  /\ io' = [io EXCEPT !.read = @ + 1]
  /\ dec' = [dec EXCEPT !.next = NextSlot(@), !.cs = Nobody]
  /\ th' = [th EXCEPT ![t].pc = "decode", ![t].block = io.read + 1, ![t].slot = dec.next]
  /\ UNCHANGED main

(* They find the end signature, with or without the right CRC of all       *)
(* blocks, or something that is no block, or the input stream fails.       *)
ReadEnd(t) ==
  /\ Reading(t) /\ io.read = Len(io.input.blocks)
  /\ dec' = [dec EXCEPT !.next = NextSlot(@), !.crcError = @ \/ io.input.end = "crc",
       !.result1 = IF io.input.end \in {"data", "crc", "read"}
                   THEN HResult(io.input.end) ELSE "ok"]
  /\ Goto(t, "finish")
  /\ UNCHANGED <<main, io>>

TakeTurn(t) ==
  /\ th[t].pc = "decode" /\ th[th[t].slot].canWrite
  /\ th' = [th EXCEPT ![th[t].slot].canWrite = FALSE, ![t].pc = "write"]
  /\ UNCHANGED <<main, dec, io>>

(* DecodeBlock into m_OutStream, the CRC of the block, and Progress; all   *)
(* failures, exceptions of the stream among them, come to the same place.  *)
DecodeBlock(t) ==
  LET res == HResult(io.input.blocks[th[t].block]) IN
  /\ th[t].pc = "write"
  /\ IF dec.finished2
     THEN /\ th' = [th EXCEPT ![t].pc = "pass", ![t].stops = TRUE]
          /\ UNCHANGED <<dec, io>>
     ELSE /\ io' = [io EXCEPT !.written = Append(@, th[t].block)]
          /\ dec' = IF res = "ok" THEN dec
                    ELSE [dec EXCEPT !.result2 = res, !.finished2 = TRUE]
          /\ th' = [th EXCEPT ![t].pc = "pass", ![t].stops = res # "ok"]
  /\ UNCHANGED main

(* Variant for a mutant: a thread that failed keeps its turn.              *)
PassTurn_NotOnError(t) ==
  /\ th[t].pc = "pass"
  /\ th' = [th EXCEPT ![t].pc = IF th[t].stops THEN "stop" ELSE "wait",
                      ![NextSlot(th[t].slot)].canWrite = ~th[t].stops]
  /\ UNCHANGED <<main, dec, io>>

PassTurn(t) ==
  /\ th[t].pc = "pass"
  /\ th' = [th EXCEPT ![t].pc = IF th[t].stops THEN "stop" ELSE "wait",
                      ![NextSlot(th[t].slot)].canWrite = TRUE]
  /\ UNCHANGED <<main, dec, io>>

(* After its turn a thread that stops leaves StreamWasFinished1 alone: the *)
(* others may go on reading until each has seen StreamWasFinished2.        *)
Stop(t) ==
  /\ th[t].pc = "stop"
  /\ th' = [th EXCEPT ![t].pc = "rest", ![t].finished = TRUE]
  /\ UNCHANGED <<main, dec, io>>

FinishStream(t) ==
  /\ th[t].pc = "finish"
  /\ dec' = [dec EXCEPT !.finished1 = TRUE, !.cs = Nobody]
  /\ th' = [th EXCEPT ![t].pc = "rest", ![t].finished = TRUE]
  /\ UNCHANGED <<main, io>>

StartWaiting(t) ==
  /\ th[t].pc = "rest" /\ dec.canStartWaiting
  /\ th' = [th EXCEPT ![t].pc = "wait", ![t].started = TRUE]
  /\ UNCHANGED <<main, dec, io>>

ThreadStep(t) ==
  \/ EnterCS(t) \/ CloseThread(t) \/ SeeFinished(t) \/ ReadBlock(t) \/ ReadEnd(t)
  \/ TakeTurn(t) \/ DecodeBlock(t) \/ PassTurn(t) \/ Stop(t) \/ FinishStream(t)
  \/ StartWaiting(t)

-----------------------------------------------------------------------------
(* CDecoder::CodeReal, DecodeFile and Free, on the calling thread.         *)

CodeReset ==
  /\ main.pc = "idle" /\ main.round < MaxRounds
  /\ \E input \in Inputs : io' = [input |-> input, read |-> 0, written |-> <<>>]
  /\ th' = [t \in Threads |-> [th[t] EXCEPT !.finished = FALSE, !.started = FALSE,
                                            !.canWrite = FALSE]]
  /\ dec' = [dec EXCEPT !.crcError = FALSE]
  /\ main' = [main EXCEPT !.pc = "reset", !.round = @ + 1, !.returned = "none"]

(* The first bytes are no signature of BZip2: the threads are left alone.  *)
NoSignature ==
  /\ main.pc = "reset" /\ io.input.end = "nosig"
  /\ main' = [main EXCEPT !.pc = "idle", !.returned = "false"]
  /\ UNCHANGED <<dec, th, io>>

CodeStart ==
  /\ main.pc = "reset" /\ io.input.end # "nosig"
  /\ th' = [th EXCEPT ![0].canWrite = TRUE]
  /\ dec' = [dec EXCEPT !.next = 0, !.finished1 = FALSE, !.finished2 = FALSE,
               !.closeThreads = FALSE, !.canStartWaiting = FALSE, !.result1 = "ok",
               !.result2 = "ok", !.canProcess = TRUE]
  /\ main' = [main EXCEPT !.pc = "finished", !.t = 0]
  /\ UNCHANGED io

AwaitFinished ==
  /\ main.pc = "finished" /\ main.t \in Threads /\ th[main.t].finished
  /\ th' = [th EXCEPT ![main.t].finished = FALSE]
  /\ main' = [main EXCEPT !.t = @ + 1]
  /\ UNCHANGED <<dec, io>>

LetWait ==
  /\ main.pc = "finished" /\ main.t = NumThreads
  /\ dec' = [dec EXCEPT !.canProcess = FALSE, !.canStartWaiting = TRUE]
  /\ main' = [main EXCEPT !.pc = "started", !.t = 0]
  /\ UNCHANGED <<th, io>>

AwaitStarted ==
  /\ main.pc = "started" /\ main.t \in Threads /\ th[main.t].started
  /\ th' = [th EXCEPT ![main.t].started = FALSE]
  /\ main' = [main EXCEPT !.t = @ + 1]
  /\ UNCHANGED <<dec, io>>

(* Variant for a mutant: the results in the order of their names.          *)
Result_ReaderFirst == IF dec.result1 # "ok" THEN dec.result1 ELSE dec.result2

(* RINOK(Result2), RINOK(Result1).                                         *)
Result == IF dec.result2 # "ok" THEN dec.result2 ELSE dec.result1

(* Then the last Progress, and the flush of what m_OutStream holds.        *)
CodeReturn ==
  /\ main.pc = "started" /\ main.t = NumThreads
  /\ dec' = [dec EXCEPT !.canStartWaiting = FALSE]
  /\ main' = [main EXCEPT !.pc = "idle", !.returned =
       IF Result = "ok" /\ io.input.end \in {"abort", "write"} THEN io.input.end ELSE Result]
  /\ UNCHANGED <<th, io>>

(* ~CDecoder: Free.                                                        *)
Close ==
  /\ main.pc = "idle"
  /\ dec' = [dec EXCEPT !.closeThreads = TRUE, !.canProcess = TRUE]
  /\ main' = [main EXCEPT !.pc = "close"]
  /\ UNCHANGED <<th, io>>

Join ==
  /\ main.pc = "close" /\ \A t \in Threads : th[t].pc = "exited"
  /\ main' = [main EXCEPT !.pc = "done"]
  /\ UNCHANGED <<dec, th, io>>

MainStep ==
  \/ CodeReset \/ NoSignature \/ CodeStart \/ AwaitFinished \/ LetWait \/ AwaitStarted
  \/ CodeReturn \/ Close \/ Join

Next == MainStep \/ \E t \in Threads : ThreadStep(t)

Spec == Init /\ [][Next]_vars

-----------------------------------------------------------------------------
(* Properties.                                                             *)

ThreadPcs == {"wait", "inside", "decode", "write", "pass", "stop", "finish", "rest", "exited"}
Results == {"ok", "false", "read", "write", "abort"}

MainType == [pc : {"idle", "reset", "finished", "started", "close", "done"},
             t : 0..NumThreads, round : 0..MaxRounds, returned : Results \cup {"none"}]
DecoderType == [canProcess : BOOLEAN, canStartWaiting : BOOLEAN, closeThreads : BOOLEAN,
                finished1 : BOOLEAN, finished2 : BOOLEAN, next : Threads,
                result1 : Results, result2 : Results, crcError : BOOLEAN,
                cs : 0..NumThreads]
ThreadType == [pc : ThreadPcs, block : 0..NumBlocks, slot : Threads, stops : BOOLEAN,
               finished : BOOLEAN, started : BOOLEAN, canWrite : BOOLEAN]
IoType == [input : Inputs \cup {[blocks |-> <<>>, end |-> "ok"]}, read : 0..NumBlocks,
           written : Seq(0..NumBlocks)]

TypeOK ==
  /\ main \in MainType /\ dec \in DecoderType /\ th \in [Threads -> ThreadType]
  /\ io \in IoType /\ io.read <= Len(io.input.blocks)

(* One turn to write exists at most.                                       *)
OneTurn ==
  /\ \A s, u \in Threads : th[s].canWrite /\ th[u].canWrite => s = u
  /\ \A s, u \in Threads : th[s].pc \in {"write", "pass"} =>
       ~th[u].canWrite /\ (th[u].pc \in {"write", "pass"} => s = u)

(* No thread is at work, or still to be told to wait, when DecodeFile      *)
(* looks at the results and resets events.                                 *)
ThreadsAtRest ==
  main.pc \in {"idle", "reset"} =>
    dec.cs = Nobody /\ \A t \in Threads : th[t].pc = "wait" /\ ~th[t].finished /\ ~th[t].started

(* What decoding block after block in one thread comes to: the first block *)
(* that is not good, or else the end, is what is wrong with the input.     *)
Bad == {k \in 1..Len(io.input.blocks) : io.input.blocks[k] # "good"}
FirstBad == CHOOSE k \in Bad : \A j \in Bad : k <= j
Cause == IF Bad = {} THEN io.input.end ELSE io.input.blocks[FirstBad]

(* The threads together decode the blocks in order, up to and including    *)
(* the first bad one, and report what is wrong with that one, even when    *)
(* others were read and found wrong, or the end of the input, before it.   *)
LikeOneThread ==
  /\ \A k \in 1..Len(io.written) : io.written[k] = k
  /\ main.pc = "idle" /\ main.round > 0 /\ io.input.end # "nosig" =>
       /\ Len(io.written) = IF Bad = {} THEN Len(io.input.blocks) ELSE FirstBad
       /\ main.returned = HResult(Cause)

(* What makes these inductive.  The events of the main thread follow the   *)
(* phases of DecodeFile,                                                   *)
Phases ==
  /\ dec.closeThreads <=> main.pc \in {"close", "done"}
  /\ dec.canProcess <=> main.pc \in {"finished", "close", "done"}
  /\ dec.canStartWaiting <=> main.pc = "started"

(* the critical section has the one owner who is in it, to the end of      *)
(* FinishStream,                                                           *)
SectionIsOwned ==
  /\ \A t \in Threads : th[t].pc \in {"inside", "finish"} => dec.cs = t
  /\ dec.cs # Nobody => th[dec.cs].pc \in {"inside", "finish"}

(* a thread has passed a point of the rendezvous when its event is set, or *)
(* when DecodeFile has taken the event already,                            *)
Rendezvous(t) ==
  /\ main.pc \in {"idle", "reset"} =>
       th[t].pc = "wait" /\ ~th[t].finished /\ ~th[t].started
  /\ main.pc = "finished" =>
       /\ th[t].pc # "exited" /\ ~th[t].started
       /\ th[t].pc = "rest" <=> th[t].finished \/ t < main.t
       /\ th[t].finished => main.t <= t
  /\ main.pc = "started" =>
       /\ th[t].pc \in {"rest", "wait"} /\ ~th[t].finished
       /\ th[t].pc = "wait" <=> th[t].started \/ t < main.t
       /\ th[t].started => main.t <= t
  /\ main.pc = "close" => th[t].pc \in {"wait", "inside", "exited"}
  /\ main.pc = "done" => th[t].pc = "exited"

(* the turn is at slot z, or will be after PassTurn,                       *)
TurnAt(z) ==
  \/ th[z].canWrite
  \/ \E t \in Threads : th[t].pc = "write" /\ th[t].slot = z
  \/ \E t \in Threads : th[t].pc = "pass" /\ NextSlot(th[t].slot) = z

Holding(t) == th[t].pc \in {"decode", "write"}

(* the blocks read and not yet written are with one thread each, and their *)
(* slots follow the one whose turn it is, up to NextBlockIndex while there *)
(* are blocks to read,                                                     *)
BlocksAreHeld ==
  /\ Len(io.written) <= io.read
  /\ \A t \in Threads : Holding(t) => th[t].block \in (Len(io.written) + 1)..io.read
  /\ \A t, u \in Threads : Holding(t) /\ Holding(u) /\ th[t].block = th[u].block => t = u
  /\ \A b \in (Len(io.written) + 1)..io.read : \E t \in Threads : Holding(t) /\ th[t].block = b

AtEnd == dec.finished1 \/ \E t \in Threads : th[t].pc = "finish"

SlotsFollowTurn ==
  \A z \in Threads : TurnAt(z) =>
    /\ AtEnd \/ Ahead(z, dec.next, io.read - Len(io.written))
    /\ \A t \in Threads : Holding(t) => Ahead(z, th[t].slot, th[t].block - Len(io.written) - 1)

(* the blocks written are the first ones, all good but perhaps the last,   *)
(* and then nothing more is written,                                       *)
WrittenAreFirst ==
  /\ Len(io.written) <= Len(io.input.blocks)
  /\ \A k \in 1..Len(io.written) : io.written[k] = k
  /\ \A k \in 1..Len(io.written) :
       io.input.blocks[k] # "good" => k = Len(io.written) /\ dec.finished2
  /\ dec.finished2 =>
       /\ Len(io.written) > 0 /\ io.input.blocks[Len(io.written)] # "good"
       /\ dec.result2 = HResult(io.input.blocks[Len(io.written)])
  /\ ~dec.finished2 => dec.result2 = "ok"

(* and a thread comes to rest for one of two reasons.                      *)
EndSeen ==
  /\ io.read = Len(io.input.blocks)
  /\ dec.result1 = IF io.input.end \in {"data", "crc", "read"} THEN HResult(io.input.end) ELSE "ok"

RestIsCaused ==
  /\ AtEnd => EndSeen
  /\ \A t \in Threads :
       /\ th[t].pc = "stop" => dec.finished2
       /\ th[t].pc = "pass" /\ th[t].stops => dec.finished2
       /\ th[t].pc = "rest" => dec.finished1 \/ dec.finished2
  /\ main.pc = "started" => dec.finished1 \/ dec.finished2

InCall ==
  main.pc \in {"finished", "started"} =>
    /\ io.input.end # "nosig" /\ WrittenAreFirst /\ RestIsCaused
    /\ ~dec.finished2 => BlocksAreHeld /\ SlotsFollowTurn

IInv ==
  /\ TypeOK /\ Phases /\ SectionIsOwned /\ OneTurn
  /\ \A t \in Threads : Rendezvous(t)
  /\ InCall /\ LikeOneThread
  /\ main.pc = "reset" => io.read = 0 /\ io.written = <<>> /\ \A t \in Threads : ~th[t].canWrite
=============================================================================
