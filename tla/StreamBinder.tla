---------------------------- MODULE StreamBinder ----------------------------
(***************************************************************************)
(* CStreamBinder: the one-buffer rendezvous that joins the output stream   *)
(* of one coder thread to the input stream of the next.  The writer lends  *)
(* its own buffer (_buf, _bufSize) for the duration of Write and blocks    *)
(* until the reader has drained it or has closed its end.                  *)
(*                                                                         *)
(* One binder per bond.  Each call is cut where another thread can get     *)
(* between two of its accesses to the shared fields: every event           *)
(* operation is one step (it is atomic under its mutex, see module         *)
(* Synchronization) and so is every group of accesses to _buf/_bufSize.    *)
(***************************************************************************)
EXTENDS Integers, Sequences

CONSTANTS Bonds,      \* one binder per bond of the mixer
          MaxBytes,   \* bound: bytes a writer offers in one round
          MaxSize,    \* bound: the largest size argument of Read and Write
          MaxRounds   \* bound: how often ReInit prepares the binder again

ASSUME BoundsAssumption ==
  /\ MaxBytes \in Nat
  /\ MaxSize \in Nat \ {0}
  /\ MaxRounds \in Nat

VARIABLES
  canWrite,    \* _canWrite_Event, auto-reset, shares a CSynchro with the next
  closedEvent, \* _readingWasClosed_Event, manual-reset
  canRead,     \* _canRead_Event, manual-reset
  closed2,     \* _readingWasClosed2
  waitWrite,   \* _waitWrite
  buf,         \* _buf: stream position of the byte it points at, or Null
  bufSize,     \* _bufSize
  processed,   \* ProcessedSize
  rpc, rsize,  \* where the reader is inside Read, and its size argument
  wpc, wsize,  \* where the writer is inside Write, and its size argument
  acked,       \* bytes Write has reported as processed in this round
  got,         \* the bytes Read has copied out in this round, in order
  eof, cut,    \* Read has returned 0 bytes / Write has returned WritingWasCut
  round

fields == <<canWrite, closedEvent, canRead, closed2, waitWrite, buf, bufSize, processed>>
reader == <<rpc, rsize, got, eof>>
writer == <<wpc, wsize, acked, cut>>
vars   == <<fields, reader, writer, round>>

Null == -1
Lesser(a, b) == IF a < b THEN a ELSE b

(* CreateEvents followed by CreateStreams.                                 *)
Init ==
  /\ canWrite = [b \in Bonds |-> FALSE] /\ closedEvent = [b \in Bonds |-> FALSE]
  /\ canRead = [b \in Bonds |-> FALSE]  /\ closed2 = [b \in Bonds |-> FALSE]
  /\ waitWrite = [b \in Bonds |-> TRUE] /\ buf = [b \in Bonds |-> Null]
  /\ bufSize = [b \in Bonds |-> 0]      /\ processed = [b \in Bonds |-> 0]
  /\ rpc = [b \in Bonds |-> "idle"]     /\ rsize = [b \in Bonds |-> 0]
  /\ wpc = [b \in Bonds |-> "idle"]     /\ wsize = [b \in Bonds |-> 0]
  /\ acked = [b \in Bonds |-> 0]        /\ got = [b \in Bonds |-> <<>>]
  /\ eof = [b \in Bonds |-> FALSE]      /\ cut = [b \in Bonds |-> FALSE]
  /\ round = [b \in Bonds |-> 0]

-----------------------------------------------------------------------------
(* The reader.                                                             *)

ReadCall(b, size) ==
  /\ rpc[b] = "idle"
  /\ rsize' = [rsize EXCEPT ![b] = size]
  /\ rpc' = [rpc EXCEPT ![b] = IF waitWrite[b] THEN "lock" ELSE "copy"]
  /\ UNCHANGED <<fields, got, eof, writer, round>>

ReadLock(b) ==
  /\ rpc[b] = "lock"
  /\ canRead[b]
  /\ waitWrite' = [waitWrite EXCEPT ![b] = FALSE]
  /\ rpc' = [rpc EXCEPT ![b] = "copy"]
  /\ UNCHANGED <<canWrite, closedEvent, canRead, closed2, buf, bufSize, processed,
                 rsize, got, eof, writer, round>>

(* size is clipped to _bufSize and that many bytes are copied from _buf;   *)
(* 0 bytes is the end of the stream and changes nothing.                   *)
ReadCopy(b) ==
  LET n == Lesser(rsize[b], bufSize[b]) IN
  /\ rpc[b] = "copy"
  /\ rsize' = [rsize EXCEPT ![b] = n]
  /\ rpc' = [rpc EXCEPT ![b] = IF n = 0 THEN "idle" ELSE "advance"]
  /\ got' = [got EXCEPT ![b] = @ \o [i \in 1..n |-> buf[b] + i - 1]]
  /\ eof' = [eof EXCEPT ![b] = @ \/ n = 0]
  /\ UNCHANGED <<fields, writer, round>>

ReadAdvance(b) ==
  /\ rpc[b] = "advance"
  /\ buf' = [buf EXCEPT ![b] = @ + rsize[b]]
  /\ processed' = [processed EXCEPT ![b] = @ + rsize[b]]
  /\ bufSize' = [bufSize EXCEPT ![b] = @ - rsize[b]]
  /\ waitWrite' = [waitWrite EXCEPT ![b] = @ \/ bufSize'[b] = 0]
  /\ rpc' = [rpc EXCEPT ![b] = IF bufSize'[b] = 0 THEN "reset" ELSE "idle"]
  /\ UNCHANGED <<canWrite, closedEvent, canRead, closed2, rsize, got, eof, writer, round>>

ReadReset_Dropped(b) ==
  /\ rpc[b] = "reset"
  /\ rpc' = [rpc EXCEPT ![b] = "signal"]
  /\ UNCHANGED <<fields, rsize, got, eof, writer, round>>

ReadReset(b) ==
  /\ rpc[b] = "reset"
  /\ canRead' = [canRead EXCEPT ![b] = FALSE]
  /\ rpc' = [rpc EXCEPT ![b] = "signal"]
  /\ UNCHANGED <<canWrite, closedEvent, closed2, waitWrite, buf, bufSize, processed,
                 rsize, got, eof, writer, round>>

ReadSignal(b) ==
  /\ rpc[b] = "signal"
  /\ canWrite' = [canWrite EXCEPT ![b] = TRUE]
  /\ rpc' = [rpc EXCEPT ![b] = "idle"]
  /\ UNCHANGED <<closedEvent, canRead, closed2, waitWrite, buf, bufSize, processed,
                 rsize, got, eof, writer, round>>

CloseRead_NoEvent(b) ==
  /\ rpc[b] = "idle"
  /\ rpc' = [rpc EXCEPT ![b] = "closed"]
  /\ UNCHANGED <<fields, rsize, got, eof, writer, round>>

(* Releasing the CBinderInStream runs CloseRead in its destructor.         *)
CloseRead(b) ==
  /\ rpc[b] = "idle"
  /\ closedEvent' = [closedEvent EXCEPT ![b] = TRUE]
  /\ rpc' = [rpc EXCEPT ![b] = "closed"]
  /\ UNCHANGED <<canWrite, canRead, closed2, waitWrite, buf, bufSize, processed,
                 rsize, got, eof, writer, round>>

-----------------------------------------------------------------------------
(* The writer.                                                             *)

WriteCall(b, size) ==
  /\ wpc[b] = "idle"
  /\ acked[b] + size <= MaxBytes
  /\ IF closed2[b]
     THEN /\ cut' = [cut EXCEPT ![b] = TRUE]
          /\ UNCHANGED <<buf, bufSize, wpc, wsize>>
     ELSE /\ buf' = [buf EXCEPT ![b] = acked[b]]
          /\ bufSize' = [bufSize EXCEPT ![b] = size]
          /\ wsize' = [wsize EXCEPT ![b] = size]
          /\ wpc' = [wpc EXCEPT ![b] = "set"]
          /\ UNCHANGED cut
  /\ UNCHANGED <<canWrite, closedEvent, canRead, closed2, waitWrite, processed,
                 reader, acked, round>>

WriteSet(b) ==
  /\ wpc[b] = "set"
  /\ canRead' = [canRead EXCEPT ![b] = TRUE]
  /\ wpc' = [wpc EXCEPT ![b] = "wait"]
  /\ UNCHANGED <<canWrite, closedEvent, closed2, waitWrite, buf, bufSize, processed,
                 reader, wsize, acked, cut, round>>

(* WaitForMultipleObjects on {_canWrite_Event, _readingWasClosed_Event}:   *)
(* the first signaled handle in that order ends the wait, and _canWrite    *)
(* is consumed only when it is the one.                                    *)
WriteWait(b) ==
  /\ wpc[b] = "wait"
  /\ canWrite[b] \/ closedEvent[b]
  /\ canWrite' = [canWrite EXCEPT ![b] = FALSE]
  /\ wpc' = [wpc EXCEPT ![b] = "return"]
  /\ UNCHANGED <<closedEvent, canRead, closed2, waitWrite, buf, bufSize, processed,
                 reader, wsize, acked, cut, round>>

WriteReturn_AllOfIt(b) ==
  /\ wpc[b] = "return"
  /\ acked' = [acked EXCEPT ![b] = @ + wsize[b]]
  /\ wpc' = [wpc EXCEPT ![b] = "idle"]
  /\ UNCHANGED <<fields, reader, cut, wsize, round>>

(* What the reader left in _bufSize was not processed; a Write of which    *)
(* nothing was processed reports that writing was cut.                     *)
WriteReturn(b) ==
  LET n == wsize[b] - bufSize[b] IN
  /\ wpc[b] = "return"
  /\ acked' = [acked EXCEPT ![b] = @ + n]
  /\ closed2' = [closed2 EXCEPT ![b] = @ \/ n = 0]
  /\ cut' = [cut EXCEPT ![b] = @ \/ n = 0]
  /\ wpc' = [wpc EXCEPT ![b] = "idle"]
  /\ UNCHANGED <<canWrite, closedEvent, canRead, waitWrite, buf, bufSize, processed,
                 reader, wsize, round>>

(* CloseWrite, from the destructor of CBinderOutStream: first the buffer   *)
(* is withdrawn, then _canRead_Event is set.                               *)
CloseWrite(b) ==
  /\ wpc[b] = "idle"
  /\ buf' = [buf EXCEPT ![b] = Null]
  /\ bufSize' = [bufSize EXCEPT ![b] = 0]
  /\ wpc' = [wpc EXCEPT ![b] = "closing"]
  /\ UNCHANGED <<canWrite, closedEvent, canRead, closed2, waitWrite, processed,
                 reader, wsize, acked, cut, round>>

CloseWriteSet(b) ==
  /\ wpc[b] = "closing"
  /\ canRead' = [canRead EXCEPT ![b] = TRUE]
  /\ wpc' = [wpc EXCEPT ![b] = "closed"]
  /\ UNCHANGED <<canWrite, closedEvent, closed2, waitWrite, buf, bufSize, processed,
                 reader, wsize, acked, cut, round>>

-----------------------------------------------------------------------------
(* CMixerMT::ReInit and Init prepare the binder for the next file, once    *)
(* both coders have released their streams.                                *)

ReInit_KeepEvents(b) ==
  /\ rpc[b] = "closed" /\ wpc[b] = "closed" /\ round[b] < MaxRounds
  /\ closed2' = [closed2 EXCEPT ![b] = FALSE]
  /\ waitWrite' = [waitWrite EXCEPT ![b] = TRUE]
  /\ buf' = [buf EXCEPT ![b] = Null]
  /\ bufSize' = [bufSize EXCEPT ![b] = 0]
  /\ processed' = [processed EXCEPT ![b] = 0]
  /\ rpc' = [rpc EXCEPT ![b] = "idle"] /\ wpc' = [wpc EXCEPT ![b] = "idle"]
  /\ acked' = [acked EXCEPT ![b] = 0] /\ got' = [got EXCEPT ![b] = <<>>]
  /\ eof' = [eof EXCEPT ![b] = FALSE] /\ cut' = [cut EXCEPT ![b] = FALSE]
  /\ round' = [round EXCEPT ![b] = @ + 1]
  /\ UNCHANGED <<canWrite, closedEvent, canRead, rsize, wsize>>

ReInit(b) ==
  /\ rpc[b] = "closed" /\ wpc[b] = "closed" /\ round[b] < MaxRounds
  /\ canWrite' = [canWrite EXCEPT ![b] = FALSE]
  /\ canRead' = [canRead EXCEPT ![b] = FALSE]
  /\ closedEvent' = [closedEvent EXCEPT ![b] = FALSE]
  /\ closed2' = [closed2 EXCEPT ![b] = FALSE]
  /\ waitWrite' = [waitWrite EXCEPT ![b] = TRUE]
  /\ buf' = [buf EXCEPT ![b] = Null]
  /\ bufSize' = [bufSize EXCEPT ![b] = 0]
  /\ processed' = [processed EXCEPT ![b] = 0]
  /\ rpc' = [rpc EXCEPT ![b] = "idle"] /\ wpc' = [wpc EXCEPT ![b] = "idle"]
  /\ acked' = [acked EXCEPT ![b] = 0] /\ got' = [got EXCEPT ![b] = <<>>]
  /\ eof' = [eof EXCEPT ![b] = FALSE] /\ cut' = [cut EXCEPT ![b] = FALSE]
  /\ round' = [round EXCEPT ![b] = @ + 1]
  /\ UNCHANGED <<rsize, wsize>>

ReadSteps(b)  == ReadLock(b) \/ ReadCopy(b) \/ ReadAdvance(b) \/ ReadReset(b) \/ ReadSignal(b)
WriteSteps(b) == WriteSet(b) \/ WriteWait(b) \/ WriteReturn(b) \/ CloseWriteSet(b)

Finished == \A b \in Bonds : rpc[b] = "closed" /\ wpc[b] = "closed" /\ round[b] = MaxRounds

Next ==
  \/ \E b \in Bonds :
       \/ \E size \in 1..MaxSize : ReadCall(b, size) \/ WriteCall(b, size)
       \/ ReadSteps(b) \/ CloseRead(b)
       \/ WriteSteps(b) \/ CloseWrite(b)
       \/ ReInit(b)
  \/ Finished /\ UNCHANGED vars

Spec == Init /\ [][Next]_vars

(* A thread inside a call goes on, and each coder releases its streams     *)
(* after finitely many calls (CCoderMT::CReleaser).                        *)
Fairness ==
  \A b \in Bonds : /\ WF_vars(ReadSteps(b)) /\ SF_vars(CloseRead(b))
                   /\ WF_vars(WriteSteps(b)) /\ SF_vars(CloseWrite(b))

FairSpec == Spec /\ Fairness
-----------------------------------------------------------------------------
TypeOK ==
  /\ canWrite \in [Bonds -> BOOLEAN] /\ closedEvent \in [Bonds -> BOOLEAN]
  /\ canRead \in [Bonds -> BOOLEAN] /\ closed2 \in [Bonds -> BOOLEAN]
  /\ waitWrite \in [Bonds -> BOOLEAN]
  /\ buf \in [Bonds -> Nat \cup {Null}] /\ bufSize \in [Bonds -> Nat]
  /\ processed \in [Bonds -> Nat]
  /\ rpc \in [Bonds -> {"idle", "lock", "copy", "advance", "reset", "signal", "closed"}]
  /\ wpc \in [Bonds -> {"idle", "set", "wait", "return", "closing", "closed"}]
  /\ rsize \in [Bonds -> Nat] /\ wsize \in [Bonds -> Nat]
  /\ acked \in [Bonds -> Nat] /\ got \in [Bonds -> Seq(Nat)]
  /\ eof \in [Bonds -> BOOLEAN] /\ cut \in [Bonds -> BOOLEAN]
  /\ round \in [Bonds -> Nat]

(* The reader dereferences _buf only while its owner is blocked inside     *)
(* Write with both events it waits for unsignaled, so that the memory the  *)
(* writer lent cannot be reused or freed under the reader.                 *)
BufferIsLent ==
  \A b \in Bonds :
    (rpc[b] = "copy" /\ bufSize[b] > 0) \/ rpc[b] = "advance" =>
      wpc[b] = "wait" /\ ~canWrite[b] /\ ~closedEvent[b]

(* Everything a coder is told about the bytes that passed the binder: they *)
(* arrive once and in order, Write reports exactly the bytes that were     *)
(* read, the end of the stream is seen only behind the last byte of a      *)
(* closed writer, and writing is cut only by a reader that closed.         *)
Pipe == INSTANCE BytePipe WITH
  delivered <- got,
  readClosed <- [b \in Bonds |-> rpc[b] = "closed"],
  writeClosed <- [b \in Bonds |-> wpc[b] \in {"closing", "closed"}],
  offered <- [b \in Bonds |-> IF wpc[b] \in {"set", "wait", "return"}
                                 THEN acked[b] + wsize[b] ELSE acked[b]]

PipeSpec == Pipe!Spec

(* A blocked Read or Write always returns, whatever the other coder does   *)
(* before it releases its stream.                                          *)
NobodySleepsForever ==
  \A b \in Bonds : /\ rpc[b] = "lock" ~> rpc[b] # "lock"
                   /\ wpc[b] = "wait" ~> wpc[b] # "wait"
-----------------------------------------------------------------------------
(* The inductive invariant behind the two safety properties: which of the  *)
(* two threads the buffer belongs to, told from the events and the pcs.    *)

EventsMatchPcs(b) ==
  /\ closedEvent[b] <=> rpc[b] = "closed"
  /\ rpc[b] \in {"lock", "reset", "signal"} => waitWrite[b]
  /\ rpc[b] \in {"copy", "advance"} => ~waitWrite[b]
  /\ wpc[b] # "wait" => ~canWrite[b]
  /\ canWrite[b] => bufSize[b] = 0
  /\ closed2[b] => rpc[b] = "closed" /\ cut[b]

WithWriter(b) == ~canRead[b] /\ waitWrite[b] /\ rpc[b] \in {"idle", "lock"}

Ownership(b) ==
  rpc[b] # "closed" =>
    /\ wpc[b] \in {"idle", "return", "closing"} => WithWriter(b) /\ bufSize[b] = 0
    /\ wpc[b] = "set" => WithWriter(b) /\ bufSize[b] > 0
    /\ wpc[b] = "wait" =>
         \/ /\ bufSize[b] > 0 /\ canRead[b] /\ ~canWrite[b]
            /\ rpc[b] \in {"idle", "lock", "copy", "advance"}
         \/ bufSize[b] = 0 /\ ~canWrite[b] /\ rpc[b] = "reset"
         \/ bufSize[b] = 0 /\ ~canWrite[b] /\ ~canRead[b] /\ rpc[b] = "signal"
         \/ bufSize[b] = 0 /\ canWrite[b] /\ WithWriter(b)
    /\ wpc[b] = "closed" => /\ bufSize[b] = 0 /\ canRead[b]
                            /\ rpc[b] \in {"idle", "lock", "copy"}

(* How far the bytes have come.                                            *)
Progress(b) ==
  /\ rpc[b] \in {"lock", "copy", "advance"} => rsize[b] > 0
  /\ rpc[b] = "advance" => rsize[b] <= bufSize[b]
  /\ wpc[b] \in {"idle", "closing", "closed"} => Len(got[b]) = acked[b]
  /\ wpc[b] \in {"set", "wait", "return"} =>
       /\ wsize[b] > 0 /\ buf[b] \in Nat
       /\ buf[b] + bufSize[b] = acked[b] + wsize[b]
       /\ buf[b] >= acked[b]
       /\ Len(got[b]) = IF rpc[b] = "advance" THEN buf[b] + rsize[b] ELSE buf[b]

IInv == TypeOK /\ \A b \in Bonds : EventsMatchPcs(b) /\ Ownership(b) /\ Progress(b)
=============================================================================
