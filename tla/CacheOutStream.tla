--------------------------- MODULE CacheOutStream ---------------------------
(***************************************************************************)
(* CCacheOutStream, the write-back cache between the ZIP writer and the    *)
(* archive file: a ring of CacheSize bytes that holds the file's bytes     *)
(* from _cachedPos on.  The writer seeks back to complete headers, and may *)
(* cut the file or write behind its end.                                   *)
(*                                                                         *)
(* One action per access to the file, so that each can fail.               *)
(***************************************************************************)
EXTENDS Integers, Sequences

CONSTANTS
  BlockSize,    \* kCacheBlockSize
  NumBlocks,    \* kCacheSize in blocks
  Bytes,        \* what is written
  MaxSize,      \* bound: size of the file
  MaxWrite,     \* bound: size argument of Write
  MaxShift,     \* bound: how far failed writes leave the file's position ahead of _phyPos
  InitialSizes, \* sizes the file may have when the stream is opened
  FileFaults,   \* the file may refuse to be written or resized ...
  CloseFaults   \* ... and may do so in the destructor

CacheSize == BlockSize * NumBlocks

ASSUME ConstantsAssumption ==
  /\ BlockSize \in Nat \ {0} /\ NumBlocks \in Nat \ {0}
  /\ MaxSize \in Nat /\ MaxWrite \in Nat /\ MaxShift \in Nat
  /\ InitialSizes \subseteq 0..MaxSize /\ {FileFaults, CloseFaults} \subseteq BOOLEAN

VARIABLES
  file,    \* bytes of _stream
  filePos, \* the position _stream really has
  cache,   \* _cache
  s,       \* _virtPos, _virtSize, _phyPos, _phySize, _cachedPos, _cachedSize
  pc,      \* where Write is
  req,     \* its arguments: size, and the value of the bytes
  failed   \* "no", "call" when a call has returned an error, "close" when an access
           \*   of the destructor failed, which nobody is told

vars == <<file, filePos, cache, s, pc, req, failed>>

Zero == 0
Lesser(a, b) == IF a < b THEN a ELSE b
Greater(a, b) == IF a > b THEN a ELSE b
Resized(f, n) == [p \in 1..n |-> IF p <= Len(f) THEN f[p] ELSE Zero]

NoRequest == [size |-> 0, value |-> Zero]

Init ==
  /\ \E n \in InitialSizes :
       /\ file = [p \in 1..n |-> Zero] /\ filePos = n
       /\ s = [virtPos |-> n, virtSize |-> n, phyPos |-> n, phySize |-> n,
               cachedPos |-> 0, cachedSize |-> 0]
  /\ cache = [k \in 0..(CacheSize - 1) |-> Zero]
  /\ pc = "idle" /\ req = NoRequest /\ failed = "no"

CachedEnd == s.cachedPos + s.cachedSize

-----------------------------------------------------------------------------
(* MyWrite: the first n cached bytes go to the file, in two pieces where   *)
(* the ring wraps.                                                         *)

(* Variant for a mutant: the file is moved to the block of the range.       *)
Start_AtBlock ==
  IF s.phyPos # s.cachedPos THEN s.cachedPos - (s.cachedPos % BlockSize) ELSE filePos

Start == IF s.phyPos # s.cachedPos THEN s.cachedPos ELSE filePos

PutCached(n) ==
  file' = [p \in 1..Greater(Len(file), Start + n) |->
             IF p \in (Start + 1)..(Start + n)
             THEN cache[(s.cachedPos + p - 1 - Start) % CacheSize]
             ELSE IF p <= Len(file) THEN file[p] ELSE Zero]

(* The fields after n bytes were written.                                  *)
Counted(n) ==
  [s EXCEPT !.phyPos = s.cachedPos + n, !.phySize = Greater(@, s.cachedPos + n),
            !.cachedPos = @ + n, !.cachedSize = @ - n]

Written(n) == PutCached(n) /\ filePos' = Start + n /\ s' = Counted(n)

(* A write that fails may have written a part, which is not counted; only  *)
(* the piece before the wrap, if there are two, may have been.  _phyPos    *)
(* says nothing of that part: the next write that asks for no Seek goes on *)
(* behind it.                                                              *)
WriteFails(n) ==
  LET piece == CacheSize - (s.cachedPos % CacheSize) IN
  \E k \in 0..(n - 1) :
    /\ PutCached(k) /\ filePos' = Start + k
    /\ s' = IF k >= piece THEN Counted(piece) ELSE [s EXCEPT !.phyPos = s.cachedPos]
    /\ filePos' <= s'.phyPos + MaxShift

(* MyWriteBlock writes up to the next block boundary.                      *)
ToBlockEnd(n) == Lesser(BlockSize - (s.cachedPos % BlockSize), n)

MyWrite(n) ==
  /\ \/ Written(n) /\ UNCHANGED <<pc, req, failed>>
     \/ FileFaults /\ WriteFails(n) /\ pc' = "idle" /\ failed' = "call" /\ req' = NoRequest
  /\ UNCHANGED cache

-----------------------------------------------------------------------------
(* Write.                                                                  *)

(* Calls may follow one that failed: the ZIP writer does not look at the   *)
(* result of every Write.                                                  *)
WriteCall(size, value) ==
  /\ pc = "idle" /\ s.virtPos + size <= MaxSize
  /\ req' = [size |-> size, value |-> value]
  /\ pc' = "flush"
  /\ UNCHANGED <<file, filePos, cache, s, failed>>

NotContiguous_EndOnly ==
  s.cachedSize # 0 /\ CachedEnd < s.virtPos /\ CachedEnd < s.phySize

(* The cache holds one range: a write before it, or behind it with bytes   *)
(* of the file in between, has to empty it first.                          *)
NotContiguous ==
  /\ s.cachedSize # 0
  /\ s.virtPos < s.cachedPos \/ (CachedEnd < s.virtPos /\ CachedEnd < s.phySize)

FlushCache ==
  /\ pc = "flush" /\ NotContiguous
  /\ MyWrite(s.cachedSize)

Contiguous ==
  /\ pc = "flush" /\ ~NotContiguous
  /\ s' = IF s.cachedSize # 0 THEN s
          ELSE [s EXCEPT !.cachedPos = Lesser(s.phySize, s.virtPos)]
  /\ pc' = "zeros"
  /\ UNCHANGED <<file, filePos, cache, req, failed>>

Gap == s.virtPos - CachedEnd

ZerosNow == Lesser(CacheSize - (CachedEnd % CacheSize), Gap)

(* Room for zeros, or for the bytes to append to a full cache.             *)
Evict ==
  /\ \/ pc = "zeros" /\ Gap > 0 /\ ZerosNow > CacheSize - s.cachedSize
     \/ pc = "store" /\ Gap = 0 /\ s.cachedSize = CacheSize
  /\ MyWrite(ToBlockEnd(s.cachedSize))

(* Zeros up to _virtPos, one piece of the ring at a time.                  *)
WriteZeros ==
  /\ pc = "zeros"
  /\ IF Gap <= 0
     THEN pc' = "store" /\ UNCHANGED <<cache, s>>
     ELSE /\ ZerosNow <= CacheSize - s.cachedSize
          /\ cache' = [k \in DOMAIN cache |->
               IF k \in (CachedEnd % CacheSize)..((CachedEnd % CacheSize) + ZerosNow - 1)
               THEN Zero ELSE cache[k]]
          /\ s' = [s EXCEPT !.cachedSize = @ + ZerosNow]
          /\ UNCHANGED pc
  /\ UNCHANGED <<file, filePos, req, failed>>

(* How many bytes fit in one piece: over cached ones, or behind them up to *)
(* the end of the ring or the start of the cached range.                   *)
Room ==
  LET pos == s.virtPos % CacheSize
      startPos == s.cachedPos % CacheSize IN
  IF Gap < 0 THEN Lesser(CacheSize - pos, CachedEnd - s.virtPos)
  ELSE IF startPos > pos THEN startPos - pos
  ELSE CacheSize - pos

Store ==
  LET n == Lesser(req.size, Room)
      pos == s.virtPos % CacheSize
      end == s.virtPos + n IN
  /\ pc = "store" /\ ~(Gap = 0 /\ s.cachedSize = CacheSize)
  /\ cache' = [k \in DOMAIN cache |-> IF k \in pos..(pos + n - 1) THEN req.value ELSE cache[k]]
  /\ s' = [s EXCEPT !.virtPos = end, !.virtSize = Greater(@, end),
                    !.cachedSize = Greater(@, end - s.cachedPos)]
  /\ pc' = "idle" /\ req' = NoRequest
  /\ UNCHANGED <<file, filePos, failed>>

-----------------------------------------------------------------------------
(* Seek, SetSize and the destructor.                                       *)

Seek(pos) ==
  /\ pc = "idle"
  /\ s' = [s EXCEPT !.virtPos = pos]
  /\ UNCHANGED <<file, filePos, cache, pc, req, failed>>

(* _stream->SetSize keeps the position; what is cached behind the new end  *)
(* is forgotten.                                                           *)
SetSize(n) ==
  LET dropped == n <= s.cachedPos IN
  /\ pc = "idle"
  /\ \/ /\ s' = [s EXCEPT !.virtSize = n, !.phySize = Lesser(@, n),
                          !.cachedPos = IF dropped THEN n ELSE @,
                          !.cachedSize = IF dropped THEN 0 ELSE Lesser(@, n - s.cachedPos)]
        /\ file' = Resized(file, IF n < s.phySize THEN n ELSE Len(file))
        /\ UNCHANGED failed
     \/ /\ FileFaults /\ n < s.phySize
        /\ s' = [s EXCEPT !.virtSize = n] /\ failed' = "call"
        /\ UNCHANGED file
  /\ UNCHANGED <<filePos, cache, pc, req>>

HiddenFailure == failed' = IF failed = "no" THEN "close" ELSE failed

(* The destructor cannot report that its flush or its resize failed.       *)
FinalFlush ==
  /\ pc = "idle"
  /\ \/ s.cachedSize = 0 /\ UNCHANGED <<file, filePos, s, failed>>
     \/ s.cachedSize # 0 /\ Written(s.cachedSize) /\ UNCHANGED failed
     \/ CloseFaults /\ WriteFails(s.cachedSize) /\ HiddenFailure
  /\ pc' = "resize"
  /\ UNCHANGED <<cache, req>>

FinalResize ==
  /\ pc = "resize"
  /\ \/ file' = (IF s.virtSize # s.phySize THEN Resized(file, s.virtSize) ELSE file)
        /\ UNCHANGED failed
     \/ CloseFaults /\ s.virtSize # s.phySize /\ UNCHANGED file /\ HiddenFailure
  /\ filePos' = IF s.virtPos # s.phyPos THEN s.virtPos ELSE filePos
  /\ pc' = "closed"
  /\ UNCHANGED <<cache, s, req>>

Next ==
  \/ \E size \in 1..MaxWrite, value \in Bytes : WriteCall(size, value)
  \/ FlushCache \/ Contiguous \/ Evict \/ WriteZeros \/ Store
  \/ \E n \in 0..MaxSize : Seek(n) \/ SetSize(n)
  \/ FinalFlush \/ FinalResize

Spec == Init /\ [][Next]_vars

FairSpec == Spec /\ WF_vars(FlushCache \/ Contiguous \/ Evict \/ WriteZeros \/ Store)

-----------------------------------------------------------------------------
(* Properties.                                                             *)

TypeOK ==
  /\ file \in Seq(Bytes \cup {Zero}) /\ filePos \in Nat
  /\ cache \in [0..(CacheSize - 1) -> Bytes \cup {Zero}]
  /\ s \in [virtPos : 0..MaxSize, virtSize : 0..MaxSize, phyPos : 0..MaxSize,
            phySize : 0..MaxSize, cachedPos : 0..MaxSize, cachedSize : 0..CacheSize]
  /\ pc \in {"idle", "flush", "zeros", "store", "resize", "closed"}
  /\ req \in [size : 0..MaxWrite, value : Bytes \cup {Zero}]
  /\ failed \in {"no", "call", "close"}

(* What the comments on the fields say, between calls as long as none has  *)
(* failed: the file is not longer than the stream and the cached range     *)
(* ends inside the stream.  The range also starts inside the file:         *)
(* flushing it leaves no hole.  The types of all fields are part of it.    *)
FieldsAgree ==
  /\ TypeOK
  /\ pc = "idle" /\ failed = "no" =>
    /\ s.phySize <= s.virtSize /\ s.phySize = Len(file) /\ s.phyPos = filePos
    /\ CachedEnd <= s.virtSize
    /\ s.cachedSize # 0 => s.cachedPos <= s.phySize

(* The bytes a reader of the stream would see.                             *)
View ==
  [p \in 1..s.virtSize |->
     IF p \in (s.cachedPos + 1)..CachedEnd THEN cache[(p - 1) % CacheSize]
     ELSE IF p <= Lesser(s.phySize, Len(file)) THEN file[p] ELSE Zero]

(* To the writer a file that lost bytes in the destructor is as good as    *)
(* the one it wrote.                                                       *)
Plain == INSTANCE PlainFile WITH
  content <- CASE failed = "call" -> <<>>
               [] pc = "closed" /\ failed = "no" -> file
               [] OTHER -> View,
  position <- IF failed = "call" THEN 0 ELSE s.virtPos, open <- pc # "closed" /\ failed # "call"

(* Write always gets through its loops.                                    *)
WriteReturns == (pc \in {"flush", "zeros", "store"}) ~> (pc = "idle")

(* With the cache in between, the archive file ends up as it would without *)
(* it, unless an access to the file has failed; and every write returns.   *)
PlainFileSpec == Plain!Spec /\ WriteReturns

(* What a failure in the destructor can take is what is still cached: with *)
(* either of its two accesses to the file, failed or not, every other byte *)
(* of the stream is in the file, where zeros at the end may be missing.    *)
(* And bytes in front of the cached range are never written again, not     *)
(* even by calls and the destructor after a write that failed half way and *)
(* left the file at a position _phyPos does not know.  Until a call fails, *)
(* the fields agree with the file.                                         *)
OnlyCacheIsLost ==
  /\ []FieldsAgree
  /\ [][/\ failed # "call" /\ pc' # pc /\ pc' \in {"resize", "closed"} =>
             \A p \in DOMAIN View \ ((s.cachedPos + 1)..CachedEnd) :
               View[p] = IF p <= Len(file') THEN file'[p] ELSE Zero
        /\ \A p \in 1..Lesser(s.cachedPos, Len(file)) :
             p <= Len(file') => file'[p] = file[p]]_vars
=============================================================================
