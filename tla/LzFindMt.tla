------------------------------- MODULE LzFindMt -------------------------------
(***************************************************************************)
(* The multithreaded match finder of C/LzFindMt.c.  The hash thread reads  *)
(* the input into a window and produces blocks of hash heads; the tree     *)
(* thread makes of them blocks of matches; the encoder consumes those      *)
(* position by position.  Each of the two links is a CMtSync: a ring of    *)
(* blocks, two semaphores, events to start and stop, and a critical        *)
(* section the consumer holds while it looks at the window, so that the    *)
(* hash thread can move the window when it has both sections.              *)
(*                                                                         *)
(* Bytes are their positions in the input, from 0.  The matches themselves *)
(* are abstracted to how many positions fit into a block of them.          *)
(***************************************************************************)
EXTENDS Integers, FiniteSetsExt

CONSTANTS
  HistorySize,    \* how far back a match may reach
  MatchMaxLen,    \* how far ahead
  NumHashBytes,   \* bytes hashed at a position
  HashBlockSize, HashNumBlocks,  \* kMtHash...: positions in a block, blocks in the ring
  BtBlockSize, BtNumBlocks,      \* kMtBt...
  BtLimit,        \* limit of BtGetMatches: positions that fill a block of matches
  SizeReserv,     \* bytes of the window beyond what must be kept
  MaxRounds,      \* bound: inputs coded with the same match finder
  Lens,           \* bound: how many bytes the first, second, ... of them may have
  MaxEnds,        \* bound: how often an encoder is told that nothing is available: LZMA
                  \*   stops at the first time, LZMA2 asks once more for its next chunk
  SetupFaults,    \* a thread may not be created
  ReadFaults      \* the input stream may fail

ASSUME ConstantsAssumption ==
  /\ {HistorySize, MaxRounds, MaxEnds} \subseteq Nat /\ Lens \in [1..MaxRounds -> SUBSET Nat]
  /\ {MatchMaxLen, NumHashBytes, HashBlockSize, HashNumBlocks, BtBlockSize, BtNumBlocks, BtLimit,
      SizeReserv} \subseteq Nat \ {0}
  /\ NumHashBytes \in 2..MatchMaxLen /\ NumHashBytes <= HashBlockSize + 1
  /\ BtLimit + NumHashBytes <= BtBlockSize + 2
  /\ {SetupFaults, ReadFaults} \subseteq BOOLEAN

VARIABLES
  pc,    \* where the threads "main", "bt" and "hash" are
  sync,  \* the CMtSync "bt" (main reads what bt writes) and "hash" (bt reads it)
  mf,    \* CMatchFinder: base (position of bufferBase), pos, streamPos,
         \*   streamEndWasReached, result, blocks filled
  buf,   \* hashBuf and btBuf, by slot: first position, positions, bytes available
  bt,    \* the tree thread: blocks filled, pos, the hash block it is in (slot, heads
         \*   left, hashNumAvail), and the block it fills (first, count, availOut)
  main   \* the encoder: len of the input, the block it is in, lzPos, and how often it
         \*   was told that nothing is available

vars == <<pc, sync, mf, buf, bt, main>>

Links == {"bt", "hash"}
Consumer(s) == IF s = "bt" THEN "main" ELSE "bt"
RingSize(s) == IF s = "bt" THEN BtNumBlocks ELSE HashNumBlocks

(* Variant for a mutant: room for the blocks of the tree thread forgotten.  *)
KeepSizeBefore_NoBt == HistorySize + HashBlockSize * HashNumBlocks + 1

(* MatchFinderMt_Create: bytes behind and ahead of pos that a move keeps.  *)
KeepSizeBefore ==
  HistorySize + HashBlockSize * HashNumBlocks + BtBlockSize * BtNumBlocks + 1
KeepSizeAfter == MatchMaxLen + HashBlockSize
BlockSize == KeepSizeBefore + KeepSizeAfter + SizeReserv

Rested(s) ==
  [needStart |-> TRUE, exit |-> FALSE, stopWriting |-> FALSE, canStart |-> FALSE,
   wasStarted |-> FALSE, wasStopped |-> FALSE, free |-> RingSize(s), filled |-> 0,
   cs |-> "nobody", csWasEntered |-> FALSE, numProcessed |-> 0, mine |-> 0]

NewWindow == [base |-> 0, pos |-> 0, streamPos |-> 0, ended |-> FALSE, result |-> "ok",
              blocks |-> 0]
NewTree == [blocks |-> 0, pos |-> 0, slot |-> 0, left |-> 0, avail |-> 0,
            first |-> 0, count |-> 0, availOut |-> 0]
NewMain(len) == [len |-> len, slot |-> 0, left |-> 0, avail |-> 0, lzPos |-> 0, ends |-> 0]
Garbage == [from |-> -1, num |-> 0, avail |-> 0]

Init ==
  /\ pc = [main |-> "idle", bt |-> "none", hash |-> "none", round |-> 0]
  /\ sync = [s \in Links |-> Rested(s)]
  /\ mf = NewWindow /\ bt = NewTree /\ main = NewMain(0)
  /\ buf = [s \in Links |-> [k \in 0..(RingSize(s) - 1) |-> Garbage]]

Goto(t, where) == pc' = [pc EXCEPT ![t] = where]

-----------------------------------------------------------------------------
(* MtSync_GetNextBlock and MtSync_StopWriting, called by the consumer.     *)

GetFirst(s) ==
  /\ pc[Consumer(s)] = "get" /\ sync[s].needStart
  /\ sync' = [sync EXCEPT ![s] = [@ EXCEPT !.numProcessed = 1, !.needStart = FALSE,
       !.stopWriting = FALSE, !.exit = FALSE, !.wasStarted = FALSE, !.wasStopped = FALSE,
       !.canStart = TRUE]]
  /\ Goto(Consumer(s), "started")
  /\ UNCHANGED <<mf, buf, bt, main>>

AwaitStarted(s) ==
  /\ pc[Consumer(s)] = "started" /\ sync[s].wasStarted
  /\ sync' = [sync EXCEPT ![s].wasStarted = FALSE]
  /\ Goto(Consumer(s), "filled")
  /\ UNCHANGED <<mf, buf, bt, main>>

GetNext(s) ==
  /\ pc[Consumer(s)] = "get" /\ ~sync[s].needStart
  /\ sync' = [sync EXCEPT ![s] = [@ EXCEPT !.cs = "nobody", !.csWasEntered = FALSE,
       !.numProcessed = sync[s].numProcessed + 1, !.free = sync[s].free + 1]]
  /\ Goto(Consumer(s), "filled")
  /\ UNCHANGED <<mf, buf, bt, main>>

TakeFilled(s) ==
  /\ pc[Consumer(s)] = "filled" /\ sync[s].filled > 0
  /\ sync' = [sync EXCEPT ![s].filled = @ - 1]
  /\ Goto(Consumer(s), "enter")
  /\ UNCHANGED <<mf, buf, bt, main>>

(* Variant for a mutant: the slot is counted from the block after.          *)
EnterCS_NextSlot(s) ==
  LET k == sync[s].numProcessed % RingSize(s)
      b == buf[s][k] IN
  /\ pc[Consumer(s)] = "enter" /\ sync[s].cs = "nobody"
  /\ sync' = [sync EXCEPT ![s].cs = Consumer(s), ![s].csWasEntered = TRUE]
  /\ IF s = "bt"
     THEN /\ main' = [main EXCEPT !.slot = k, !.left = b.num, !.avail = b.avail,
                                  !.ends = IF b.avail = 0 THEN @ + 1 ELSE @]
          /\ UNCHANGED bt
     ELSE /\ bt' = [bt EXCEPT !.slot = k, !.left = b.num, !.avail = b.avail,
                              !.availOut = bt.count + b.avail]
          /\ UNCHANGED main
  /\ Goto(Consumer(s), "got")
  /\ UNCHANGED <<mf, buf>>

(* The consumer's look at the head of the block is part of this step:      *)
(* nobody else touches the block or the consumer's fields.                 *)
EnterCS(s) ==
  LET k == (sync[s].numProcessed - 1) % RingSize(s)
      b == buf[s][k] IN
  /\ pc[Consumer(s)] = "enter" /\ sync[s].cs = "nobody"
  /\ sync' = [sync EXCEPT ![s].cs = Consumer(s), ![s].csWasEntered = TRUE]
  /\ IF s = "bt"
     THEN /\ main' = [main EXCEPT !.slot = k, !.left = b.num, !.avail = b.avail,
                                  !.ends = IF b.avail = 0 THEN @ + 1 ELSE @]
          /\ UNCHANGED bt
     ELSE /\ bt' = [bt EXCEPT !.slot = k, !.left = b.num, !.avail = b.avail,
                              !.availOut = bt.count + b.avail]
          /\ UNCHANGED main
  /\ Goto(Consumer(s), "got")
  /\ UNCHANGED <<mf, buf>>

(* Variant for a mutant: the critical section is kept.                      *)
StopWriting_KeepCS(s) ==
  /\ pc[Consumer(s)] = "stop"
  /\ IF sync[s].needStart
     THEN Goto(Consumer(s), "stopped") /\ UNCHANGED sync
     ELSE /\ sync' = [sync EXCEPT ![s] = [@ EXCEPT !.stopWriting = TRUE,
                        !.free = sync[s].free + 1,
                        !.mine = sync[s].numProcessed]]
          /\ Goto(Consumer(s), "wait")
  /\ UNCHANGED <<mf, buf, bt, main>>

StopWriting(s) ==
  /\ pc[Consumer(s)] = "stop"
  /\ IF sync[s].needStart
     THEN Goto(Consumer(s), "stopped") /\ UNCHANGED sync
     ELSE /\ sync' = [sync EXCEPT ![s] = [@ EXCEPT !.stopWriting = TRUE,
                        !.free = sync[s].free + 1,
                        !.mine = sync[s].numProcessed, !.csWasEntered = FALSE,
                        !.cs = IF sync[s].csWasEntered THEN "nobody" ELSE sync[s].cs]]
          /\ Goto(Consumer(s), "wait")
  /\ UNCHANGED <<mf, buf, bt, main>>

(* Variant for a mutant: the blocks the consumer never had are left.        *)
AwaitStopped_LeaveBlocks(s) ==
  /\ pc[Consumer(s)] = "wait" /\ sync[s].wasStopped
  /\ sync' = [sync EXCEPT ![s] = [@ EXCEPT !.wasStopped = FALSE, !.needStart = TRUE,
       !.numProcessed = 0, !.mine = 0]]
  /\ Goto(Consumer(s), "stopped")
  /\ UNCHANGED <<mf, buf, bt, main>>

(* The writer is at its start again, and numProcessedBlocks is what it     *)
(* wrote: each block the consumer never had is taken and freed.  Both      *)
(* counts are dead from here on.                                           *)
AwaitStopped(s) ==
  LET rest == sync[s].numProcessed - sync[s].mine IN
  /\ pc[Consumer(s)] = "wait" /\ sync[s].wasStopped /\ sync[s].filled >= rest
  /\ sync' = [sync EXCEPT ![s] = [@ EXCEPT !.wasStopped = FALSE, !.needStart = TRUE,
       !.filled = sync[s].filled - rest, !.free = sync[s].free + rest,
       !.numProcessed = 0, !.mine = 0]]
  /\ Goto(Consumer(s), "stopped")
  /\ UNCHANGED <<mf, buf, bt, main>>

(* The common head of HashThreadFunc and BtThreadFunc; thread s fills s.   *)
ThreadStart(s) ==
  /\ pc[s] = "start" /\ sync[s].canStart
  /\ sync' = [sync EXCEPT ![s].canStart = FALSE, ![s].wasStarted = TRUE]
  /\ Goto(s, "check")
  /\ IF s = "bt" THEN bt' = [bt EXCEPT !.blocks = 0] /\ UNCHANGED mf
                 ELSE mf' = [mf EXCEPT !.blocks = 0] /\ UNCHANGED bt
  /\ UNCHANGED <<buf, main>>

ThreadExit(s) ==
  /\ pc[s] = "check" /\ sync[s].exit
  /\ Goto(s, "exited")
  /\ UNCHANGED <<sync, mf, buf, bt, main>>

TakeFree(s) ==
  /\ pc[s] = "free" /\ sync[s].free > 0
  /\ sync' = [sync EXCEPT ![s].free = @ - 1]
  /\ Goto(s, "fill")
  /\ UNCHANGED <<mf, buf, bt, main>>

LinkStep(s) == GetFirst(s) \/ AwaitStarted(s) \/ GetNext(s) \/ TakeFilled(s)
               \/ EnterCS(s) \/ StopWriting(s) \/ AwaitStopped(s)

-----------------------------------------------------------------------------
(* HashThreadFunc.                                                         *)

HashStop ==
  /\ pc.hash = "check" /\ ~sync.hash.exit /\ sync.hash.stopWriting
  /\ sync' = [sync EXCEPT !.hash.numProcessed = mf.blocks, !.hash.wasStopped = TRUE]
  /\ Goto("hash", "start")
  /\ UNCHANGED <<mf, buf, bt, main>>

HashGoesOn == pc.hash = "check" /\ ~sync.hash.exit /\ ~sync.hash.stopWriting

NeedMove == mf.base + BlockSize - mf.pos <= KeepSizeAfter

HashCheck ==
  /\ HashGoesOn
  /\ Goto("hash", IF NeedMove THEN "enterBt" ELSE "free")
  /\ UNCHANGED <<sync, mf, buf, bt, main>>

EnterBtCS ==
  /\ pc.hash = "enterBt" /\ sync.bt.cs = "nobody"
  /\ sync' = [sync EXCEPT !.bt.cs = "hash"]
  /\ Goto("hash", "enterHash")
  /\ UNCHANGED <<mf, buf, bt, main>>

EnterHashCS ==
  /\ pc.hash = "enterHash" /\ sync.hash.cs = "nobody"
  /\ sync' = [sync EXCEPT !.hash.cs = "hash"]
  /\ Goto("hash", "move")
  /\ UNCHANGED <<mf, buf, bt, main>>

(* MatchFinder_MoveBlock; the pointers of the other two are moved along,   *)
(* so that they keep the positions they have.                              *)
MoveBlock ==
  /\ pc.hash = "move"
  /\ mf' = [mf EXCEPT !.base = mf.pos - KeepSizeBefore]
  /\ sync' = [sync EXCEPT !.bt.cs = "nobody", !.hash.cs = "nobody"]
  /\ Goto("hash", "check")
  /\ UNCHANGED <<buf, bt, main>>

(* MatchFinder_ReadIfRequired and ReadBlock: the window with more bytes.   *)
Reads ==
  LET room == mf.base + BlockSize
      top  == IF main.len < room THEN main.len ELSE room IN
  IF mf.ended \/ mf.result # "ok" \/ mf.streamPos - mf.pos > KeepSizeAfter
  THEN {mf}
  ELSE {[mf EXCEPT !.streamPos = p] :
           p \in {q \in mf.streamPos..top : q - mf.pos > KeepSizeAfter \/ q = room}}
       \cup (IF top < room /\ top - mf.pos <= KeepSizeAfter
             THEN {[mf EXCEPT !.streamPos = top, !.ended = TRUE]} ELSE {})
       \cup (IF ReadFaults
             THEN {[mf EXCEPT !.streamPos = p, !.result = "read"] :
                     p \in {q \in mf.streamPos..top : q - mf.pos <= KeepSizeAfter}}
             ELSE {})

(* Heads in a block, for a window with num bytes ahead; the last bytes,    *)
(* too few to be hashed, are passed over and only counted.                 *)
NumHeads(num) ==
  IF num < NumHashBytes THEN 0 ELSE Min({num - NumHashBytes + 1, HashBlockSize})

FillHashBlock ==
  /\ pc.hash = "fill"
  /\ \E w \in Reads :
       LET num == w.streamPos - w.pos IN
       /\ buf' = [buf EXCEPT !.hash[mf.blocks % HashNumBlocks] =
                    [from |-> w.pos, num |-> NumHeads(num), avail |-> num]]
       /\ mf' = [w EXCEPT !.blocks = @ + 1,
                          !.pos = @ + IF num < NumHashBytes THEN num ELSE NumHeads(num)]
  /\ sync' = [sync EXCEPT !.hash.filled = @ + 1]
  /\ Goto("hash", "check")
  /\ UNCHANGED <<bt, main>>

HashStep == HashStop \/ HashCheck \/ EnterBtCS \/ EnterHashCS \/ MoveBlock \/ FillHashBlock

-----------------------------------------------------------------------------
(* BtThreadFunc, BtFillBlock and BtGetMatches.                             *)

(* numProcessedBlocks is set, then the hash thread is stopped, then main   *)
(* is told.                                                                *)
BtStop ==
  /\ pc.bt = "check" /\ ~sync.bt.exit /\ sync.bt.stopWriting
  /\ sync' = [sync EXCEPT !.bt.numProcessed = bt.blocks]
  /\ Goto("bt", "stop")
  /\ UNCHANGED <<mf, buf, bt, main>>

BtStopped ==
  /\ pc.bt = "stopped"
  /\ sync' = [sync EXCEPT !.bt.wasStopped = TRUE]
  /\ Goto("bt", "start")
  /\ UNCHANGED <<mf, buf, bt, main>>

BtCheck ==
  /\ pc.bt = "check" /\ ~sync.bt.exit /\ ~sync.bt.stopWriting
  /\ Goto("bt", "free")
  /\ UNCHANGED <<sync, mf, buf, bt, main>>

(* From here on the slot holds nothing that main may use.  BtGetMatches    *)
(* goes on in the hash block it left, or takes the next.                   *)
BtFillBlock ==
  /\ pc.bt = "fill"
  /\ sync.hash.needStart \/ sync.hash.cs = "nobody"
  /\ sync' = IF sync.hash.needStart THEN sync
             ELSE [sync EXCEPT !.hash.cs = "bt", !.hash.csWasEntered = TRUE]
  /\ buf' = [buf EXCEPT !.bt[bt.blocks % BtNumBlocks] = Garbage]
  /\ bt' = [bt EXCEPT !.first = bt.pos, !.count = 0, !.availOut = bt.avail]
  /\ Goto("bt", IF bt.left = 0 THEN "get" ELSE "matches")
  /\ UNCHANGED <<mf, main>>

(* Some positions of the hash block; how many fit depends on the matches.  *)
(* The block is full, or there is room and the hash block is used up.      *)
FindMatches ==
  /\ pc.bt = "matches"
  /\ \E m \in 1..Min({bt.left, BtLimit - bt.count}) :
       /\ bt' = [bt EXCEPT !.pos = @ + m, !.left = @ - m, !.avail = @ - m, !.count = @ + m]
       /\ \/ Goto("bt", "leave")
          \/ m = bt.left /\ bt.count + m < BtLimit /\ Goto("bt", "get")
  /\ UNCHANGED <<sync, mf, buf, main>>

(* A hash block with too few bytes to hash ends the block of matches with  *)
(* as many positions without a match.                                      *)
GotHashBlock ==
  /\ pc.bt = "got"
  /\ IF bt.avail >= NumHashBytes
     THEN Goto("bt", "matches") /\ UNCHANGED bt
     ELSE /\ bt' = [bt EXCEPT !.count = @ + bt.avail, !.avail = 0]
          /\ Goto("bt", "leave")
  /\ UNCHANGED <<sync, mf, buf, main>>

BtBlockDone ==
  /\ pc.bt = "leave"
  /\ buf' = [buf EXCEPT !.bt[bt.blocks % BtNumBlocks] =
               [from |-> bt.first, num |-> bt.count, avail |-> bt.availOut]]
  /\ bt' = [bt EXCEPT !.blocks = @ + 1]
  /\ sync' = [sync EXCEPT !.hash.cs = IF sync.hash.needStart THEN @ ELSE "nobody",
       !.hash.csWasEntered = IF sync.hash.needStart THEN @ ELSE FALSE, !.bt.filled = @ + 1]
  /\ Goto("bt", "check")
  /\ UNCHANGED <<mf, main>>

BtStep == BtStop \/ BtStopped \/ BtCheck \/ BtFillBlock \/ FindMatches \/ GotHashBlock
          \/ BtBlockDone

-----------------------------------------------------------------------------
(* The encoder: LzmaEnc_Prepare, LzmaEnc_CodeOneBlock, LzmaEnc_Finish and  *)
(* LzmaEnc_Destruct, as far as they use the match finder.                  *)

(* MatchFinderMt_Create keeps threads that exist.                          *)
Create ==
  /\ pc.main = "idle" /\ pc.round < MaxRounds
  /\ \/ pc' = [pc EXCEPT !.main = "init", !.round = @ + 1,
                 !.hash = IF @ = "none" THEN "start" ELSE @,
                 !.bt = IF @ = "none" THEN "start" ELSE @]
     \/ /\ SetupFaults /\ pc.bt = "none"
        /\ \E h \in {pc.hash, "start"} : pc' = [pc EXCEPT !.round = @ + 1, !.hash = h]
  /\ UNCHANGED <<sync, mf, buf, bt, main>>

(* MatchFinderMt_Init.  The blocks are left as they are; here they become  *)
(* Garbage, as nothing may be read of them before it is written.           *)
InitStream ==
  /\ pc.main = "init"
  /\ mf' = NewWindow /\ bt' = NewTree
  /\ buf' = [s \in Links |-> [k \in 0..(RingSize(s) - 1) |-> Garbage]]
  /\ \E len \in Lens[pc.round] : main' = NewMain(len)
  /\ Goto("main", "get")
  /\ UNCHANGED sync

(* GetMatches or Skip for one position.                                    *)
GetMatches ==
  /\ pc.main = "got" /\ main.left > 0
  /\ main' = [main EXCEPT !.left = @ - 1, !.avail = @ - 1, !.lzPos = @ + 1]
  /\ UNCHANGED <<pc, sync, mf, buf, bt>>

(* The block is used up, and the next one is needed to answer: also after  *)
(* the last byte, where that is an empty one.                              *)
GetNumAvailableBytes ==
  /\ pc.main = "got" /\ main.left = 0 /\ main.ends < MaxEnds
  /\ Goto("main", "get")
  /\ UNCHANGED <<sync, mf, buf, bt, main>>

(* Nothing is available any more, or the encoder fails.                    *)
Finish ==
  /\ pc.main = "got"
  /\ Goto("main", "stop")
  /\ UNCHANGED <<sync, mf, buf, bt, main>>

Finished ==
  /\ pc.main = "stopped"
  /\ Goto("main", "idle")
  /\ UNCHANGED <<sync, mf, buf, bt, main>>

(* MatchFinderMt_Destruct: the hash thread first, then the tree thread.    *)
Destruct ==
  /\ pc.main = "idle"
  /\ Goto("main", "endHash")
  /\ UNCHANGED <<sync, mf, buf, bt, main>>

EndThread(s, here, join, next) ==
  /\ pc.main = here
  /\ IF pc[s] = "none"
     THEN Goto("main", next) /\ UNCHANGED sync
     ELSE /\ sync' = [sync EXCEPT ![s].exit = TRUE, ![s].canStart = TRUE]
          /\ Goto("main", join)
  /\ UNCHANGED <<mf, buf, bt, main>>

JoinThread(s, join, next) ==
  /\ pc.main = join /\ pc[s] = "exited"
  /\ Goto("main", next)
  /\ UNCHANGED <<sync, mf, buf, bt, main>>

MainStep ==
  \/ Create \/ InitStream \/ GetMatches \/ GetNumAvailableBytes \/ Finish \/ Finished
  \/ Destruct
  \/ EndThread("hash", "endHash", "joinHash", "endBt") \/ JoinThread("hash", "joinHash", "endBt")
  \/ EndThread("bt", "endBt", "joinBt", "done") \/ JoinThread("bt", "joinBt", "done")

ThreadStep(t) ==
  CASE t = "main" -> MainStep \/ LinkStep("bt")
    [] t = "bt"   -> ThreadStart("bt") \/ ThreadExit("bt") \/ TakeFree("bt") \/ BtStep
                     \/ LinkStep("hash")
    [] t = "hash" -> ThreadStart("hash") \/ ThreadExit("hash") \/ TakeFree("hash") \/ HashStep

Next == \E t \in {"main", "bt", "hash"} : ThreadStep(t)

Spec == Init /\ [][Next]_vars

(* Every thread that can go on does.                                       *)
FairSpec == Spec /\ \A t \in {"main", "bt", "hash"} : WF_vars(ThreadStep(t))

-----------------------------------------------------------------------------
(* Properties.                                                             *)

InStream == pc.main \notin {"idle", "init", "done", "endHash", "joinHash", "endBt", "joinBt"}

TypeOK ==
  /\ pc.round \in 0..MaxRounds
  /\ \A s \in Links :
       sync[s] \in [needStart : BOOLEAN, exit : BOOLEAN, stopWriting : BOOLEAN,
                    canStart : BOOLEAN, wasStarted : BOOLEAN, wasStopped : BOOLEAN,
                    free : 0..RingSize(s), filled : 0..RingSize(s),
                    cs : {"nobody", "hash", Consumer(s)}, csWasEntered : BOOLEAN,
                    numProcessed : Nat, mine : Nat]
  /\ mf \in [base : 0..main.len, pos : 0..main.len, streamPos : 0..main.len, ended : BOOLEAN,
             result : {"ok", "read"}, blocks : Nat]
  /\ bt.left \in 0..HashBlockSize /\ bt.avail \in 0..main.len /\ bt.pos \in 0..main.len
  /\ bt.count \in 0..(BtBlockSize + NumHashBytes)
  /\ main.left \in 0..(BtBlockSize + NumHashBytes) /\ main.avail \in 0..main.len

(* Each consumer reads what was made for the position it is at, out of a   *)
(* slot the producer has not begun to fill again; it never believes in     *)
(* more bytes than were read; and the encoder is told that nothing is      *)
(* available only at the end of the input or of what could be read of it.  *)
StreamIsFollowed ==
  /\ pc.bt = "matches" =>
       LET b == buf.hash[bt.slot] IN b.from + b.num - bt.left = bt.pos
  /\ pc.main = "got" =>
       LET b == buf.bt[main.slot] IN
       /\ main.left > 0 => b.from + b.num - main.left = main.lzPos
       /\ main.left <= main.avail /\ main.lzPos + main.avail <= mf.streamPos
       /\ main.avail = 0 =>
            main.lzPos = IF mf.result = "ok" THEN main.len ELSE mf.streamPos

(* The window is moved only while neither of the readers looks at it, and  *)
(* a move never drops what a reader, however far it lags behind the hash   *)
(* thread, may still refer to.  (A reader that waits for its producer to   *)
(* stop has freed the block it was in and refers to nothing; the window    *)
(* may be moved away from under it.)  The types of all fields, which bound *)
(* the counts by their buffers, are part of the invariant.                 *)
WindowIsKept ==
  /\ TypeOK
  /\ InStream =>
    /\ pc.hash = "move" => pc.main # "got" /\ pc.bt \notin {"got", "matches", "leave"}
    /\ mf.base > 0 =>
         /\ pc.main \notin {"wait", "stopped"} => mf.base <= main.lzPos - HistorySize
         /\ pc.bt \notin {"start", "wait", "stopped"} => mf.base <= bt.pos - HistorySize
    /\ mf.streamPos <= mf.base + BlockSize

(* Between two inputs both threads are back at their start, both rings are *)
(* empty and their semaphores count what they counted at first, and nobody *)
(* is left in a critical section: MatchFinderMt_Init and _Destruct, which  *)
(* take no lock, have everything for themselves.                           *)
ThreadsAtRest ==
  pc.main \in {"idle", "init"} =>
    /\ pc.bt \in {"none", "start"} /\ pc.hash \in {"none", "start"}
    /\ \A s \in Links :
         sync[s] = [Rested(s) EXCEPT !.stopWriting = sync[s].stopWriting]

(* Whatever is called comes back: a block arrives, the threads stop, and   *)
(* the destructor joins them.                                              *)
CallsReturn == pc.main \notin {"idle", "got", "done"} ~> pc.main \in {"idle", "got", "done"}
=============================================================================
