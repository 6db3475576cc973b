---------------------------- MODULE LzFindMt_proofs ----------------------------
(***************************************************************************)
(* Proofs about LzFindMt for any sizes of blocks, rings and window, any    *)
(* inputs, and whichever of the calls may fail: that each consumer follows *)
(* the stream, that the window is kept for both of them, and that the      *)
(* threads are at rest between two inputs.                                 *)
(*                                                                         *)
(* The invariant says of each link how its events and counts belong to     *)
(* where its two threads are; and of each ring that from the block its     *)
(* consumer is in up to the one its producer fills, every block begins     *)
(* where the one before it ends.                                           *)
(***************************************************************************)
EXTENDS LzFindMt, TLAPS

-----------------------------------------------------------------------------
(* The invariant: types, and where the threads can be.                     *)

MainPcs == {"idle", "init", "get", "started", "filled", "enter", "got", "stop", "wait", "stopped",
            "endHash", "joinHash", "endBt", "joinBt", "done"}
BtPcs == {"none", "start", "check", "free", "fill", "matches", "get", "started", "filled", "enter",
          "got", "leave", "stop", "wait", "stopped", "exited"}
HashPcs == {"none", "start", "check", "enterBt", "enterHash", "move", "free", "fill", "exited"}

PcType == [main : MainPcs, bt : BtPcs, hash : HashPcs, round : 0..MaxRounds]

LinkType ==
  [needStart : BOOLEAN, exit : BOOLEAN, stopWriting : BOOLEAN, canStart : BOOLEAN,
   wasStarted : BOOLEAN, wasStopped : BOOLEAN, free : Nat, filled : Nat,
   cs : {"nobody", "hash", "main", "bt"}, csWasEntered : BOOLEAN, numProcessed : Nat, mine : Nat]

BlockType == [from : Int, num : Int, avail : Int]

WindowType == [base : Nat, pos : Nat, streamPos : Nat, ended : BOOLEAN, result : {"ok", "read"},
               blocks : Nat]
TreeType == [blocks : Nat, pos : Nat, slot : Nat, left : 0..HashBlockSize, avail : Nat,
             first : Nat, count : 0..BtBlockSize, availOut : Nat]
EncoderType == [len : Nat, slot : Nat, left : 0..BtBlockSize, avail : Nat, lzPos : Nat, ends : Nat]
Rings == /\ buf = [s \in Links |-> buf[s]]
         /\ \A s \in Links : buf[s] \in [0..(RingSize(s) - 1) -> BlockType]

Shapes ==
  /\ pc \in PcType /\ sync \in [Links -> LinkType] /\ mf \in WindowType /\ Rings
  /\ bt \in TreeType /\ main \in EncoderType
  /\ main.avail <= main.len /\ bt.pos <= main.len /\ bt.avail <= main.len

Streaming == pc.main \in {"get", "started", "filled", "enter", "got", "stop", "wait", "stopped"}

Filling == pc.bt \in {"matches", "get", "started", "filled", "enter", "got", "leave"}
Between == pc.bt \in {"started", "filled", "enter"}

AtRest(s) ==
  LET l == sync[s] IN
  /\ l.needStart /\ ~l.exit /\ ~l.canStart /\ ~l.wasStarted /\ ~l.wasStopped
  /\ l.free = RingSize(s) /\ l.filled = 0 /\ l.cs = "nobody" /\ ~l.csWasEntered
  /\ l.numProcessed = 0 /\ l.mine = 0

Places ==
  /\ pc.main \in {"idle", "init"} =>
       /\ pc.bt \in {"none", "start"} /\ pc.hash \in {"none", "start"}
       /\ AtRest("bt") /\ AtRest("hash")
  /\ pc.main = "init" => pc.bt = "start" /\ pc.hash = "start" /\ pc.round >= 1
  /\ Streaming => /\ pc.bt \notin {"none", "exited"} /\ pc.hash \notin {"none", "exited"}
                  /\ pc.bt \in {"stop", "wait", "stopped"} => pc.main = "wait"
  /\ ~Streaming =>
       \A s \in Links :
         /\ pc[s] \in {"none", "start", "check", "exited"}
         /\ pc[s] = "check" \/ sync[s].canStart => sync[s].exit
         /\ sync[s].free = RingSize(s) /\ sync[s].filled = 0

(* Who is in the critical sections.                                        *)
Sections ==
  /\ sync.bt.csWasEntered <=> Streaming /\ ~sync.bt.needStart /\ pc.main \in {"got", "get", "stop"}
  /\ sync.hash.csWasEntered <=>
       Streaming /\ ~sync.hash.needStart /\ pc.bt \in {"got", "get", "matches", "leave"}
  /\ sync.bt.cs = IF sync.bt.csWasEntered THEN "main"
                  ELSE IF pc.hash \in {"enterHash", "move"} THEN "hash" ELSE "nobody"
  /\ sync.hash.cs = IF sync.hash.csWasEntered THEN "bt"
                    ELSE IF pc.hash = "move" THEN "hash" ELSE "nobody"
  /\ pc.hash \in {"enterHash", "move"} => ~sync.bt.csWasEntered
  /\ pc.hash = "move" => ~sync.hash.csWasEntered

-----------------------------------------------------------------------------
(* The invariant: the handshake and the semaphores of a link.              *)

Blocks(s) == IF s = "bt" THEN bt.blocks ELSE mf.blocks
Holding(s) == pc[s] = "fill" \/ (s = "bt" /\ Filling)
Held(s) == IF Holding(s) THEN 1 ELSE 0
NotTaken(s) == IF pc[Consumer(s)] \in {"started", "filled"} THEN 1 ELSE 0

RestPcs(s) == IF s = "bt" THEN {"get", "stopped"}
              ELSE {"start", "check", "free", "fill", "get", "stop", "stopped"}
BusyPcs(s) == IF s = "bt" THEN {"started", "filled", "enter", "got", "get", "stop", "wait"}
              ELSE {"started", "filled", "enter", "got", "get", "matches", "leave", "check",
                    "free", "fill", "stop", "wait"}

Resting(s) == pc[s] = "start" /\ pc[Consumer(s)] \in RestPcs(s) /\ AtRest(s)

Handshake(s) ==
  LET l == sync[s]  c == pc[Consumer(s)] IN
  /\ c \in BusyPcs(s) /\ ~l.exit
  /\ l.canStart => c = "started" /\ pc[s] = "start" /\ ~l.wasStarted /\ Blocks(s) = 0
  /\ l.wasStarted => c = "started" /\ pc[s] # "start"
  /\ c = "started" => (l.canStart \/ l.wasStarted) /\ l.numProcessed = 1
  /\ l.wasStopped => c = "wait" /\ pc[s] = "start"
  /\ pc[s] = "start" => l.canStart \/ l.wasStopped
  /\ l.stopWriting <=> c = "wait"

Counting(s) ==
  LET l == sync[s] IN
  /\ l.numProcessed >= 1 \/ pc[Consumer(s)] = "wait"
  /\ IF pc[Consumer(s)] = "wait"
     THEN /\ l.filled = Blocks(s) - l.mine
          /\ l.free = RingSize(s) - Blocks(s) - Held(s) + l.mine
          /\ l.wasStopped \/ (s = "bt" /\ pc.bt \in {"stop", "wait", "stopped"})
               => l.numProcessed = Blocks(s)
     ELSE /\ l.filled = Blocks(s) - l.numProcessed + NotTaken(s)
          /\ l.free = RingSize(s) - Blocks(s) - Held(s) + l.numProcessed - 1

LinkRight(s) ==
  Streaming => IF sync[s].needStart THEN Resting(s) ELSE Handshake(s) /\ Counting(s)

-----------------------------------------------------------------------------
(* The invariant: the window and the ring of hash heads.                   *)

AtEnd == mf.ended \/ mf.result # "ok"

WindowRight ==
  /\ mf.base <= mf.pos /\ mf.pos <= mf.streamPos /\ mf.streamPos <= main.len
  /\ mf.streamPos <= mf.base + BlockSize
  /\ mf.ended => mf.streamPos = main.len
  /\ pc.hash \in {"free", "fill"} => ~NeedMove
  /\ pc.hash \in {"enterBt", "enterHash", "move"} => NeedMove

HeadsOf(n) == buf.hash[n % HashNumBlocks]
HashAt(n) == IF n < mf.blocks THEN HeadsOf(n).from ELSE mf.pos
Passed(b) == IF b.avail < NumHashBytes THEN b.avail ELSE b.num

Heads(n) ==
  LET b == HeadsOf(n) IN
  /\ b.from \in Nat /\ b.avail \in Nat /\ b.num = NumHeads(b.avail)
  /\ b.from + b.avail <= mf.streamPos
  /\ b.avail <= KeepSizeAfter => AtEnd /\ b.from + b.avail = mf.streamPos
  /\ HashAt(n + 1) = b.from + Passed(b)
  /\ mf.pos - b.from <= HashBlockSize * (mf.blocks - n)

HashRing ==
  Streaming /\ ~sync.hash.needStart /\ pc.bt # "wait" =>
    \A n \in (sync.hash.numProcessed - 1)..(mf.blocks - 1) : Heads(n)

-----------------------------------------------------------------------------
(* The invariant: the tree thread in its stream.                           *)

TreeLives == /\ Streaming /\ pc.bt \notin {"wait", "stopped"}
             /\ pc.bt = "start" => pc.main \notin {"wait", "stopped"}

HeldHeads == HeadsOf(sync.hash.numProcessed - 1)

(* Where the tree thread is in the stream; its pos stays behind for the    *)
(* last bytes, for which there is no head.                                 *)
TreeAt == IF sync.hash.needStart THEN 0
          ELSE IF Between THEN HashAt(sync.hash.numProcessed - 1)
          ELSE HeldHeads.from + HeldHeads.avail - bt.avail

TreeAtEnd == AtEnd /\ TreeAt = mf.streamPos /\ bt.left = 0 /\ bt.avail = 0

Fresh ==
  /\ mf = NewWindow /\ bt.pos = 0 /\ bt.left = 0 /\ bt.avail = 0 /\ bt.blocks = 0

InHeads ==
  LET b == HeldHeads IN
  /\ bt.slot = (sync.hash.numProcessed - 1) % HashNumBlocks
  /\ b.avail >= NumHashBytes => b.avail - bt.avail = b.num - bt.left
  /\ b.avail < NumHashBytes => bt.left = 0 /\ (pc.bt # "got" => bt.avail = 0)
  /\ pc.bt = "got" => bt.left = b.num /\ bt.avail = b.avail
  /\ bt.left <= b.num

TreeRight ==
  TreeLives =>
    /\ sync.hash.needStart => Fresh
    /\ ~sync.hash.needStart /\ ~Between => InHeads
    /\ Between \/ pc.bt = "get" => bt.left = 0
    /\ pc.bt = "matches" => bt.left > 0
    /\ \/ bt.pos = TreeAt
       \/ TreeAtEnd /\ bt.pos <= TreeAt /\ TreeAt < bt.pos + NumHashBytes

FillRight ==
  TreeLives /\ Filling =>
    /\ bt.availOut = bt.count + bt.avail
    /\ bt.first + bt.count = TreeAt \/ (TreeAtEnd /\ bt.count = 0)
    /\ pc.bt # "leave" => bt.count < BtLimit

-----------------------------------------------------------------------------
(* The invariant: the ring of matches, and the encoder in its stream.      *)

MatchesOf(m) == buf.bt[m % BtNumBlocks]
StartOf(c) == IF c.avail = 0 THEN mf.streamPos ELSE c.from
TreeStart == IF Filling THEN TreeAt - bt.count ELSE TreeAt
MainAt(m) == IF m < bt.blocks THEN StartOf(MatchesOf(m)) ELSE TreeStart

Matches(m) ==
  LET c == MatchesOf(m) IN
  /\ c.from \in Nat /\ c.num \in 0..BtBlockSize /\ c.avail \in Nat /\ c.num <= c.avail
  /\ StartOf(c) + c.avail <= mf.streamPos
  /\ c.avail - c.num <= MatchMaxLen => AtEnd /\ StartOf(c) + c.avail = mf.streamPos
  /\ MainAt(m + 1) = StartOf(c) + c.num
  /\ TreeStart - StartOf(c) <= BtBlockSize * (bt.blocks - m)

BtRing ==
  Streaming /\ ~sync.bt.needStart /\ pc.main # "wait" =>
    \A m \in (sync.bt.numProcessed - 1)..(bt.blocks - 1) : Matches(m)

MainRight ==
  /\ Streaming /\ sync.bt.needStart /\ pc.main = "get" => mf = NewWindow /\ bt = NewTree /\ main.lzPos = 0
  /\ Streaming /\ ~sync.bt.needStart /\ pc.main \in {"started", "filled", "enter"} =>
       main.lzPos = MainAt(sync.bt.numProcessed - 1)
  /\ Streaming /\ ~sync.bt.needStart /\ pc.main \in {"got", "get", "stop"} =>
       LET c == MatchesOf(sync.bt.numProcessed - 1) IN
       /\ main.slot = (sync.bt.numProcessed - 1) % BtNumBlocks
       /\ main.left <= c.num /\ main.lzPos = StartOf(c) + c.num - main.left
       /\ main.avail = c.avail - (c.num - main.left)
       /\ pc.main = "get" => main.left = 0

(* A move leaves to both what they may refer to.                           *)
Reach ==
  mf.base > 0 =>
    /\ Streaming /\ pc.main \notin {"wait", "stopped"} => mf.base <= main.lzPos - HistorySize
    /\ TreeLives => mf.base <= bt.pos - HistorySize

IInv ==
  /\ Shapes /\ Places /\ Sections /\ LinkRight("bt") /\ LinkRight("hash")
  /\ WindowRight /\ HashRing /\ TreeRight /\ FillRight /\ BtRing /\ MainRight /\ Reach

-----------------------------------------------------------------------------
(* Numbers.                                                                *)

(* What the constants are.                                                 *)
LEMMA Sizes ==
  /\ HistorySize \in Nat /\ MatchMaxLen \in Nat /\ NumHashBytes \in Nat /\ HashBlockSize \in Nat
  /\ HashNumBlocks \in Nat /\ BtBlockSize \in Nat /\ BtNumBlocks \in Nat /\ BtLimit \in Nat
  /\ SizeReserv \in Nat /\ MaxRounds \in Nat
  /\ MatchMaxLen > 0 /\ NumHashBytes > 0 /\ HashBlockSize > 0 /\ HashNumBlocks > 0
  /\ BtBlockSize > 0 /\ BtNumBlocks > 0 /\ BtLimit > 0 /\ SizeReserv > 0
  /\ NumHashBytes >= 2 /\ NumHashBytes <= MatchMaxLen /\ NumHashBytes <= HashBlockSize + 1
  /\ BtLimit + NumHashBytes <= BtBlockSize + 2
  /\ \A s \in Links : RingSize(s) \in Nat /\ RingSize(s) > 0
BY ConstantsAssumption DEF Links, RingSize

LEMMA Times ==
  ASSUME NEW R \in Nat, NEW k \in Int
  PROVE  R * k \in Int /\ R * (k + 1) = R * k + R /\ (k \in Nat => R * k \in Nat)
OBVIOUS

LEMMA TimesLess ==
  ASSUME NEW R \in Nat, NEW k \in Int, NEW l \in Int, k <= l
  PROVE  R * k <= R * l
<1>1. l - k \in Nat /\ l = k + (l - k)
  OBVIOUS
<1>2. R * (l - k) >= 0
  BY <1>1, Times
<1>3. \A a \in Int, b \in Int : R * (a + b) = R * a + R * b
  OBVIOUS
<1> QED
  BY <1>1, <1>2, <1>3

LEMMA Division ==
  ASSUME NEW R \in Nat, R > 0, NEW a \in Nat
  PROVE  a % R \in 0..(R - 1) /\ \E k \in Int : a = R * k + (a % R)
<1>1. a = R * (a \div R) + (a % R) /\ (a \div R) \in Int /\ a % R \in 0..(R - 1)
  OBVIOUS
<1> QED
  BY <1>1

(* Blocks that are less than a ring apart have slots of their own.         *)
LEMMA SlotsDiffer ==
  ASSUME NEW R \in Nat, R > 0, NEW a \in Nat, NEW b \in Nat, a < b, b - a < R
  PROVE  a % R # b % R
<1> SUFFICES ASSUME a % R = b % R PROVE FALSE
  OBVIOUS
<1>1. PICK k \in Int : a = R * k + (a % R)
  BY Division
<1>2. PICK l \in Int : b = R * l + (b % R)
  BY Division
<1>3. a % R \in Int
  BY Division
<1>4. R * k \in Int /\ R * l \in Int /\ R * l - R * k > 0 /\ R * l - R * k < R
  BY <1>1, <1>2, <1>3, Times
<1>5. l <= k => R * l <= R * k
  BY TimesLess
<1>6. k + 1 <= l => R * k + R <= R * l
  BY TimesLess, Times
<1> QED
  BY <1>4, <1>5, <1>6

LEMMA WindowSizes ==
  /\ HashBlockSize * HashNumBlocks \in Nat /\ BtBlockSize * BtNumBlocks \in Nat
  /\ KeepSizeBefore = HistorySize + HashBlockSize * HashNumBlocks + BtBlockSize * BtNumBlocks + 1
  /\ KeepSizeBefore \in Nat /\ KeepSizeAfter = MatchMaxLen + HashBlockSize /\ KeepSizeAfter \in Nat
  /\ BlockSize = KeepSizeBefore + KeepSizeAfter + SizeReserv /\ BlockSize \in Nat
  /\ BlockSize > KeepSizeBefore + KeepSizeAfter
<1>1. HashBlockSize * HashNumBlocks \in Nat /\ BtBlockSize * BtNumBlocks \in Nat
  BY Sizes, Times
<1> QED
  BY <1>1, Sizes DEF KeepSizeBefore, KeepSizeAfter, BlockSize

LEMMA LesserOf ==
  ASSUME NEW a \in Int, NEW b \in Int
  PROVE  Min({a, b}) = IF a <= b THEN a ELSE b
<1> DEFINE m == IF a <= b THEN a ELSE b
<1>1. m \in {a, b} /\ \A y \in {a, b} : m <= y
  OBVIOUS
<1>2. \A x \in {a, b} : (\A y \in {a, b} : x <= y) => x = m
  OBVIOUS
<1> QED
  BY <1>1, <1>2 DEF Min

LEMMA HeadsInBlock ==
  ASSUME NEW num \in Nat
  PROVE  /\ NumHeads(num) = IF num < NumHashBytes THEN 0
                            ELSE IF num - NumHashBytes + 1 <= HashBlockSize
                            THEN num - NumHashBytes + 1 ELSE HashBlockSize
         /\ NumHeads(num) \in 0..HashBlockSize /\ NumHeads(num) <= num
         /\ num >= NumHashBytes => NumHeads(num) > 0
<1>1. num - NumHashBytes + 1 \in Int /\ HashBlockSize \in Int
  BY Sizes
<1>2. Min({num - NumHashBytes + 1, HashBlockSize})
        = IF num - NumHashBytes + 1 <= HashBlockSize THEN num - NumHashBytes + 1 ELSE HashBlockSize
  BY <1>1, LesserOf
<1> QED
  BY <1>2, Sizes DEF NumHeads

-----------------------------------------------------------------------------
(* The steps.                                                              *)

MainSteps ==
  \/ Create \/ InitStream \/ GetMatches \/ GetNumAvailableBytes \/ Finish \/ Finished \/ Destruct

EndSteps ==
  \/ EndThread("hash", "endHash", "joinHash", "endBt") \/ JoinThread("hash", "joinHash", "endBt")
  \/ EndThread("bt", "endBt", "joinBt", "done") \/ JoinThread("bt", "joinBt", "done")

ProducerStep(s) == ThreadStart(s) \/ ThreadExit(s) \/ TakeFree(s)

LEMMA Steps ==
  Next => \/ MainSteps \/ EndSteps \/ LinkStep("bt")
          \/ ProducerStep("bt") \/ BtStep \/ LinkStep("hash")
          \/ ProducerStep("hash") \/ HashStep
<1> SUFFICES ASSUME NEW t \in {"main", "bt", "hash"}, ThreadStep(t)
             PROVE  \/ MainSteps \/ EndSteps \/ LinkStep("bt")
                    \/ ProducerStep("bt") \/ BtStep \/ LinkStep("hash")
                    \/ ProducerStep("hash") \/ HashStep
  BY DEF Next
<1>1. CASE t = "main"
  BY <1>1 DEF ThreadStep, MainStep, MainSteps, EndSteps
<1>2. CASE t = "bt"
  BY <1>2 DEF ThreadStep, ProducerStep
<1>3. CASE t = "hash"
  BY <1>3 DEF ThreadStep, ProducerStep
<1> QED
  BY <1>1, <1>2, <1>3

-----------------------------------------------------------------------------
(* The invariant holds at first.                                           *)
LEMMA Initial ==
  Init => IInv
<1> SUFFICES ASSUME Init PROVE IInv
  OBVIOUS
<1> USE Sizes
<1>1. Shapes
  <2>1. Rings
    BY DEF Init, Rings, Garbage, BlockType
  <2>2. sync \in [Links -> LinkType]
    BY DEF Init, Rested, LinkType
  <2>3. pc \in PcType
    BY DEF Init, PcType, MainPcs, BtPcs, HashPcs
  <2> QED
    BY <2>1, <2>2, <2>3 DEF Init, Shapes, NewWindow, NewTree, NewMain, WindowType, TreeType, EncoderType
<1>2. Places
  BY DEF Init, Places, AtRest, Rested, Streaming, Links
<1>3. Sections
  BY DEF Init, Sections, Rested, Streaming, Links
<1>4. WindowRight
  BY WindowSizes DEF Init, WindowRight, NewWindow, NewMain
<1>5. LinkRight("bt") /\ LinkRight("hash") /\ HashRing /\ TreeRight /\ FillRight /\ BtRing /\ MainRight
  BY DEF Init, Streaming, LinkRight, HashRing, TreeRight, TreeLives, FillRight, BtRing, MainRight
<1>6. Reach
  BY DEF Init, Reach, NewWindow
<1> QED
  BY <1>1, <1>2, <1>3, <1>4, <1>5, <1>6 DEF IInv

-----------------------------------------------------------------------------
(* What the invariant says of a state.                                     *)

LEMMA Fields ==
  ASSUME Shapes
  PROVE  /\ pc.main \in MainPcs /\ pc.bt \in BtPcs /\ pc.hash \in HashPcs
         /\ sync.bt \in LinkType /\ sync.hash \in LinkType
         /\ mf.base \in Nat /\ mf.pos \in Nat /\ mf.streamPos \in Nat /\ mf.ended \in BOOLEAN
         /\ mf.result \in {"ok", "read"} /\ mf.blocks \in Nat
         /\ bt.blocks \in Nat /\ bt.pos \in Nat /\ bt.left \in 0..HashBlockSize /\ bt.left \in Nat
         /\ bt.avail \in Nat /\ bt.avail <= main.len /\ bt.first \in Nat /\ bt.count \in Nat
         /\ bt.count <= BtBlockSize /\ bt.availOut \in Nat
         /\ main.len \in Nat /\ main.left \in Nat /\ main.avail \in Nat /\ main.lzPos \in Nat
BY Sizes DEF Shapes, PcType, Links, WindowType, TreeType, EncoderType

(* A consumer that has taken a block is in one that was filled; and the    *)
(* blocks from there on, with the one being filled, fit into the ring.     *)
LEMMA Taken ==
  ASSUME IInv, Streaming, NEW s \in Links, ~sync[s].needStart, pc[Consumer(s)] # "wait"
  PROVE  /\ sync[s].numProcessed \in Nat /\ sync[s].numProcessed >= 1
         /\ Blocks(s) \in Nat /\ Held(s) \in {0, 1}
         /\ Blocks(s) >= sync[s].numProcessed - 1
         /\ NotTaken(s) = 0 => Blocks(s) >= sync[s].numProcessed
         /\ Blocks(s) + Held(s) - (sync[s].numProcessed - 1) <= RingSize(s)
<1>1. sync[s] \in LinkType /\ Blocks(s) \in Nat /\ Held(s) \in {0, 1} /\ NotTaken(s) \in {0, 1}
  BY Fields DEF IInv, Shapes, Links, Blocks, Held, NotTaken
<1>2. Counting(s)
  BY DEF IInv, LinkRight, Links
<1>3. sync[s].numProcessed \in Nat /\ sync[s].free \in Nat /\ sync[s].filled \in Nat
  BY <1>1 DEF LinkType
<1> QED
  BY <1>1, <1>2, <1>3, Sizes DEF Counting

(* The tree thread in a block of heads.                                    *)
LEMMA TreeInHeads ==
  ASSUME IInv, TreeLives, ~sync.hash.needStart, ~Between
  PROVE  /\ sync.hash.numProcessed - 1 \in Nat /\ sync.hash.numProcessed <= mf.blocks
         /\ Heads(sync.hash.numProcessed - 1) /\ InHeads
         /\ bt.left <= bt.avail /\ bt.avail <= HeldHeads.avail
         /\ TreeAt = HeldHeads.from + HeldHeads.avail - bt.avail
         /\ TreeAt \in Nat /\ TreeAt + bt.avail <= mf.streamPos
         /\ bt.avail <= MatchMaxLen => AtEnd /\ TreeAt + bt.avail = mf.streamPos
<1> DEFINE n == sync.hash.numProcessed - 1
           b == HeldHeads
<1>1. Streaming /\ pc.bt # "wait"
  BY DEF TreeLives
<1>2. n \in Nat /\ n < mf.blocks /\ mf.blocks \in Nat
  BY <1>1, Taken DEF Links, Consumer, Blocks, NotTaken, Between
<1>3. Heads(n) /\ InHeads
  BY <1>1, <1>2 DEF IInv, HashRing, TreeRight
<1>4. /\ b.from \in Nat /\ b.avail \in Nat /\ b.num = NumHeads(b.avail) /\ b.from + b.avail <= mf.streamPos
      /\ b.avail <= KeepSizeAfter => AtEnd /\ b.from + b.avail = mf.streamPos
  BY <1>3 DEF Heads, HeldHeads
<1>5. /\ b.num \in 0..HashBlockSize /\ b.num <= b.avail /\ (b.avail < NumHashBytes => b.num = 0)
      /\ b.avail >= NumHashBytes => b.num > 0
  BY <1>4, HeadsInBlock, Sizes
<1>6. bt.left \in Nat /\ bt.avail \in Nat /\ mf.streamPos \in Nat
  BY Fields DEF IInv
<1>7. /\ b.avail >= NumHashBytes => b.avail - bt.avail = b.num - bt.left
      /\ b.avail < NumHashBytes => bt.left = 0 /\ (bt.avail = 0 \/ bt.avail = b.avail)
      /\ bt.left <= b.num
  BY <1>3 DEF InHeads
<1>8. bt.left <= bt.avail /\ bt.avail <= b.avail
  BY <1>4, <1>5, <1>6, <1>7, Sizes
<1>9. TreeAt = b.from + b.avail - bt.avail
  BY DEF TreeAt
<1>10. bt.avail <= MatchMaxLen => b.avail <= KeepSizeAfter
  BY <1>4, <1>5, <1>6, <1>7, Sizes, WindowSizes
<1> HIDE DEF b
<1>11. TreeAt \in Nat /\ TreeAt + bt.avail = b.from + b.avail
  BY <1>4, <1>6, <1>8, <1>9
<1>12. TreeAt + bt.avail <= mf.streamPos
  BY <1>4, <1>11
<1>13. bt.avail <= MatchMaxLen => AtEnd /\ TreeAt + bt.avail = mf.streamPos
  BY <1>4, <1>10, <1>11
<1>14. sync.hash.numProcessed <= mf.blocks
  BY <1>2, Fields DEF IInv, LinkType
<1> QED
  BY <1>2, <1>3, <1>8, <1>9, <1>11, <1>12, <1>13, <1>14 DEF b

(* Where a block of heads begins, and the end of the last.                 *)
LEMMA HashAtRight ==
  ASSUME IInv, Streaming, ~sync.hash.needStart, pc.bt # "wait",
         NEW n \in (sync.hash.numProcessed - 1)..mf.blocks
  PROVE  HashAt(n) \in Nat /\ HashAt(n) <= mf.streamPos /\ mf.pos - HashAt(n) <= HashBlockSize * (mf.blocks - n)
<1>1. sync.hash.numProcessed - 1 \in Nat /\ mf.blocks \in Nat /\ mf.pos \in Nat /\ mf.pos <= mf.streamPos
  BY Taken, Fields DEF IInv, WindowRight, Links, Consumer
<1>2. CASE n < mf.blocks
  <2>1. n \in (sync.hash.numProcessed - 1)..(mf.blocks - 1)
    BY <1>1, <1>2
  <2>2. Heads(n)
    BY <2>1 DEF IInv, HashRing
  <2>3. HeadsOf(n).from \in Nat /\ HeadsOf(n).avail \in Nat /\ mf.streamPos \in Nat
    BY <2>2, Fields DEF Heads, IInv
  <2> QED
    BY <1>2, <2>2, <2>3 DEF Heads, HashAt
<1>3. CASE n = mf.blocks
  <2>0. mf.blocks - n = 0
    BY <1>1, <1>3
  <2>1. HashBlockSize * (mf.blocks - n) \in Nat
    BY <2>0, Sizes, Times
  <2> QED
    BY <1>1, <1>3, <2>1 DEF HashAt
<1> QED
  BY <1>1, <1>2, <1>3

LEMMA TreeBounds ==
  ASSUME IInv, TreeLives
  PROVE  TreeAt \in Nat /\ TreeAt <= mf.streamPos /\ bt.pos <= TreeAt /\ TreeAt < bt.pos + NumHashBytes
<1>1. TreeAt \in Nat /\ TreeAt <= mf.streamPos
  <2>1. CASE sync.hash.needStart
    BY <2>1, Fields DEF IInv, TreeAt
  <2>2. CASE ~sync.hash.needStart /\ Between
    <3>1. Streaming /\ pc.bt # "wait"
      BY DEF TreeLives
    <3>2. sync.hash.numProcessed - 1 \in (sync.hash.numProcessed - 1)..mf.blocks
      BY <2>2, <3>1, Taken DEF Links, Consumer, Blocks
    <3> QED
      BY <2>2, <3>1, <3>2, HashAtRight DEF TreeAt
  <2>3. CASE ~sync.hash.needStart /\ ~Between
    BY <2>3, TreeInHeads, Fields DEF IInv
  <2> QED
    BY <2>1, <2>2, <2>3
<1>2. bt.pos \in Nat
  BY Fields DEF IInv
<1> QED
  BY <1>1, <1>2, Sizes DEF IInv, TreeRight

-----------------------------------------------------------------------------
(* What a step changes.                                                    *)

Moved(t, where) ==
  /\ pc' \in PcType /\ pc'.round = pc.round
  /\ pc'.main = IF t = "main" THEN where ELSE pc.main
  /\ pc'.bt = IF t = "bt" THEN where ELSE pc.bt
  /\ pc'.hash = IF t = "hash" THEN where ELSE pc.hash

PcsOf(t) == IF t = "main" THEN MainPcs ELSE IF t = "bt" THEN BtPcs ELSE HashPcs

LEMMA GoesTo ==
  ASSUME Shapes, NEW t \in {"main", "bt", "hash"}, NEW where \in PcsOf(t), Goto(t, where)
  PROVE  Moved(t, where)
<1>1. pc \in PcType
  BY DEF Shapes
<1> QED
  BY <1>1 DEF Goto, Moved, PcsOf, PcType

LinkBecomes(s, l) ==
  /\ sync' \in [Links -> LinkType] /\ sync'[s] = l
  /\ s # "bt" => sync'.bt = sync.bt
  /\ s # "hash" => sync'.hash = sync.hash

LEMMA OneLink ==
  ASSUME Shapes, NEW s \in Links, NEW l \in LinkType, sync' = [sync EXCEPT ![s] = l]
  PROVE  LinkBecomes(s, l)
BY DEF Shapes, LinkBecomes, Links

LEMMA BothLinks ==
  ASSUME Shapes, NEW l \in LinkType, NEW m \in LinkType,
         sync' = [sync EXCEPT !["bt"] = l, !["hash"] = m]
  PROVE  sync' \in [Links -> LinkType] /\ sync'.bt = l /\ sync'.hash = m
BY DEF Shapes, Links

LEMMA GetFirstEffect ==
  ASSUME Shapes, NEW s \in Links, GetFirst(s)
  PROVE  /\ pc[Consumer(s)] = "get" /\ sync[s].needStart /\ Moved(Consumer(s), "started")
         /\ LinkBecomes(s, [sync[s] EXCEPT !.numProcessed = 1, !.needStart = FALSE,
              !.stopWriting = FALSE, !.exit = FALSE, !.wasStarted = FALSE, !.wasStopped = FALSE,
              !.canStart = TRUE])
         /\ UNCHANGED <<mf, buf, bt, main>>
<1> DEFINE l == [sync[s] EXCEPT !.numProcessed = 1, !.needStart = FALSE,
              !.stopWriting = FALSE, !.exit = FALSE, !.wasStarted = FALSE, !.wasStopped = FALSE,
              !.canStart = TRUE]
<1>1. Goto(Consumer(s), "started") /\ sync' = [sync EXCEPT ![s] = l]
  BY DEF GetFirst
<1>2. sync[s] \in LinkType
  BY DEF Shapes
<1>3. l \in LinkType
  BY <1>2 DEF LinkType
<1>4. Consumer(s) \in {"main", "bt"} /\ "started" \in PcsOf(Consumer(s))
  BY DEF Consumer, PcsOf, MainPcs, BtPcs
<1> HIDE DEF l
<1>5. LinkBecomes(s, l)
  BY <1>1, <1>3, OneLink
<1>6. Moved(Consumer(s), "started")
  BY <1>1, <1>4, GoesTo
<1> QED
  BY <1>5, <1>6 DEF GetFirst, l

LEMMA AwaitStartedEffect ==
  ASSUME Shapes, NEW s \in Links, AwaitStarted(s)
  PROVE  /\ pc[Consumer(s)] = "started" /\ sync[s].wasStarted /\ Moved(Consumer(s), "filled")
         /\ LinkBecomes(s, [sync[s] EXCEPT !.wasStarted = FALSE])
         /\ UNCHANGED <<mf, buf, bt, main>>
<1> DEFINE l == [sync[s] EXCEPT !.wasStarted = FALSE]
<1>1. Goto(Consumer(s), "filled") /\ sync' = [sync EXCEPT ![s] = l]
  BY DEF AwaitStarted
<1>2. sync[s] \in LinkType
  BY DEF Shapes
<1>3. l \in LinkType
  BY <1>2 DEF LinkType
<1>4. Consumer(s) \in {"main", "bt"} /\ "filled" \in PcsOf(Consumer(s))
  BY DEF Consumer, PcsOf, MainPcs, BtPcs
<1> HIDE DEF l
<1>5. LinkBecomes(s, l)
  BY <1>1, <1>3, OneLink
<1>6. Moved(Consumer(s), "filled")
  BY <1>1, <1>4, GoesTo
<1> QED
  BY <1>5, <1>6 DEF AwaitStarted, l

LEMMA GetNextEffect ==
  ASSUME Shapes, NEW s \in Links, GetNext(s)
  PROVE  /\ pc[Consumer(s)] = "get" /\ ~sync[s].needStart /\ Moved(Consumer(s), "filled")
         /\ LinkBecomes(s, [sync[s] EXCEPT !.cs = "nobody", !.csWasEntered = FALSE,
              !.numProcessed = sync[s].numProcessed + 1, !.free = sync[s].free + 1])
         /\ UNCHANGED <<mf, buf, bt, main>>
<1>1. sync[s] \in LinkType
  BY DEF Shapes
<1>2. PICK a \in Nat, b \in Nat : a = sync[s].numProcessed + 1 /\ b = sync[s].free + 1
  BY <1>1 DEF LinkType
<1> DEFINE l == [sync[s] EXCEPT !.cs = "nobody", !.csWasEntered = FALSE,
              !.numProcessed = a, !.free = b]
<1>3. l \in LinkType
  BY <1>1 DEF LinkType
<1>4. Goto(Consumer(s), "filled") /\ sync' = [sync EXCEPT ![s] = l]
  BY <1>2 DEF GetNext
<1>5. Consumer(s) \in {"main", "bt"} /\ "filled" \in PcsOf(Consumer(s))
  BY DEF Consumer, PcsOf, MainPcs, BtPcs
<1> HIDE DEF l
<1>6. LinkBecomes(s, l)
  BY <1>3, <1>4, OneLink
<1>7. Moved(Consumer(s), "filled")
  BY <1>4, <1>5, GoesTo
<1> QED
  BY <1>2, <1>6, <1>7 DEF GetNext, l

LEMMA TakeFilledEffect ==
  ASSUME Shapes, NEW s \in Links, TakeFilled(s)
  PROVE  /\ pc[Consumer(s)] = "filled" /\ sync[s].filled > 0 /\ Moved(Consumer(s), "enter")
         /\ LinkBecomes(s, [sync[s] EXCEPT !.filled = sync[s].filled - 1])
         /\ UNCHANGED <<mf, buf, bt, main>>
<1>1. sync[s] \in LinkType
  BY DEF Shapes
<1>2. PICK a \in Nat : a = sync[s].filled - 1
  BY <1>1 DEF LinkType, TakeFilled
<1> DEFINE l == [sync[s] EXCEPT !.filled = a]
<1>3. l \in LinkType
  BY <1>1 DEF LinkType
<1>4. Goto(Consumer(s), "enter") /\ sync' = [sync EXCEPT ![s] = l]
  BY <1>2 DEF TakeFilled
<1>5. Consumer(s) \in {"main", "bt"} /\ "enter" \in PcsOf(Consumer(s))
  BY DEF Consumer, PcsOf, MainPcs, BtPcs
<1> HIDE DEF l
<1>6. LinkBecomes(s, l)
  BY <1>3, <1>4, OneLink
<1>7. Moved(Consumer(s), "enter")
  BY <1>4, <1>5, GoesTo
<1> QED
  BY <1>2, <1>6, <1>7 DEF TakeFilled, l

LEMMA EnterCSEffect ==
  ASSUME Shapes, NEW s \in Links, EnterCS(s)
  PROVE  /\ pc[Consumer(s)] = "enter" /\ sync[s].cs = "nobody" /\ Moved(Consumer(s), "got")
         /\ LinkBecomes(s, [sync[s] EXCEPT !.cs = Consumer(s), !.csWasEntered = TRUE])
         /\ UNCHANGED <<mf, buf>>
<1> DEFINE l == [sync[s] EXCEPT !.cs = Consumer(s), !.csWasEntered = TRUE]
<1>1. Goto(Consumer(s), "got") /\ sync' = [sync EXCEPT ![s] = l]
  BY DEF EnterCS
<1>2. sync[s] \in LinkType
  BY DEF Shapes
<1>3. Consumer(s) \in {"main", "bt"} /\ "got" \in PcsOf(Consumer(s))
  BY DEF Consumer, PcsOf, MainPcs, BtPcs
<1>4. l \in LinkType
  BY <1>2, <1>3 DEF LinkType
<1> HIDE DEF l
<1>5. LinkBecomes(s, l)
  BY <1>1, <1>4, OneLink
<1>6. Moved(Consumer(s), "got")
  BY <1>1, <1>3, GoesTo
<1> QED
  BY <1>5, <1>6 DEF EnterCS, l

LEMMA StopWritingEffect ==
  ASSUME Shapes, NEW s \in Links, StopWriting(s)
  PROVE  /\ pc[Consumer(s)] = "stop"
         /\ IF sync[s].needStart
            THEN Moved(Consumer(s), "stopped") /\ UNCHANGED sync
            ELSE /\ Moved(Consumer(s), "wait")
                 /\ LinkBecomes(s, [sync[s] EXCEPT !.stopWriting = TRUE,
                      !.free = sync[s].free + 1, !.mine = sync[s].numProcessed,
                      !.csWasEntered = FALSE,
                      !.cs = IF sync[s].csWasEntered THEN "nobody" ELSE sync[s].cs])
         /\ UNCHANGED <<mf, buf, bt, main>>
<1>1. sync[s] \in LinkType
  BY DEF Shapes
<1>2. PICK a \in Nat, m \in Nat : a = sync[s].free + 1 /\ m = sync[s].numProcessed
  BY <1>1 DEF LinkType
<1>3. PICK c \in {"nobody", "hash", "main", "bt"} :
        c = IF sync[s].csWasEntered THEN "nobody" ELSE sync[s].cs
  BY <1>1 DEF LinkType
<1> DEFINE l == [sync[s] EXCEPT !.stopWriting = TRUE, !.free = a, !.mine = m,
                   !.csWasEntered = FALSE, !.cs = c]
<1>4. l \in LinkType
  BY <1>1 DEF LinkType
<1>5. Consumer(s) \in {"main", "bt"} /\ {"stopped", "wait"} \subseteq PcsOf(Consumer(s))
  BY DEF Consumer, PcsOf, MainPcs, BtPcs
<1>6. CASE sync[s].needStart
  <2>1. Goto(Consumer(s), "stopped") /\ UNCHANGED sync
    BY <1>6 DEF StopWriting
  <2>2. Moved(Consumer(s), "stopped")
    BY <1>5, <2>1, GoesTo
  <2> QED
    BY <1>6, <2>1, <2>2 DEF StopWriting
<1>7. CASE ~sync[s].needStart
  <2>1. Goto(Consumer(s), "wait") /\ sync' = [sync EXCEPT ![s] = l]
    BY <1>2, <1>3, <1>7 DEF StopWriting
  <2> HIDE DEF l
  <2>2. LinkBecomes(s, l)
    BY <1>4, <2>1, OneLink
  <2>3. Moved(Consumer(s), "wait")
    BY <1>5, <2>1, GoesTo
  <2> QED
    BY <1>2, <1>3, <1>7, <2>2, <2>3 DEF StopWriting, l
<1> QED
  BY <1>6, <1>7

LEMMA AwaitStoppedEffect ==
  ASSUME Shapes, NEW s \in Links, AwaitStopped(s), sync[s].filled = sync[s].numProcessed - sync[s].mine
  PROVE  /\ pc[Consumer(s)] = "wait" /\ sync[s].wasStopped /\ Moved(Consumer(s), "stopped")
         /\ LinkBecomes(s, [sync[s] EXCEPT !.wasStopped = FALSE, !.needStart = TRUE, !.filled = 0,
              !.free = sync[s].free + sync[s].filled, !.numProcessed = 0, !.mine = 0])
         /\ UNCHANGED <<mf, buf, bt, main>>
<1>1. sync[s] \in LinkType
  BY DEF Shapes
<1>2. PICK a \in Nat, r \in Nat : /\ a = sync[s].free + sync[s].filled
                                  /\ r = sync[s].numProcessed - sync[s].mine
                                  /\ r = sync[s].filled
  BY <1>1 DEF LinkType
<1>3. sync[s].filled - r = 0 /\ sync[s].free + r = a
  BY <1>2
<1> DEFINE l == [sync[s] EXCEPT !.wasStopped = FALSE, !.needStart = TRUE, !.filled = 0,
                   !.free = a, !.numProcessed = 0, !.mine = 0]
<1>4. l \in LinkType
  BY <1>1 DEF LinkType
<1>5. Goto(Consumer(s), "stopped") /\ sync' = [sync EXCEPT ![s] = l]
  BY <1>2, <1>3 DEF AwaitStopped
<1>6. Consumer(s) \in {"main", "bt"} /\ "stopped" \in PcsOf(Consumer(s))
  BY DEF Consumer, PcsOf, MainPcs, BtPcs
<1> HIDE DEF l
<1>7. LinkBecomes(s, l)
  BY <1>4, <1>5, OneLink
<1>8. Moved(Consumer(s), "stopped")
  BY <1>5, <1>6, GoesTo
<1> QED
  BY <1>2, <1>7, <1>8 DEF AwaitStopped, l

LEMMA ThreadStartEffect ==
  ASSUME Shapes, NEW s \in Links, ThreadStart(s)
  PROVE  /\ pc[s] = "start" /\ sync[s].canStart /\ Moved(s, "check")
         /\ LinkBecomes(s, [sync[s] EXCEPT !.canStart = FALSE, !.wasStarted = TRUE])
         /\ IF s = "bt" THEN bt' = [bt EXCEPT !.blocks = 0] /\ UNCHANGED mf
                        ELSE mf' = [mf EXCEPT !.blocks = 0] /\ UNCHANGED bt
         /\ UNCHANGED <<buf, main>>
<1> DEFINE l == [sync[s] EXCEPT !.canStart = FALSE, !.wasStarted = TRUE]
<1>1. Goto(s, "check") /\ sync' = [sync EXCEPT ![s] = l]
  BY DEF ThreadStart
<1>2. sync[s] \in LinkType
  BY DEF Shapes
<1>3. l \in LinkType
  BY <1>2 DEF LinkType
<1>4. s \in {"bt", "hash"} /\ "check" \in PcsOf(s)
  BY DEF Links, PcsOf, HashPcs, BtPcs
<1> HIDE DEF l
<1>5. LinkBecomes(s, l)
  BY <1>1, <1>3, OneLink
<1>6. Moved(s, "check")
  BY <1>1, <1>4, GoesTo
<1> QED
  BY <1>5, <1>6 DEF ThreadStart, l

LEMMA ThreadExitEffect ==
  ASSUME Shapes, NEW s \in Links, ThreadExit(s)
  PROVE  /\ pc[s] = "check" /\ sync[s].exit /\ Moved(s, "exited")
         /\ UNCHANGED <<sync, mf, buf, bt, main>>
<1>1. s \in {"bt", "hash"} /\ "exited" \in PcsOf(s)
  BY DEF Links, PcsOf, HashPcs, BtPcs
<1>2. Moved(s, "exited")
  BY <1>1, GoesTo DEF ThreadExit
<1> QED
  BY <1>2 DEF ThreadExit

LEMMA TakeFreeEffect ==
  ASSUME Shapes, NEW s \in Links, TakeFree(s)
  PROVE  /\ pc[s] = "free" /\ sync[s].free > 0 /\ Moved(s, "fill")
         /\ LinkBecomes(s, [sync[s] EXCEPT !.free = sync[s].free - 1])
         /\ UNCHANGED <<mf, buf, bt, main>>
<1>1. sync[s] \in LinkType
  BY DEF Shapes
<1>2. PICK a \in Nat : a = sync[s].free - 1
  BY <1>1 DEF LinkType, TakeFree
<1> DEFINE l == [sync[s] EXCEPT !.free = a]
<1>3. l \in LinkType
  BY <1>1 DEF LinkType
<1>4. Goto(s, "fill") /\ sync' = [sync EXCEPT ![s] = l]
  BY <1>2 DEF TakeFree
<1>5. s \in {"bt", "hash"} /\ "fill" \in PcsOf(s)
  BY DEF Links, PcsOf, HashPcs, BtPcs
<1> HIDE DEF l
<1>6. LinkBecomes(s, l)
  BY <1>3, <1>4, OneLink
<1>7. Moved(s, "fill")
  BY <1>4, <1>5, GoesTo
<1> QED
  BY <1>2, <1>6, <1>7 DEF TakeFree, l

LEMMA HashStopEffect ==
  ASSUME Shapes, HashStop
  PROVE  /\ pc.hash = "check" /\ ~sync.hash.exit /\ sync.hash.stopWriting /\ Moved("hash", "start")
         /\ LinkBecomes("hash", [sync.hash EXCEPT !.numProcessed = mf.blocks, !.wasStopped = TRUE])
         /\ UNCHANGED <<mf, buf, bt, main>>
<1>1. sync["hash"] \in LinkType /\ mf.blocks \in Nat
  BY Fields
<1> DEFINE l == [sync["hash"] EXCEPT !.numProcessed = mf.blocks, !.wasStopped = TRUE]
<1>2. l \in LinkType
  BY <1>1 DEF LinkType
<1>3. Goto("hash", "start") /\ sync' = [sync EXCEPT !["hash"] = l]
  BY DEF HashStop
<1> HIDE DEF l
<1>4. LinkBecomes("hash", l)
  BY <1>2, <1>3, OneLink DEF Links
<1>5. Moved("hash", "start")
  BY <1>3, GoesTo DEF PcsOf, HashPcs
<1> QED
  BY <1>4, <1>5 DEF HashStop, l

LEMMA HashCheckEffect ==
  ASSUME Shapes, HashCheck
  PROVE  /\ HashGoesOn /\ Moved("hash", IF NeedMove THEN "enterBt" ELSE "free")
         /\ UNCHANGED <<sync, mf, buf, bt, main>>
BY GoesTo DEF HashCheck, PcsOf, HashPcs

LEMMA EnterBtCSEffect ==
  ASSUME Shapes, EnterBtCS
  PROVE  /\ pc.hash = "enterBt" /\ sync.bt.cs = "nobody" /\ Moved("hash", "enterHash")
         /\ LinkBecomes("bt", [sync.bt EXCEPT !.cs = "hash"])
         /\ UNCHANGED <<mf, buf, bt, main>>
<1> DEFINE l == [sync["bt"] EXCEPT !.cs = "hash"]
<1>1. sync["bt"] \in LinkType
  BY Fields
<1>2. l \in LinkType
  BY <1>1 DEF LinkType
<1>3. Goto("hash", "enterHash") /\ sync' = [sync EXCEPT !["bt"] = l]
  BY DEF EnterBtCS
<1> HIDE DEF l
<1>4. LinkBecomes("bt", l)
  BY <1>2, <1>3, OneLink DEF Links
<1>5. Moved("hash", "enterHash")
  BY <1>3, GoesTo DEF PcsOf, HashPcs
<1> QED
  BY <1>4, <1>5 DEF EnterBtCS, l

LEMMA EnterHashCSEffect ==
  ASSUME Shapes, EnterHashCS
  PROVE  /\ pc.hash = "enterHash" /\ sync.hash.cs = "nobody" /\ Moved("hash", "move")
         /\ LinkBecomes("hash", [sync.hash EXCEPT !.cs = "hash"])
         /\ UNCHANGED <<mf, buf, bt, main>>
<1> DEFINE l == [sync["hash"] EXCEPT !.cs = "hash"]
<1>1. sync["hash"] \in LinkType
  BY Fields
<1>2. l \in LinkType
  BY <1>1 DEF LinkType
<1>3. Goto("hash", "move") /\ sync' = [sync EXCEPT !["hash"] = l]
  BY DEF EnterHashCS
<1> HIDE DEF l
<1>4. LinkBecomes("hash", l)
  BY <1>2, <1>3, OneLink DEF Links
<1>5. Moved("hash", "move")
  BY <1>3, GoesTo DEF PcsOf, HashPcs
<1> QED
  BY <1>4, <1>5 DEF EnterHashCS, l

LEMMA MoveBlockEffect ==
  ASSUME Shapes, MoveBlock
  PROVE  /\ pc.hash = "move" /\ Moved("hash", "check")
         /\ sync' \in [Links -> LinkType]
         /\ sync'.bt = [sync.bt EXCEPT !.cs = "nobody"]
         /\ sync'.hash = [sync.hash EXCEPT !.cs = "nobody"]
         /\ mf' = [mf EXCEPT !.base = mf.pos - KeepSizeBefore]
         /\ UNCHANGED <<buf, bt, main>>
<1> DEFINE l == [sync["bt"] EXCEPT !.cs = "nobody"]
           m == [sync["hash"] EXCEPT !.cs = "nobody"]
<1>1. sync["bt"] \in LinkType /\ sync["hash"] \in LinkType
  BY Fields
<1>2. l \in LinkType /\ m \in LinkType
  BY <1>1 DEF LinkType
<1>3. Goto("hash", "check") /\ sync' = [sync EXCEPT !["bt"] = l, !["hash"] = m]
  BY DEF MoveBlock
<1> HIDE DEF l, m
<1>4. sync' \in [Links -> LinkType] /\ sync'.bt = l /\ sync'.hash = m
  BY <1>2, <1>3, BothLinks
<1>5. Moved("hash", "check")
  BY <1>3, GoesTo DEF PcsOf, HashPcs
<1> QED
  BY <1>4, <1>5 DEF MoveBlock, l, m

(* A window after a read: the hash thread had room for what it wants, so   *)
(* too few bytes mean that there are no more.                              *)
LEMMA ReadsRight ==
  ASSUME Shapes, WindowRight, pc.hash = "fill", NEW w \in Reads
  PROVE  /\ w \in WindowType /\ w.base = mf.base /\ w.pos = mf.pos /\ w.blocks = mf.blocks
         /\ w.streamPos >= mf.streamPos /\ w.streamPos <= main.len
         /\ w.streamPos <= mf.base + BlockSize
         /\ w.ended => w.streamPos = main.len
         /\ AtEnd => w = mf
         /\ w.streamPos - w.pos <= KeepSizeAfter => w.ended \/ w.result # "ok"
<1> DEFINE room == mf.base + BlockSize
           top == IF main.len < room THEN main.len ELSE room
<1>1. /\ mf \in WindowType /\ mf.base \in Nat /\ mf.pos \in Nat /\ mf.streamPos \in Nat /\ main.len \in Nat
      /\ mf.blocks \in Nat /\ mf.ended \in BOOLEAN /\ mf.result \in {"ok", "read"}
  BY Fields DEF Shapes
<1>2. room \in Nat /\ top \in Nat /\ top <= main.len /\ top <= room /\ KeepSizeAfter \in Nat
  BY <1>1, WindowSizes
<1>3. /\ mf.pos <= mf.streamPos /\ mf.streamPos <= main.len /\ mf.streamPos <= room
      /\ mf.ended => mf.streamPos = main.len
      /\ room - mf.pos > KeepSizeAfter
  BY <1>1, WindowSizes DEF WindowRight, NeedMove
<1> DEFINE A == {[mf EXCEPT !.streamPos = p] :
                   p \in {q \in mf.streamPos..top : q - mf.pos > KeepSizeAfter \/ q = room}}
           B == IF top < room /\ top - mf.pos <= KeepSizeAfter
                THEN {[mf EXCEPT !.streamPos = top, !.ended = TRUE]} ELSE {}
           C == IF ReadFaults
                THEN {[mf EXCEPT !.streamPos = p, !.result = "read"] :
                        p \in {q \in mf.streamPos..top : q - mf.pos <= KeepSizeAfter}}
                ELSE {}
<1>4. CASE mf.ended \/ mf.result # "ok" \/ mf.streamPos - mf.pos > KeepSizeAfter
  <2>1. w = mf
    BY <1>4 DEF Reads
  <2> QED
    BY <1>1, <1>2, <1>3, <1>4, <2>1
<1>5. CASE ~(mf.ended \/ mf.result # "ok" \/ mf.streamPos - mf.pos > KeepSizeAfter)
  <2>1. w \in A \cup B \cup C
    BY <1>5 DEF Reads
  <2>2. ~AtEnd
    BY <1>5 DEF AtEnd
  <2>3. CASE w \in A
    <3>1. PICK p \in mf.streamPos..top : /\ w = [mf EXCEPT !.streamPos = p]
                                         /\ p - mf.pos > KeepSizeAfter \/ p = room
      BY <2>3
    <3> HIDE DEF room, top, A, B, C
    <3>2. p \in Nat /\ p - mf.pos > KeepSizeAfter
      BY <1>1, <1>2, <1>3, <3>1
    <3>3. w \in WindowType
      BY <1>1, <3>1, <3>2 DEF WindowType
    <3>4. /\ w.base = mf.base /\ w.pos = mf.pos /\ w.blocks = mf.blocks /\ w.streamPos = p
          /\ w.ended = mf.ended
      BY <1>1, <3>1, <3>2 DEF WindowType
    <3> QED
      BY <1>1, <1>2, <1>3, <1>5, <2>2, <3>1, <3>2, <3>3, <3>4 DEF room
  <2>4. CASE w \in B
    <3>1. w = [mf EXCEPT !.streamPos = top, !.ended = TRUE] /\ top < room
      BY <2>4
    <3>2. top = main.len
      BY <1>1, <1>2, <3>1
    <3> HIDE DEF room, top, A, B, C
    <3>3. w \in WindowType
      BY <1>1, <1>2, <3>1 DEF WindowType
    <3>4. /\ w.base = mf.base /\ w.pos = mf.pos /\ w.blocks = mf.blocks /\ w.streamPos = top
          /\ w.ended = TRUE
      BY <1>1, <1>2, <3>1 DEF WindowType
    <3> QED
      BY <1>1, <1>2, <1>3, <2>2, <3>1, <3>2, <3>3, <3>4 DEF room
  <2>5. CASE w \in C
    <3>1. PICK p \in mf.streamPos..top : w = [mf EXCEPT !.streamPos = p, !.result = "read"]
      BY <2>5
    <3> HIDE DEF room, top, A, B, C
    <3>2. p \in Nat
      BY <1>1, <1>2, <3>1
    <3>3. w \in WindowType
      BY <1>1, <3>1, <3>2 DEF WindowType
    <3>4. /\ w.base = mf.base /\ w.pos = mf.pos /\ w.blocks = mf.blocks /\ w.streamPos = p
          /\ w.ended = mf.ended /\ w.result = "read"
      BY <1>1, <3>1, <3>2 DEF WindowType
    <3> QED
      BY <1>1, <1>2, <1>3, <1>5, <2>2, <3>1, <3>2, <3>3, <3>4 DEF room
  <2> QED
    BY <2>1, <2>3, <2>4, <2>5
<1> QED
  BY <1>4, <1>5

NewHeads == LET num == mf'.streamPos - mf.pos IN
            [from |-> mf.pos, num |-> NumHeads(num), avail |-> num]

LEMMA FillHashBlockEffect ==
  ASSUME Shapes, WindowRight, FillHashBlock
  PROVE  /\ pc.hash = "fill" /\ Moved("hash", "check")
         /\ LinkBecomes("hash", [sync.hash EXCEPT !.filled = sync.hash.filled + 1])
         /\ mf' \in WindowType /\ mf'.base = mf.base /\ mf'.blocks = mf.blocks + 1
         /\ mf'.streamPos >= mf.streamPos /\ mf'.streamPos <= main.len
         /\ mf'.streamPos <= mf.base + BlockSize
         /\ mf'.ended => mf'.streamPos = main.len
         /\ AtEnd => AtEnd' /\ mf'.streamPos = mf.streamPos
         /\ mf'.streamPos - mf.pos <= KeepSizeAfter => AtEnd'
         /\ mf'.pos = mf.pos + Passed(NewHeads)
         /\ NewHeads.avail \in Nat /\ NewHeads.num \in 0..HashBlockSize
         /\ buf' = [buf EXCEPT !["hash"] = [buf["hash"] EXCEPT ![mf.blocks % HashNumBlocks] = NewHeads]]
         /\ UNCHANGED <<bt, main>>
<1>1. sync["hash"] \in LinkType /\ mf.blocks \in Nat /\ mf.pos \in Nat /\ mf.streamPos \in Nat
  BY Fields
<1>2. PICK a \in Nat : a = sync["hash"].filled + 1
  BY <1>1 DEF LinkType
<1> DEFINE l == [sync["hash"] EXCEPT !.filled = a]
<1>3. l \in LinkType
  BY <1>1 DEF LinkType
<1>4. Goto("hash", "check") /\ sync' = [sync EXCEPT !["hash"] = l]
  BY <1>2 DEF FillHashBlock
<1> HIDE DEF l
<1>5. LinkBecomes("hash", l)
  BY <1>3, <1>4, OneLink DEF Links
<1>6. Moved("hash", "check")
  BY <1>4, GoesTo DEF PcsOf, HashPcs
<1>7. pc.hash = "fill"
  BY DEF FillHashBlock
<1> DEFINE numOf(w) == w.streamPos - w.pos
<1>8. PICK w \in Reads :
        /\ buf' = [buf EXCEPT !["hash"] = [buf["hash"] EXCEPT ![mf.blocks % HashNumBlocks] =
                    [from |-> w.pos, num |-> NumHeads(numOf(w)), avail |-> numOf(w)]]]
        /\ mf' = [w EXCEPT !.blocks = w.blocks + 1,
                           !.pos = w.pos + IF numOf(w) < NumHashBytes THEN numOf(w)
                                           ELSE NumHeads(numOf(w))]
  BY DEF FillHashBlock
<1>9. /\ w \in WindowType /\ w.base = mf.base /\ w.pos = mf.pos /\ w.blocks = mf.blocks
      /\ w.streamPos >= mf.streamPos /\ w.streamPos <= main.len
      /\ w.streamPos <= mf.base + BlockSize
      /\ w.ended => w.streamPos = main.len
      /\ AtEnd => w = mf
      /\ w.streamPos - w.pos <= KeepSizeAfter => w.ended \/ w.result # "ok"
  BY <1>7, ReadsRight
<1>10. w.streamPos \in Nat /\ w.pos \in Nat /\ w.blocks \in Nat /\ mf.pos <= mf.streamPos
  BY <1>9 DEF WindowType, WindowRight
<1>11. numOf(w) \in Nat
  BY <1>1, <1>9, <1>10
<1> DEFINE h == NumHeads(numOf(w))
<1>12. h \in Nat /\ h \in 0..HashBlockSize
  BY <1>11, HeadsInBlock, Sizes
<1>13. PICK p \in Nat, q \in Nat : /\ p = w.pos + IF numOf(w) < NumHashBytes THEN numOf(w) ELSE h
                                   /\ q = w.blocks + 1
  BY <1>10, <1>11, <1>12
<1>14. mf' = [w EXCEPT !.blocks = q, !.pos = p]
  BY <1>8, <1>13
<1>15. /\ mf' \in WindowType /\ mf'.base = w.base /\ mf'.blocks = q /\ mf'.pos = p
       /\ mf'.streamPos = w.streamPos /\ mf'.ended = w.ended /\ mf'.result = w.result
  BY <1>9, <1>14 DEF WindowType
<1>16. NewHeads = [from |-> w.pos, num |-> h, avail |-> numOf(w)]
  BY <1>9, <1>15 DEF NewHeads
<1> HIDE DEF h, numOf
<1>17. p = mf.pos + Passed(NewHeads)
  BY <1>9, <1>13, <1>16 DEF Passed
<1>18. NewHeads.avail \in Nat /\ NewHeads.num \in 0..HashBlockSize
  BY <1>11, <1>12, <1>16
<1>19. AtEnd => AtEnd' /\ mf'.streamPos = mf.streamPos
  BY <1>9, <1>15 DEF AtEnd
<1>20. mf'.streamPos - mf.pos <= KeepSizeAfter => AtEnd'
  BY <1>9, <1>15 DEF AtEnd
<1>21. buf' = [buf EXCEPT !["hash"] = [buf["hash"] EXCEPT ![mf.blocks % HashNumBlocks] = NewHeads]]
  BY <1>8, <1>16 DEF h
<1>22. mf'.blocks = mf.blocks + 1
  BY <1>9, <1>13, <1>15
<1>23. UNCHANGED <<bt, main>>
  BY DEF FillHashBlock
<1>24. LinkBecomes("hash", [sync.hash EXCEPT !.filled = sync.hash.filled + 1])
  BY <1>2, <1>5 DEF l
<1> QED
  BY <1>6, <1>7, <1>9, <1>15, <1>17, <1>18, <1>19, <1>20, <1>21, <1>22, <1>23, <1>24

LEMMA BtStopEffect ==
  ASSUME Shapes, BtStop
  PROVE  /\ pc.bt = "check" /\ ~sync.bt.exit /\ sync.bt.stopWriting /\ Moved("bt", "stop")
         /\ LinkBecomes("bt", [sync.bt EXCEPT !.numProcessed = bt.blocks])
         /\ UNCHANGED <<mf, buf, bt, main>>
<1>1. sync["bt"] \in LinkType /\ bt.blocks \in Nat
  BY Fields
<1> DEFINE l == [sync["bt"] EXCEPT !.numProcessed = bt.blocks]
<1>2. l \in LinkType
  BY <1>1 DEF LinkType
<1>3. Goto("bt", "stop") /\ sync' = [sync EXCEPT !["bt"] = l]
  BY DEF BtStop
<1> HIDE DEF l
<1>4. LinkBecomes("bt", l)
  BY <1>2, <1>3, OneLink DEF Links
<1>5. Moved("bt", "stop")
  BY <1>3, GoesTo DEF PcsOf, BtPcs
<1> QED
  BY <1>4, <1>5 DEF BtStop, l

LEMMA BtStoppedEffect ==
  ASSUME Shapes, BtStopped
  PROVE  /\ pc.bt = "stopped" /\ Moved("bt", "start")
         /\ LinkBecomes("bt", [sync.bt EXCEPT !.wasStopped = TRUE])
         /\ UNCHANGED <<mf, buf, bt, main>>
<1>1. sync["bt"] \in LinkType
  BY Fields
<1> DEFINE l == [sync["bt"] EXCEPT !.wasStopped = TRUE]
<1>2. l \in LinkType
  BY <1>1 DEF LinkType
<1>3. Goto("bt", "start") /\ sync' = [sync EXCEPT !["bt"] = l]
  BY DEF BtStopped
<1> HIDE DEF l
<1>4. LinkBecomes("bt", l)
  BY <1>2, <1>3, OneLink DEF Links
<1>5. Moved("bt", "start")
  BY <1>3, GoesTo DEF PcsOf, BtPcs
<1> QED
  BY <1>4, <1>5 DEF BtStopped, l

LEMMA BtCheckEffect ==
  ASSUME Shapes, BtCheck
  PROVE  /\ pc.bt = "check" /\ ~sync.bt.exit /\ ~sync.bt.stopWriting /\ Moved("bt", "free")
         /\ UNCHANGED <<sync, mf, buf, bt, main>>
BY GoesTo DEF BtCheck, PcsOf, BtPcs

LEMMA BtFillBlockEffect ==
  ASSUME Shapes, BtFillBlock
  PROVE  /\ pc.bt = "fill" /\ Moved("bt", IF bt.left = 0 THEN "get" ELSE "matches")
         /\ IF sync.hash.needStart THEN UNCHANGED sync
            ELSE /\ sync.hash.cs = "nobody"
                 /\ LinkBecomes("hash", [sync.hash EXCEPT !.cs = "bt", !.csWasEntered = TRUE])
         /\ bt' \in TreeType /\ bt'.blocks = bt.blocks /\ bt'.pos = bt.pos /\ bt'.slot = bt.slot
         /\ bt'.left = bt.left /\ bt'.avail = bt.avail
         /\ bt'.first = bt.pos /\ bt'.count = 0 /\ bt'.availOut = bt.avail
         /\ buf' = [buf EXCEPT !["bt"] = [buf["bt"] EXCEPT ![bt.blocks % BtNumBlocks] = Garbage]]
         /\ UNCHANGED <<mf, main>>
<1>1. sync["hash"] \in LinkType
  BY Fields
<1> DEFINE l == [sync["hash"] EXCEPT !.cs = "bt", !.csWasEntered = TRUE]
<1>2. l \in LinkType
  BY <1>1 DEF LinkType
<1>3. Moved("bt", IF bt.left = 0 THEN "get" ELSE "matches")
  BY GoesTo DEF BtFillBlock, PcsOf, BtPcs
<1>4. ~sync.hash.needStart => sync' = [sync EXCEPT !["hash"] = l]
  BY DEF BtFillBlock
<1> HIDE DEF l
<1>5. ~sync.hash.needStart => LinkBecomes("hash", l)
  BY <1>2, <1>4, OneLink DEF Links
<1>6. ~sync.hash.needStart => LinkBecomes("hash", [sync.hash EXCEPT !.cs = "bt", !.csWasEntered = TRUE])
  BY <1>5 DEF l
<1>7. PICK p \in Nat, q \in Nat : p = bt.pos /\ q = bt.avail
  BY Fields
<1>8. bt \in TreeType /\ bt' = [bt EXCEPT !.first = p, !.count = 0, !.availOut = q] /\ 0 \in 0..BtBlockSize
  BY <1>7, Sizes DEF Shapes, BtFillBlock
<1>9. /\ bt' \in TreeType /\ bt'.blocks = bt.blocks /\ bt'.pos = bt.pos /\ bt'.slot = bt.slot
      /\ bt'.left = bt.left /\ bt'.avail = bt.avail
      /\ bt'.first = p /\ bt'.count = 0 /\ bt'.availOut = q
  BY <1>8 DEF TreeType
<1> QED
  BY <1>3, <1>6, <1>7, <1>9 DEF BtFillBlock

LEMMA FindMatchesEffect ==
  ASSUME Shapes, FindMatches
  PROVE  /\ pc.bt = "matches"
         /\ \E m \in Nat :
              /\ m > 0 /\ m <= bt.left /\ m <= BtLimit - bt.count
              /\ bt' = [bt EXCEPT !.pos = bt.pos + m, !.left = bt.left - m, !.avail = bt.avail - m,
                                  !.count = bt.count + m]
              /\ \/ Moved("bt", "leave")
                 \/ m = bt.left /\ bt.count + m < BtLimit /\ Moved("bt", "get")
         /\ UNCHANGED <<sync, mf, buf, main>>
<1>1. bt.left \in Nat /\ bt.count \in Nat
  BY Fields
<1>2. PICK m \in 1..Min({bt.left, BtLimit - bt.count}) :
        /\ bt' = [bt EXCEPT !.pos = bt.pos + m, !.left = bt.left - m, !.avail = bt.avail - m,
                            !.count = bt.count + m]
        /\ \/ Goto("bt", "leave")
           \/ m = bt.left /\ bt.count + m < BtLimit /\ Goto("bt", "get")
  BY DEF FindMatches
<1>3. Min({bt.left, BtLimit - bt.count}) = IF bt.left <= BtLimit - bt.count THEN bt.left ELSE BtLimit - bt.count
  BY <1>1, Sizes, LesserOf
<1>4. m \in Nat /\ m > 0 /\ m <= bt.left /\ m <= BtLimit - bt.count
  BY <1>1, <1>2, <1>3, Sizes
<1>5. \/ Moved("bt", "leave")
      \/ m = bt.left /\ bt.count + m < BtLimit /\ Moved("bt", "get")
  BY <1>2, GoesTo DEF PcsOf, BtPcs
<1> QED
  BY <1>2, <1>4, <1>5 DEF FindMatches

LEMMA GotHashBlockEffect ==
  ASSUME Shapes, GotHashBlock
  PROVE  /\ pc.bt = "got"
         /\ IF bt.avail >= NumHashBytes
            THEN Moved("bt", "matches") /\ UNCHANGED bt
            ELSE /\ bt' = [bt EXCEPT !.count = bt.count + bt.avail, !.avail = 0]
                 /\ Moved("bt", "leave")
         /\ UNCHANGED <<sync, mf, buf, main>>
BY GoesTo DEF GotHashBlock, PcsOf, BtPcs

LEMMA BtBlockDoneEffect ==
  ASSUME Shapes, BtBlockDone
  PROVE  /\ pc.bt = "leave" /\ Moved("bt", "check")
         /\ sync' \in [Links -> LinkType]
         /\ sync'.bt = [sync.bt EXCEPT !.filled = sync.bt.filled + 1]
         /\ sync'.hash = IF sync.hash.needStart THEN sync.hash
                         ELSE [sync.hash EXCEPT !.cs = "nobody", !.csWasEntered = FALSE]
         /\ buf' = [buf EXCEPT !["bt"] = [buf["bt"] EXCEPT ![bt.blocks % BtNumBlocks] =
                     [from |-> bt.first, num |-> bt.count, avail |-> bt.availOut]]]
         /\ bt' \in TreeType /\ bt'.blocks = bt.blocks + 1 /\ bt'.pos = bt.pos /\ bt'.slot = bt.slot
         /\ bt'.left = bt.left /\ bt'.avail = bt.avail
         /\ bt'.first = bt.first /\ bt'.count = bt.count /\ bt'.availOut = bt.availOut
         /\ UNCHANGED <<mf, main>>
<1>1. sync["bt"] \in LinkType /\ sync["hash"] \in LinkType
  BY Fields
<1>2. PICK a \in Nat : a = sync["bt"].filled + 1
  BY <1>1 DEF LinkType
<1>3. PICK c \in {"nobody", "hash", "main", "bt"}, e \in BOOLEAN :
        /\ c = IF sync["hash"].needStart THEN sync["hash"].cs ELSE "nobody"
        /\ e = IF sync["hash"].needStart THEN sync["hash"].csWasEntered ELSE FALSE
  BY <1>1 DEF LinkType
<1> DEFINE l == [sync["bt"] EXCEPT !.filled = a]
           m == [sync["hash"] EXCEPT !.cs = c, !.csWasEntered = e]
<1>4. l \in LinkType /\ m \in LinkType
  BY <1>1 DEF LinkType
<1>5. sync' = [sync EXCEPT !["bt"] = l, !["hash"] = m]
  BY <1>1, <1>2, <1>3 DEF BtBlockDone, Shapes, Links
<1>6. m = IF sync["hash"].needStart THEN sync["hash"]
          ELSE [sync["hash"] EXCEPT !.cs = "nobody", !.csWasEntered = FALSE]
  BY <1>1, <1>3 DEF LinkType
<1> HIDE DEF l, m
<1>7. sync' \in [Links -> LinkType] /\ sync'.bt = l /\ sync'.hash = m
  BY <1>4, <1>5, BothLinks
<1>8. Moved("bt", "check")
  BY GoesTo DEF BtBlockDone, PcsOf, BtPcs
<1>9. bt \in TreeType /\ bt.blocks \in Nat /\ bt' = [bt EXCEPT !.blocks = bt.blocks + 1]
  BY Fields DEF Shapes, BtBlockDone
<1>10. /\ bt' \in TreeType /\ bt'.blocks = bt.blocks + 1 /\ bt'.pos = bt.pos /\ bt'.slot = bt.slot
       /\ bt'.left = bt.left /\ bt'.avail = bt.avail
       /\ bt'.first = bt.first /\ bt'.count = bt.count /\ bt'.availOut = bt.availOut
  BY <1>9 DEF TreeType
<1>11. l = [sync["bt"] EXCEPT !.filled = sync["bt"].filled + 1]
  BY <1>2 DEF l
<1> QED
  BY <1>6, <1>7, <1>8, <1>10, <1>11 DEF BtBlockDone

LEMMA CreateEffect ==
  ASSUME Shapes, Create
  PROVE  /\ pc.main = "idle" /\ pc' \in PcType /\ pc'.round = pc.round + 1
         /\ \/ /\ pc'.main = "init"
               /\ pc'.hash = IF pc.hash = "none" THEN "start" ELSE pc.hash
               /\ pc'.bt = IF pc.bt = "none" THEN "start" ELSE pc.bt
            \/ pc'.main = "idle" /\ pc'.bt = pc.bt /\ pc'.hash \in {pc.hash, "start"}
         /\ UNCHANGED <<sync, mf, buf, bt, main>>
<1>1. /\ pc \in PcType /\ pc.round \in 0..MaxRounds /\ pc.round < MaxRounds /\ pc.main = "idle"
      /\ pc.bt \in BtPcs /\ pc.hash \in HashPcs
  BY DEF Shapes, PcType, Create
<1>2. PICK r \in 0..MaxRounds : r = pc.round + 1
  BY <1>1, Sizes
<1>3. PICK h \in HashPcs, b \in BtPcs : /\ h = IF pc.hash = "none" THEN "start" ELSE pc.hash
                                        /\ b = IF pc.bt = "none" THEN "start" ELSE pc.bt
  BY <1>1 DEF HashPcs, BtPcs
<1>4. \/ pc' = [pc EXCEPT !.main = "init", !.round = r, !.hash = h, !.bt = b]
      \/ \E g \in {pc.hash, "start"} : pc' = [pc EXCEPT !.round = r, !.hash = g]
  BY <1>2, <1>3 DEF Create
<1>5. CASE pc' = [pc EXCEPT !.main = "init", !.round = r, !.hash = h, !.bt = b]
  <2>1. pc' \in PcType /\ pc'.main = "init" /\ pc'.round = r /\ pc'.hash = h /\ pc'.bt = b
    BY <1>1, <1>5 DEF PcType, MainPcs
  <2> QED
    BY <1>1, <1>2, <1>3, <2>1 DEF Create
<1>6. CASE \E g \in {pc.hash, "start"} : pc' = [pc EXCEPT !.round = r, !.hash = g]
  <2>1. PICK g \in {pc.hash, "start"} : pc' = [pc EXCEPT !.round = r, !.hash = g]
    BY <1>6
  <2>2. g \in HashPcs
    BY <1>1 DEF HashPcs
  <2>3. pc' \in PcType /\ pc'.main = pc.main /\ pc'.round = r /\ pc'.hash = g /\ pc'.bt = pc.bt
    BY <1>1, <2>1, <2>2 DEF PcType
  <2> QED
    BY <1>1, <1>2, <2>3 DEF Create
<1> QED
  BY <1>4, <1>5, <1>6

LEMMA InitStreamEffect ==
  ASSUME Shapes, InitStream, pc.round >= 1
  PROVE  /\ pc.main = "init" /\ Moved("main", "get")
         /\ mf' = NewWindow /\ bt' = NewTree /\ Rings'
         /\ \E len \in Nat : main' = NewMain(len)
         /\ UNCHANGED sync
<1>1. pc.main = "init" /\ Moved("main", "get") /\ pc.round \in 1..MaxRounds
  BY GoesTo DEF InitStream, PcsOf, MainPcs, Shapes, PcType
<1>2. \E len \in Nat : main' = NewMain(len)
  <2>1. PICK len \in Lens[pc.round] : main' = NewMain(len)
    BY DEF InitStream
  <2> QED
    BY <1>1, <2>1, ConstantsAssumption
<1>3. Rings'
  BY DEF InitStream, Rings, Garbage, BlockType
<1> QED
  BY <1>1, <1>2, <1>3 DEF InitStream

LEMMA GetMatchesEffect ==
  ASSUME Shapes, GetMatches, main.avail > 0
  PROVE  /\ pc.main = "got" /\ main.left > 0
         /\ main' \in EncoderType /\ main'.len = main.len /\ main'.slot = main.slot
         /\ main'.left = main.left - 1 /\ main'.avail = main.avail - 1 /\ main'.lzPos = main.lzPos + 1
         /\ UNCHANGED <<pc, sync, mf, buf, bt>>
<1>1. /\ main \in EncoderType /\ main.left > 0 /\ main.left \in 0..BtBlockSize /\ main.avail \in Nat
      /\ main.lzPos \in Nat
  BY DEF Shapes, EncoderType, GetMatches
<1>2. PICK l \in 0..BtBlockSize, a \in Nat, p \in Nat :
        l = main.left - 1 /\ a = main.avail - 1 /\ p = main.lzPos + 1
  BY <1>1, Sizes
<1>3. main' = [main EXCEPT !.left = l, !.avail = a, !.lzPos = p]
  BY <1>2 DEF GetMatches
<1>4. /\ main' \in EncoderType /\ main'.len = main.len /\ main'.slot = main.slot
      /\ main'.left = l /\ main'.avail = a /\ main'.lzPos = p
  BY <1>1, <1>3 DEF EncoderType
<1> QED
  BY <1>2, <1>4 DEF GetMatches

LEMMA MainMoves ==
  ASSUME Shapes
  PROVE  /\ GetNumAvailableBytes =>
              /\ pc.main = "got" /\ main.left = 0 /\ Moved("main", "get")
              /\ UNCHANGED <<sync, mf, buf, bt, main>>
         /\ Finish => pc.main = "got" /\ Moved("main", "stop") /\ UNCHANGED <<sync, mf, buf, bt, main>>
         /\ Finished => /\ pc.main = "stopped" /\ Moved("main", "idle")
                        /\ UNCHANGED <<sync, mf, buf, bt, main>>
         /\ Destruct => /\ pc.main = "idle" /\ Moved("main", "endHash")
                        /\ UNCHANGED <<sync, mf, buf, bt, main>>
BY GoesTo DEF GetNumAvailableBytes, Finish, Finished, Destruct, PcsOf, MainPcs

LEMMA EndThreadEffect ==
  ASSUME Shapes, NEW s \in Links, NEW here, NEW join \in MainPcs, NEW next \in MainPcs,
         EndThread(s, here, join, next)
  PROVE  /\ pc.main = here
         /\ IF pc[s] = "none"
            THEN Moved("main", next) /\ UNCHANGED sync
            ELSE /\ Moved("main", join)
                 /\ LinkBecomes(s, [sync[s] EXCEPT !.exit = TRUE, !.canStart = TRUE])
         /\ UNCHANGED <<mf, buf, bt, main>>
<1> DEFINE l == [sync[s] EXCEPT !.exit = TRUE, !.canStart = TRUE]
<1>1. sync[s] \in LinkType
  BY DEF Shapes
<1>2. l \in LinkType
  BY <1>1 DEF LinkType
<1>3. pc[s] # "none" => sync' = [sync EXCEPT ![s] = l]
  BY <1>1 DEF EndThread, Shapes
<1> HIDE DEF l
<1>4. pc[s] # "none" => LinkBecomes(s, l)
  BY <1>2, <1>3, OneLink
<1>5. pc[s] # "none" => Moved("main", join)
  BY GoesTo DEF EndThread, PcsOf
<1>6. pc[s] = "none" => Moved("main", next)
  BY GoesTo DEF EndThread, PcsOf
<1> QED
  BY <1>4, <1>5, <1>6 DEF EndThread, l

LEMMA JoinThreadEffect ==
  ASSUME Shapes, NEW s \in Links, NEW join, NEW next \in MainPcs, JoinThread(s, join, next)
  PROVE  /\ pc.main = join /\ pc[s] = "exited" /\ Moved("main", next)
         /\ UNCHANGED <<sync, mf, buf, bt, main>>
BY GoesTo DEF JoinThread, PcsOf

-----------------------------------------------------------------------------
(* Where the threads of a link are.                                        *)

LEMMA LinkFields ==
  ASSUME Shapes, NEW s \in Links
  PROVE  /\ sync[s] \in LinkType
         /\ sync[s].needStart \in BOOLEAN /\ sync[s].exit \in BOOLEAN /\ sync[s].stopWriting \in BOOLEAN
         /\ sync[s].canStart \in BOOLEAN /\ sync[s].wasStarted \in BOOLEAN
         /\ sync[s].wasStopped \in BOOLEAN /\ sync[s].csWasEntered \in BOOLEAN
         /\ sync[s].free \in Nat /\ sync[s].filled \in Nat
         /\ sync[s].numProcessed \in Nat /\ sync[s].mine \in Nat
         /\ sync[s].cs \in {"nobody", "hash", "main", "bt"}
BY DEF Shapes, LinkType

(* A consumer at one of these has started its producer.                    *)
LEMMA ConsumerActive ==
  ASSUME IInv, NEW s \in Links,
         pc[Consumer(s)] \in {"started", "filled", "enter", "got", "wait", "matches", "leave"}
  PROVE  Streaming /\ ~sync[s].needStart /\ Handshake(s) /\ Counting(s)
<1>1. Streaming
  <2>1. CASE s = "bt"
    BY <2>1, Fields DEF Consumer, Streaming, IInv, MainPcs
  <2>2. CASE s = "hash"
    BY <2>2, Fields DEF Consumer, IInv, Places, Links
  <2> QED
    BY <2>1, <2>2 DEF Links
<1>2. ~Resting(s)
  BY DEF Resting, RestPcs
<1> QED
  BY <1>1, <1>2, LinkFields DEF IInv, LinkRight, Links

(* So is one with a block, or at the end of what it does with blocks.      *)
LEMMA ConsumerStarted ==
  ASSUME IInv, NEW s \in Links, pc[Consumer(s)] \in {"get", "stop"}, ~sync[s].needStart
  PROVE  Streaming /\ Handshake(s) /\ Counting(s)
<1>1. Streaming
  <2>1. CASE s = "bt"
    BY <2>1, Fields DEF Consumer, Streaming, IInv, MainPcs
  <2>2. CASE s = "hash"
    BY <2>2, Fields DEF Consumer, IInv, Places, Links
  <2> QED
    BY <2>1, <2>2 DEF Links
<1> QED
  BY <1>1 DEF IInv, LinkRight, Links

(* A producer at work has been started.                                    *)
LEMMA ProducerActive ==
  ASSUME IInv, NEW s \in Links, pc[s] \notin {"none", "start", "check", "exited"}
  PROVE  Streaming /\ ~sync[s].needStart /\ Handshake(s) /\ Counting(s)
<1>1. Streaming
  BY DEF IInv, Places
<1>2. ~Resting(s)
  BY DEF Resting
<1> QED
  BY <1>1, <1>2 DEF IInv, LinkRight, Links

Control == Places /\ Sections /\ LinkRight("bt") /\ LinkRight("hash")

-----------------------------------------------------------------------------
(* The encoder's calls of its link keep the places, the critical sections  *)
(* and the counts.                                                         *)

LEMMA BtGetFirstControl ==
  ASSUME IInv, GetFirst("bt")
  PROVE  Control'
<1>1. /\ pc.main = "get" /\ sync.bt.needStart /\ Moved("main", "started")
      /\ LinkBecomes("bt", [sync.bt EXCEPT !.numProcessed = 1, !.needStart = FALSE,
              !.stopWriting = FALSE, !.exit = FALSE, !.wasStarted = FALSE, !.wasStopped = FALSE,
              !.canStart = TRUE])
      /\ UNCHANGED <<mf, buf, bt, main>>
  BY GetFirstEffect DEF Links, Consumer, IInv
<1>2. sync.bt \in LinkType
  BY LinkFields DEF IInv, Links
<1>3. /\ pc'.main = "started" /\ pc'.bt = pc.bt /\ pc'.hash = pc.hash
      /\ sync'.hash = sync.hash
      /\ sync'.bt.numProcessed = 1 /\ ~sync'.bt.needStart /\ ~sync'.bt.stopWriting
      /\ ~sync'.bt.exit /\ ~sync'.bt.wasStarted /\ ~sync'.bt.wasStopped /\ sync'.bt.canStart
      /\ sync'.bt.free = sync.bt.free /\ sync'.bt.filled = sync.bt.filled
      /\ sync'.bt.cs = sync.bt.cs /\ sync'.bt.csWasEntered = sync.bt.csWasEntered
      /\ sync'.bt.mine = sync.bt.mine
  BY <1>1, <1>2, SMTT(30), ZenonT(30) DEF Moved, LinkBecomes, LinkType
<1>4. Streaming /\ Streaming' /\ Resting("bt") /\ pc.bt = "start" /\ bt.blocks = 0
  BY <1>1, <1>3 DEF Streaming, IInv, LinkRight, Resting, Links, MainRight, NewTree
<1>5. Places'
  BY <1>3, <1>4 DEF IInv, Places, Streaming
<1>6. Sections'
  BY <1>1, <1>3, <1>4 DEF IInv, Sections, Streaming
<1>7. LinkRight("bt")'
  BY <1>1, <1>3, <1>4, Sizes DEF Resting, AtRest, LinkRight, Handshake, Counting, Consumer, BusyPcs, Blocks, Held,
    Holding, Filling, NotTaken, RingSize
<1>8. LinkRight("hash")'
  BY <1>1, <1>3, <1>4 DEF IInv, LinkRight, Resting, RestPcs, AtRest, Handshake, Counting, Consumer, BusyPcs,
    Blocks, Held, Holding, Filling, NotTaken, RingSize
<1> QED
  BY <1>5, <1>6, <1>7, <1>8 DEF Control
LEMMA BtAwaitStartedControl ==
  ASSUME IInv, AwaitStarted("bt")
  PROVE  Control'
<1>1. /\ pc.main = "started" /\ sync.bt.wasStarted
      /\ Moved("main", "filled")
      /\ LinkBecomes("bt", [sync.bt EXCEPT !.wasStarted = FALSE])
      /\ UNCHANGED <<mf, buf, bt, main>>
  BY AwaitStartedEffect DEF Links, Consumer, IInv
<1>2. sync.bt \in LinkType /\ sync.hash \in LinkType
  BY LinkFields DEF IInv, Links
<1>3. /\ pc'.main = "filled" /\ pc'.bt = pc.bt /\ pc'.hash = pc.hash /\ ~sync'.bt.wasStarted
      /\ sync'.bt.needStart = sync.bt.needStart /\ sync'.bt.exit = sync.bt.exit
      /\ sync'.bt.stopWriting = sync.bt.stopWriting /\ sync'.bt.canStart = sync.bt.canStart
      /\ sync'.bt.wasStopped = sync.bt.wasStopped /\ sync'.bt.free = sync.bt.free
      /\ sync'.bt.filled = sync.bt.filled /\ sync'.bt.cs = sync.bt.cs
      /\ sync'.bt.csWasEntered = sync.bt.csWasEntered
      /\ sync'.bt.numProcessed = sync.bt.numProcessed /\ sync'.bt.mine = sync.bt.mine
      /\ sync'.hash = sync.hash
  BY <1>1, <1>2 DEF Moved, LinkBecomes, LinkType
<1>4. /\ Streaming /\ Streaming' /\ ~sync.bt.needStart /\ Handshake("bt") /\ Counting("bt")
      /\ sync.bt.free \in Nat /\ sync.bt.filled \in Nat /\ sync.bt.numProcessed \in Nat /\ sync.bt.mine \in Nat /\ bt.blocks \in Nat
  BY <1>1, <1>3, ConsumerActive, LinkFields, Fields DEF IInv, Links, Consumer, Streaming
<1>5. Places'
  BY <1>1, <1>3, <1>4, Sizes DEF IInv, Places, Streaming, Links, AtRest, RingSize
<1>6. Sections'
  BY <1>1, <1>2, <1>3, <1>4 DEF IInv, Sections, Streaming, LinkType
<1>7. LinkRight("bt")'
  BY <1>1, <1>3, <1>4, Sizes DEF IInv, Resting, RestPcs, AtRest, LinkRight, Handshake, Counting, Consumer, BusyPcs, Blocks,
    Held, Holding, Filling, NotTaken, RingSize
<1>8. LinkRight("hash")'
  BY <1>1, <1>3, <1>4, Sizes DEF IInv, Resting, RestPcs, AtRest, LinkRight, Handshake, Counting, Consumer, BusyPcs, Blocks,
    Held, Holding, Filling, NotTaken, RingSize
<1> QED
  BY <1>5, <1>6, <1>7, <1>8 DEF Control

LEMMA BtGetNextControl ==
  ASSUME IInv, GetNext("bt")
  PROVE  Control'
<1>1. /\ pc.main = "get" /\ ~sync.bt.needStart
      /\ Moved("main", "filled")
      /\ LinkBecomes("bt", [sync.bt EXCEPT !.cs = "nobody", !.csWasEntered = FALSE, !.numProcessed = sync.bt.numProcessed + 1, !.free = sync.bt.free + 1])
      /\ UNCHANGED <<mf, buf, bt, main>>
  BY GetNextEffect DEF Links, Consumer, IInv
<1>2. sync.bt \in LinkType /\ sync.hash \in LinkType
  BY LinkFields DEF IInv, Links
<1>3. /\ pc'.main = "filled" /\ pc'.bt = pc.bt /\ pc'.hash = pc.hash
      /\ sync'.bt.free = sync.bt.free + 1 /\ sync'.bt.cs = "nobody" /\ ~sync'.bt.csWasEntered
      /\ sync'.bt.numProcessed = sync.bt.numProcessed + 1
      /\ sync'.bt.needStart = sync.bt.needStart /\ sync'.bt.exit = sync.bt.exit
      /\ sync'.bt.stopWriting = sync.bt.stopWriting /\ sync'.bt.canStart = sync.bt.canStart
      /\ sync'.bt.wasStarted = sync.bt.wasStarted /\ sync'.bt.wasStopped = sync.bt.wasStopped
      /\ sync'.bt.filled = sync.bt.filled /\ sync'.bt.mine = sync.bt.mine
      /\ sync'.hash = sync.hash
  BY <1>1, <1>2 DEF Moved, LinkBecomes, LinkType
<1>4. /\ Streaming /\ Streaming' /\ ~sync.bt.needStart /\ Handshake("bt") /\ Counting("bt")
      /\ sync.bt.free \in Nat /\ sync.bt.filled \in Nat /\ sync.bt.numProcessed \in Nat /\ sync.bt.mine \in Nat /\ bt.blocks \in Nat
  BY <1>1, <1>3, ConsumerStarted, LinkFields, Fields DEF IInv, Links, Consumer, Streaming
<1>5. Places'
  BY <1>1, <1>3, <1>4, Sizes DEF IInv, Places, Streaming, Links, AtRest, RingSize
<1>6. Sections'
  BY <1>1, <1>2, <1>3, <1>4 DEF IInv, Sections, Streaming, LinkType
<1>7. LinkRight("bt")'
  BY <1>1, <1>3, <1>4, Sizes DEF IInv, Resting, RestPcs, AtRest, LinkRight, Handshake, Counting, Consumer, BusyPcs, Blocks,
    Held, Holding, Filling, NotTaken, RingSize
<1>8. LinkRight("hash")'
  BY <1>1, <1>3, <1>4, Sizes DEF IInv, Resting, RestPcs, AtRest, LinkRight, Handshake, Counting, Consumer, BusyPcs, Blocks,
    Held, Holding, Filling, NotTaken, RingSize
<1> QED
  BY <1>5, <1>6, <1>7, <1>8 DEF Control

LEMMA BtTakeFilledControl ==
  ASSUME IInv, TakeFilled("bt")
  PROVE  Control'
<1>1. /\ pc.main = "filled" /\ sync.bt.filled > 0
      /\ Moved("main", "enter")
      /\ LinkBecomes("bt", [sync.bt EXCEPT !.filled = sync.bt.filled - 1])
      /\ UNCHANGED <<mf, buf, bt, main>>
  BY TakeFilledEffect DEF Links, Consumer, IInv
<1>2. sync.bt \in LinkType /\ sync.hash \in LinkType
  BY LinkFields DEF IInv, Links
<1>3. /\ pc'.main = "enter" /\ pc'.bt = pc.bt /\ pc'.hash = pc.hash
      /\ sync'.bt.filled = sync.bt.filled - 1 /\ sync'.bt.needStart = sync.bt.needStart
      /\ sync'.bt.exit = sync.bt.exit /\ sync'.bt.stopWriting = sync.bt.stopWriting
      /\ sync'.bt.canStart = sync.bt.canStart /\ sync'.bt.wasStarted = sync.bt.wasStarted
      /\ sync'.bt.wasStopped = sync.bt.wasStopped /\ sync'.bt.free = sync.bt.free
      /\ sync'.bt.cs = sync.bt.cs /\ sync'.bt.csWasEntered = sync.bt.csWasEntered
      /\ sync'.bt.numProcessed = sync.bt.numProcessed /\ sync'.bt.mine = sync.bt.mine
      /\ sync'.hash = sync.hash
  BY <1>1, <1>2 DEF Moved, LinkBecomes, LinkType
<1>4. /\ Streaming /\ Streaming' /\ ~sync.bt.needStart /\ Handshake("bt") /\ Counting("bt")
      /\ sync.bt.free \in Nat /\ sync.bt.filled \in Nat /\ sync.bt.numProcessed \in Nat /\ sync.bt.mine \in Nat /\ bt.blocks \in Nat
  BY <1>1, <1>3, ConsumerActive, LinkFields, Fields DEF IInv, Links, Consumer, Streaming
<1>5. Places'
  BY <1>1, <1>3, <1>4, Sizes DEF IInv, Places, Streaming, Links, AtRest, RingSize
<1>6. Sections'
  BY <1>1, <1>2, <1>3, <1>4 DEF IInv, Sections, Streaming, LinkType
<1>7. LinkRight("bt")'
  BY <1>1, <1>3, <1>4, Sizes DEF IInv, Resting, RestPcs, AtRest, LinkRight, Handshake, Counting, Consumer, BusyPcs, Blocks,
    Held, Holding, Filling, NotTaken, RingSize
<1>8. LinkRight("hash")'
  BY <1>1, <1>3, <1>4, Sizes DEF IInv, Resting, RestPcs, AtRest, LinkRight, Handshake, Counting, Consumer, BusyPcs, Blocks,
    Held, Holding, Filling, NotTaken, RingSize
<1> QED
  BY <1>5, <1>6, <1>7, <1>8 DEF Control

LEMMA BtEnterCSControl ==
  ASSUME IInv, EnterCS("bt")
  PROVE  Control'
<1>1. /\ pc.main = "enter" /\ sync.bt.cs = "nobody"
      /\ Moved("main", "got")
      /\ LinkBecomes("bt", [sync.bt EXCEPT !.cs = "main", !.csWasEntered = TRUE])
      /\ UNCHANGED <<mf, buf>>
  BY EnterCSEffect DEF Links, Consumer, IInv
<1>2. sync.bt \in LinkType /\ sync.hash \in LinkType
  BY LinkFields DEF IInv, Links
<1>3. /\ pc'.main = "got" /\ pc'.bt = pc.bt /\ pc'.hash = pc.hash /\ sync'.bt.cs = "main"
      /\ sync'.bt.csWasEntered /\ sync'.bt.needStart = sync.bt.needStart
      /\ sync'.bt.exit = sync.bt.exit /\ sync'.bt.stopWriting = sync.bt.stopWriting
      /\ sync'.bt.canStart = sync.bt.canStart /\ sync'.bt.wasStarted = sync.bt.wasStarted
      /\ sync'.bt.wasStopped = sync.bt.wasStopped /\ sync'.bt.free = sync.bt.free
      /\ sync'.bt.filled = sync.bt.filled /\ sync'.bt.numProcessed = sync.bt.numProcessed
      /\ sync'.bt.mine = sync.bt.mine /\ sync'.hash = sync.hash
  BY <1>1, <1>2 DEF Moved, LinkBecomes, LinkType
<1>4. /\ Streaming /\ Streaming' /\ ~sync.bt.needStart /\ Handshake("bt") /\ Counting("bt")
      /\ sync.bt.free \in Nat /\ sync.bt.filled \in Nat /\ sync.bt.numProcessed \in Nat /\ sync.bt.mine \in Nat /\ bt.blocks \in Nat
      /\ bt' = bt
  BY <1>1, <1>3, ConsumerActive, LinkFields, Fields DEF IInv, Links, Consumer, Streaming, EnterCS
<1>5. Places'
  BY <1>1, <1>3, <1>4, Sizes DEF IInv, Places, Streaming, Links, AtRest, RingSize
<1>6. Sections'
  BY <1>1, <1>2, <1>3, <1>4 DEF IInv, Sections, Streaming, LinkType
<1>7. LinkRight("bt")'
  BY <1>1, <1>3, <1>4, Sizes DEF IInv, Resting, RestPcs, AtRest, LinkRight, Handshake, Counting, Consumer, BusyPcs, Blocks,
    Held, Holding, Filling, NotTaken, RingSize
<1>8. LinkRight("hash")'
  BY <1>1, <1>3, <1>4, Sizes DEF IInv, Resting, RestPcs, AtRest, LinkRight, Handshake, Counting, Consumer, BusyPcs, Blocks,
    Held, Holding, Filling, NotTaken, RingSize
<1> QED
  BY <1>5, <1>6, <1>7, <1>8 DEF Control
LEMMA BtStopWritingControl ==
  ASSUME IInv, StopWriting("bt")
  PROVE  Control'
<1>0. pc.main = "stop" /\ ~sync.bt.needStart
  BY DEF StopWriting, Consumer, Streaming, IInv, LinkRight, Resting, RestPcs, Links
<1>1. /\ pc.main = "stop" /\ ~sync.bt.needStart
      /\ Moved("main", "wait")
      /\ LinkBecomes("bt", [sync.bt EXCEPT !.stopWriting = TRUE, !.free = sync.bt.free + 1, !.mine = sync.bt.numProcessed, !.csWasEntered = FALSE, !.cs = IF sync.bt.csWasEntered THEN "nobody" ELSE sync.bt.cs])
      /\ UNCHANGED <<mf, buf, bt, main>>
  BY <1>0, StopWritingEffect DEF Links, Consumer, IInv
<1>2. sync.bt \in LinkType /\ sync.hash \in LinkType
  BY LinkFields DEF IInv, Links
<1>3. /\ pc'.main = "wait" /\ pc'.bt = pc.bt /\ pc'.hash = pc.hash /\ sync'.bt.stopWriting
      /\ sync'.bt.free = sync.bt.free + 1
      /\ sync'.bt.cs = IF sync.bt.csWasEntered THEN "nobody" ELSE sync.bt.cs
      /\ ~sync'.bt.csWasEntered /\ sync'.bt.mine = sync.bt.numProcessed
      /\ sync'.bt.needStart = sync.bt.needStart /\ sync'.bt.exit = sync.bt.exit
      /\ sync'.bt.canStart = sync.bt.canStart /\ sync'.bt.wasStarted = sync.bt.wasStarted
      /\ sync'.bt.wasStopped = sync.bt.wasStopped /\ sync'.bt.filled = sync.bt.filled
      /\ sync'.bt.numProcessed = sync.bt.numProcessed /\ sync'.hash = sync.hash
  BY <1>1, <1>2 DEF Moved, LinkBecomes, LinkType
<1>4. /\ Streaming /\ Streaming' /\ ~sync.bt.needStart /\ Handshake("bt") /\ Counting("bt")
      /\ sync.bt.free \in Nat /\ sync.bt.filled \in Nat /\ sync.bt.numProcessed \in Nat /\ sync.bt.mine \in Nat /\ bt.blocks \in Nat
  BY <1>1, <1>3, ConsumerStarted, LinkFields, Fields DEF IInv, Links, Consumer, Streaming
<1>5. Places'
  BY <1>1, <1>3, <1>4, Sizes DEF IInv, Places, Streaming, Links, AtRest, RingSize
<1>6. Sections'
  BY <1>1, <1>2, <1>3, <1>4 DEF IInv, Sections, Streaming, LinkType
<1>7. LinkRight("bt")'
  BY <1>1, <1>3, <1>4, Sizes DEF IInv, Resting, RestPcs, AtRest, LinkRight, Handshake, Counting, Consumer, BusyPcs, Blocks,
    Held, Holding, Filling, NotTaken, RingSize, Places, Streaming
<1>8. LinkRight("hash")'
  BY <1>1, <1>3, <1>4, Sizes DEF IInv, Resting, RestPcs, AtRest, LinkRight, Handshake, Counting, Consumer, BusyPcs, Blocks,
    Held, Holding, Filling, NotTaken, RingSize
<1> QED
  BY <1>5, <1>6, <1>7, <1>8 DEF Control

LEMMA BtAwaitStoppedControl ==
  ASSUME IInv, AwaitStopped("bt")
  PROVE  Control'
<1>0. sync.bt.filled = sync.bt.numProcessed - sync.bt.mine
  <2>1. pc.main = "wait" /\ sync.bt.wasStopped
    BY DEF AwaitStopped, Consumer
  <2>2. Counting("bt")
    BY <2>1, ConsumerActive DEF Consumer, Links
  <2> QED
    BY <2>1, <2>2 DEF Counting, Consumer
<1>1. /\ pc.main = "wait" /\ sync.bt.wasStopped
      /\ Moved("main", "stopped")
      /\ LinkBecomes("bt", [sync.bt EXCEPT !.wasStopped = FALSE, !.needStart = TRUE, !.filled = 0, !.free = sync.bt.free + sync.bt.filled, !.numProcessed = 0, !.mine = 0])
      /\ UNCHANGED <<mf, buf, bt, main>>
  BY <1>0, AwaitStoppedEffect DEF Links, Consumer, IInv
<1>2. sync.bt \in LinkType /\ sync.hash \in LinkType
  BY LinkFields DEF IInv, Links
<1>3. /\ pc'.main = "stopped" /\ pc'.bt = pc.bt /\ pc'.hash = pc.hash /\ sync'.bt.needStart
      /\ ~sync'.bt.wasStopped /\ sync'.bt.free = sync.bt.free + sync.bt.filled
      /\ sync'.bt.filled = 0 /\ sync'.bt.numProcessed = 0 /\ sync'.bt.mine = 0
      /\ sync'.bt.exit = sync.bt.exit /\ sync'.bt.stopWriting = sync.bt.stopWriting
      /\ sync'.bt.canStart = sync.bt.canStart /\ sync'.bt.wasStarted = sync.bt.wasStarted
      /\ sync'.bt.cs = sync.bt.cs /\ sync'.bt.csWasEntered = sync.bt.csWasEntered
      /\ sync'.hash = sync.hash
  BY <1>1, <1>2 DEF Moved, LinkBecomes, LinkType
<1>4. /\ Streaming /\ Streaming' /\ ~sync.bt.needStart /\ Handshake("bt") /\ Counting("bt")
      /\ sync.bt.free \in Nat /\ sync.bt.filled \in Nat /\ sync.bt.numProcessed \in Nat /\ sync.bt.mine \in Nat /\ bt.blocks \in Nat
      /\ pc.bt = "start" /\ Resting("hash")
  BY <1>1, <1>3, ConsumerActive, LinkFields, Fields DEF IInv, Links, Consumer, Streaming, LinkRight, Handshake, BusyPcs
<1>5. Places'
  BY <1>1, <1>3, <1>4, Sizes DEF IInv, Places, Streaming, Links, AtRest, RingSize
<1>6. Sections'
  BY <1>1, <1>2, <1>3, <1>4 DEF IInv, Sections, Streaming, LinkType
<1>7. LinkRight("bt")'
  BY <1>1, <1>3, <1>4, Sizes DEF IInv, Resting, RestPcs, AtRest, LinkRight, Handshake, Counting, Consumer, BusyPcs, Blocks,
    Held, Holding, Filling, NotTaken, RingSize, Sections
<1>8. LinkRight("hash")'
  BY <1>1, <1>3, <1>4, Sizes DEF IInv, Resting, RestPcs, AtRest, LinkRight, Handshake, Counting, Consumer, BusyPcs, Blocks,
    Held, Holding, Filling, NotTaken, RingSize
<1> QED
  BY <1>5, <1>6, <1>7, <1>8 DEF Control
-----------------------------------------------------------------------------
(* So do the calls of the tree thread.                                     *)

LEMMA HashGetFirstControl ==
  ASSUME IInv, GetFirst("hash")
  PROVE  Control'
<1>1. /\ pc.bt = "get" /\ sync.hash.needStart
      /\ Moved("bt", "started")
      /\ LinkBecomes("hash", [sync.hash EXCEPT !.numProcessed = 1, !.needStart = FALSE, !.stopWriting = FALSE, !.exit = FALSE, !.wasStarted = FALSE, !.wasStopped = FALSE, !.canStart = TRUE])
      /\ UNCHANGED <<mf, buf, bt, main>>
  BY GetFirstEffect DEF Links, Consumer, IInv
<1>2. sync.bt \in LinkType /\ sync.hash \in LinkType
  BY LinkFields DEF IInv, Links
<1>3. /\ pc'.main = pc.main /\ pc'.bt = "started" /\ pc'.hash = pc.hash /\ sync'.bt = sync.bt
      /\ ~sync'.hash.needStart /\ ~sync'.hash.exit /\ ~sync'.hash.stopWriting
      /\ sync'.hash.canStart /\ ~sync'.hash.wasStarted /\ ~sync'.hash.wasStopped
      /\ sync'.hash.numProcessed = 1 /\ sync'.hash.free = sync.hash.free
      /\ sync'.hash.filled = sync.hash.filled /\ sync'.hash.cs = sync.hash.cs
      /\ sync'.hash.csWasEntered = sync.hash.csWasEntered /\ sync'.hash.mine = sync.hash.mine
  BY <1>1, <1>2, SMTT(30), ZenonT(30) DEF Moved, LinkBecomes, LinkType
<1>4. /\ Streaming /\ Streaming' /\ Resting("hash") /\ pc.hash = "start" /\ mf.blocks = 0
      /\ ~sync.bt.needStart /\ Handshake("bt") /\ Counting("bt")
  BY <1>1, <1>3, ProducerActive DEF Streaming, IInv, LinkRight, Resting, Links, TreeRight, TreeLives, Fresh, NewWindow
<1>5. Places'
  BY <1>1, <1>3, <1>4, Sizes DEF IInv, Places, Streaming, Links, AtRest, RingSize
<1>6. Sections'
  BY <1>1, <1>2, <1>3, <1>4 DEF IInv, Sections, Streaming, LinkType
<1>7. LinkRight("bt")'
  BY <1>1, <1>3, <1>4, Sizes DEF IInv, Resting, RestPcs, AtRest, LinkRight, Handshake, Counting, Consumer, BusyPcs, Blocks,
    Held, Holding, Filling, NotTaken, RingSize
<1>8. LinkRight("hash")'
  BY <1>1, <1>3, <1>4, Sizes DEF IInv, Resting, RestPcs, AtRest, LinkRight, Handshake, Counting, Consumer, BusyPcs, Blocks,
    Held, Holding, Filling, NotTaken, RingSize
<1> QED
  BY <1>5, <1>6, <1>7, <1>8 DEF Control

LEMMA HashAwaitStartedControl ==
  ASSUME IInv, AwaitStarted("hash")
  PROVE  Control'
<1>1. /\ pc.bt = "started" /\ sync.hash.wasStarted
      /\ Moved("bt", "filled")
      /\ LinkBecomes("hash", [sync.hash EXCEPT !.wasStarted = FALSE])
      /\ UNCHANGED <<mf, buf, bt, main>>
  BY AwaitStartedEffect DEF Links, Consumer, IInv
<1>2. sync.bt \in LinkType /\ sync.hash \in LinkType
  BY LinkFields DEF IInv, Links
<1>3. /\ pc'.main = pc.main /\ pc'.bt = "filled" /\ pc'.hash = pc.hash /\ sync'.bt = sync.bt
      /\ ~sync'.hash.wasStarted /\ sync'.hash.needStart = sync.hash.needStart
      /\ sync'.hash.exit = sync.hash.exit /\ sync'.hash.stopWriting = sync.hash.stopWriting
      /\ sync'.hash.canStart = sync.hash.canStart /\ sync'.hash.wasStopped = sync.hash.wasStopped
      /\ sync'.hash.free = sync.hash.free /\ sync'.hash.filled = sync.hash.filled
      /\ sync'.hash.cs = sync.hash.cs /\ sync'.hash.csWasEntered = sync.hash.csWasEntered
      /\ sync'.hash.numProcessed = sync.hash.numProcessed /\ sync'.hash.mine = sync.hash.mine
  BY <1>1, <1>2 DEF Moved, LinkBecomes, LinkType
<1>4. /\ Streaming /\ Streaming' /\ ~sync.hash.needStart /\ Handshake("hash") /\ Counting("hash")
      /\ sync.hash.free \in Nat /\ sync.hash.filled \in Nat /\ sync.hash.numProcessed \in Nat
      /\ sync.hash.mine \in Nat /\ mf.blocks \in Nat
  BY <1>1, <1>3, ConsumerActive, LinkFields, Fields DEF IInv, Links, Consumer, Streaming
<1>5. Places'
  BY <1>1, <1>3, <1>4, Sizes DEF IInv, Places, Streaming, Links, AtRest, RingSize
<1>6. Sections'
  BY <1>1, <1>2, <1>3, <1>4 DEF IInv, Sections, Streaming, LinkType
<1>7. LinkRight("bt")'
  BY <1>1, <1>3, <1>4, Sizes DEF IInv, Resting, RestPcs, AtRest, LinkRight, Handshake, Counting, Consumer, BusyPcs, Blocks,
    Held, Holding, Filling, NotTaken, RingSize
<1>8. LinkRight("hash")'
  BY <1>1, <1>3, <1>4, Sizes DEF IInv, Resting, RestPcs, AtRest, LinkRight, Handshake, Counting, Consumer, BusyPcs, Blocks,
    Held, Holding, Filling, NotTaken, RingSize
<1> QED
  BY <1>5, <1>6, <1>7, <1>8 DEF Control

LEMMA HashGetNextControl ==
  ASSUME IInv, GetNext("hash")
  PROVE  Control'
<1>1. /\ pc.bt = "get" /\ ~sync.hash.needStart
      /\ Moved("bt", "filled")
      /\ LinkBecomes("hash", [sync.hash EXCEPT !.cs = "nobody", !.csWasEntered = FALSE, !.numProcessed = sync.hash.numProcessed + 1, !.free = sync.hash.free + 1])
      /\ UNCHANGED <<mf, buf, bt, main>>
  BY GetNextEffect DEF Links, Consumer, IInv
<1>2. sync.bt \in LinkType /\ sync.hash \in LinkType
  BY LinkFields DEF IInv, Links
<1>3. /\ pc'.main = pc.main /\ pc'.bt = "filled" /\ pc'.hash = pc.hash /\ sync'.bt = sync.bt
      /\ sync'.hash.free = sync.hash.free + 1 /\ sync'.hash.cs = "nobody"
      /\ ~sync'.hash.csWasEntered /\ sync'.hash.numProcessed = sync.hash.numProcessed + 1
      /\ sync'.hash.needStart = sync.hash.needStart /\ sync'.hash.exit = sync.hash.exit
      /\ sync'.hash.stopWriting = sync.hash.stopWriting
      /\ sync'.hash.canStart = sync.hash.canStart /\ sync'.hash.wasStarted = sync.hash.wasStarted
      /\ sync'.hash.wasStopped = sync.hash.wasStopped /\ sync'.hash.filled = sync.hash.filled
      /\ sync'.hash.mine = sync.hash.mine
  BY <1>1, <1>2 DEF Moved, LinkBecomes, LinkType
<1>4. /\ Streaming /\ Streaming' /\ ~sync.hash.needStart /\ Handshake("hash") /\ Counting("hash")
      /\ sync.hash.free \in Nat /\ sync.hash.filled \in Nat /\ sync.hash.numProcessed \in Nat
      /\ sync.hash.mine \in Nat /\ mf.blocks \in Nat
  BY <1>1, <1>3, ConsumerStarted, LinkFields, Fields DEF IInv, Links, Consumer, Streaming
<1>5. Places'
  BY <1>1, <1>3, <1>4, Sizes DEF IInv, Places, Streaming, Links, AtRest, RingSize
<1>6. Sections'
  BY <1>1, <1>2, <1>3, <1>4 DEF IInv, Sections, Streaming, LinkType
<1>7. LinkRight("bt")'
  BY <1>1, <1>3, <1>4, Sizes DEF IInv, Resting, RestPcs, AtRest, LinkRight, Handshake, Counting, Consumer, BusyPcs, Blocks,
    Held, Holding, Filling, NotTaken, RingSize
<1>8. LinkRight("hash")'
  BY <1>1, <1>3, <1>4, Sizes DEF IInv, Resting, RestPcs, AtRest, LinkRight, Handshake, Counting, Consumer, BusyPcs, Blocks,
    Held, Holding, Filling, NotTaken, RingSize
<1> QED
  BY <1>5, <1>6, <1>7, <1>8 DEF Control

LEMMA HashTakeFilledControl ==
  ASSUME IInv, TakeFilled("hash")
  PROVE  Control'
<1>1. /\ pc.bt = "filled" /\ sync.hash.filled > 0
      /\ Moved("bt", "enter")
      /\ LinkBecomes("hash", [sync.hash EXCEPT !.filled = sync.hash.filled - 1])
      /\ UNCHANGED <<mf, buf, bt, main>>
  BY TakeFilledEffect DEF Links, Consumer, IInv
<1>2. sync.bt \in LinkType /\ sync.hash \in LinkType
  BY LinkFields DEF IInv, Links
<1>3. /\ pc'.main = pc.main /\ pc'.bt = "enter" /\ pc'.hash = pc.hash /\ sync'.bt = sync.bt
      /\ sync'.hash.filled = sync.hash.filled - 1 /\ sync'.hash.needStart = sync.hash.needStart
      /\ sync'.hash.exit = sync.hash.exit /\ sync'.hash.stopWriting = sync.hash.stopWriting
      /\ sync'.hash.canStart = sync.hash.canStart /\ sync'.hash.wasStarted = sync.hash.wasStarted
      /\ sync'.hash.wasStopped = sync.hash.wasStopped /\ sync'.hash.free = sync.hash.free
      /\ sync'.hash.cs = sync.hash.cs /\ sync'.hash.csWasEntered = sync.hash.csWasEntered
      /\ sync'.hash.numProcessed = sync.hash.numProcessed /\ sync'.hash.mine = sync.hash.mine
  BY <1>1, <1>2 DEF Moved, LinkBecomes, LinkType
<1>4. /\ Streaming /\ Streaming' /\ ~sync.hash.needStart /\ Handshake("hash") /\ Counting("hash")
      /\ sync.hash.free \in Nat /\ sync.hash.filled \in Nat /\ sync.hash.numProcessed \in Nat
      /\ sync.hash.mine \in Nat /\ mf.blocks \in Nat
  BY <1>1, <1>3, ConsumerActive, LinkFields, Fields DEF IInv, Links, Consumer, Streaming
<1>5. Places'
  BY <1>1, <1>3, <1>4, Sizes DEF IInv, Places, Streaming, Links, AtRest, RingSize
<1>6. Sections'
  BY <1>1, <1>2, <1>3, <1>4 DEF IInv, Sections, Streaming, LinkType
<1>7. LinkRight("bt")'
  BY <1>1, <1>3, <1>4, Sizes DEF IInv, Resting, RestPcs, AtRest, LinkRight, Handshake, Counting, Consumer, BusyPcs, Blocks,
    Held, Holding, Filling, NotTaken, RingSize
<1>8. LinkRight("hash")'
  BY <1>1, <1>3, <1>4, Sizes DEF IInv, Resting, RestPcs, AtRest, LinkRight, Handshake, Counting, Consumer, BusyPcs, Blocks,
    Held, Holding, Filling, NotTaken, RingSize
<1> QED
  BY <1>5, <1>6, <1>7, <1>8 DEF Control

LEMMA HashEnterCSControl ==
  ASSUME IInv, EnterCS("hash")
  PROVE  Control'
<1>1. /\ pc.bt = "enter" /\ sync.hash.cs = "nobody"
      /\ Moved("bt", "got")
      /\ LinkBecomes("hash", [sync.hash EXCEPT !.cs = "bt", !.csWasEntered = TRUE])
      /\ UNCHANGED <<mf, buf>>
  BY EnterCSEffect DEF Links, Consumer, IInv
<1>2. sync.bt \in LinkType /\ sync.hash \in LinkType
  BY LinkFields DEF IInv, Links
<1>3. /\ pc'.main = pc.main /\ pc'.bt = "got" /\ pc'.hash = pc.hash /\ sync'.bt = sync.bt
      /\ sync'.hash.cs = "bt" /\ sync'.hash.csWasEntered
      /\ sync'.hash.needStart = sync.hash.needStart /\ sync'.hash.exit = sync.hash.exit
      /\ sync'.hash.stopWriting = sync.hash.stopWriting
      /\ sync'.hash.canStart = sync.hash.canStart /\ sync'.hash.wasStarted = sync.hash.wasStarted
      /\ sync'.hash.wasStopped = sync.hash.wasStopped /\ sync'.hash.free = sync.hash.free
      /\ sync'.hash.filled = sync.hash.filled /\ sync'.hash.numProcessed = sync.hash.numProcessed
      /\ sync'.hash.mine = sync.hash.mine
  BY <1>1, <1>2 DEF Moved, LinkBecomes, LinkType
<1>4. /\ Streaming /\ Streaming' /\ ~sync.hash.needStart /\ Handshake("hash") /\ Counting("hash")
      /\ sync.hash.free \in Nat /\ sync.hash.filled \in Nat /\ sync.hash.numProcessed \in Nat
      /\ sync.hash.mine \in Nat /\ mf.blocks \in Nat
      /\ bt'.blocks = bt.blocks
  BY <1>1, <1>3, ConsumerActive, LinkFields, Fields DEF IInv, Links, Consumer, Streaming, EnterCS, Shapes, TreeType
<1>5. Places'
  BY <1>1, <1>3, <1>4, Sizes DEF IInv, Places, Streaming, Links, AtRest, RingSize
<1>6. Sections'
  BY <1>1, <1>2, <1>3, <1>4 DEF IInv, Sections, Streaming, LinkType
<1>7. LinkRight("bt")'
  BY <1>1, <1>3, <1>4, Sizes DEF IInv, Resting, RestPcs, AtRest, LinkRight, Handshake, Counting, Consumer, BusyPcs, Blocks,
    Held, Holding, Filling, NotTaken, RingSize
<1>8. LinkRight("hash")'
  BY <1>1, <1>3, <1>4, Sizes DEF IInv, Resting, RestPcs, AtRest, LinkRight, Handshake, Counting, Consumer, BusyPcs, Blocks,
    Held, Holding, Filling, NotTaken, RingSize
<1> QED
  BY <1>5, <1>6, <1>7, <1>8 DEF Control
LEMMA HashStopWritingControl ==
  ASSUME IInv, StopWriting("hash"), ~sync.hash.needStart
  PROVE  Control'
<1>1. /\ pc.bt = "stop"
      /\ Moved("bt", "wait")
      /\ LinkBecomes("hash", [sync.hash EXCEPT !.stopWriting = TRUE, !.free = sync.hash.free + 1, !.mine = sync.hash.numProcessed, !.csWasEntered = FALSE, !.cs = IF sync.hash.csWasEntered THEN "nobody" ELSE sync.hash.cs])
      /\ UNCHANGED <<mf, buf, bt, main>>
  BY StopWritingEffect DEF Links, Consumer, IInv
<1>2. sync.bt \in LinkType /\ sync.hash \in LinkType
  BY LinkFields DEF IInv, Links
<1>3. /\ pc'.main = pc.main /\ pc'.bt = "wait" /\ pc'.hash = pc.hash /\ sync'.bt = sync.bt
      /\ sync'.hash.stopWriting /\ sync'.hash.free = sync.hash.free + 1
      /\ sync'.hash.cs = IF sync.hash.csWasEntered THEN "nobody" ELSE sync.hash.cs
      /\ ~sync'.hash.csWasEntered /\ sync'.hash.mine = sync.hash.numProcessed
      /\ sync'.hash.needStart = sync.hash.needStart /\ sync'.hash.exit = sync.hash.exit
      /\ sync'.hash.canStart = sync.hash.canStart /\ sync'.hash.wasStarted = sync.hash.wasStarted
      /\ sync'.hash.wasStopped = sync.hash.wasStopped /\ sync'.hash.filled = sync.hash.filled
      /\ sync'.hash.numProcessed = sync.hash.numProcessed
  BY <1>1, <1>2 DEF Moved, LinkBecomes, LinkType
<1>4. /\ Streaming /\ Streaming' /\ ~sync.hash.needStart /\ Handshake("hash") /\ Counting("hash")
      /\ sync.hash.free \in Nat /\ sync.hash.filled \in Nat /\ sync.hash.numProcessed \in Nat
      /\ sync.hash.mine \in Nat /\ mf.blocks \in Nat
  BY <1>1, <1>3, ConsumerStarted, LinkFields, Fields DEF IInv, Links, Consumer, Streaming
<1>5. Places'
  BY <1>1, <1>3, <1>4, Sizes DEF IInv, Places, Streaming, Links, AtRest, RingSize
<1>6. Sections'
  BY <1>1, <1>2, <1>3, <1>4 DEF IInv, Sections, Streaming, LinkType
<1>7. LinkRight("bt")'
  BY <1>1, <1>3, <1>4, Sizes DEF IInv, Resting, RestPcs, AtRest, LinkRight, Handshake, Counting, Consumer, BusyPcs, Blocks,
    Held, Holding, Filling, NotTaken, RingSize, Places, Streaming
<1>8. LinkRight("hash")'
  BY <1>1, <1>3, <1>4, Sizes DEF IInv, Resting, RestPcs, AtRest, LinkRight, Handshake, Counting, Consumer, BusyPcs, Blocks,
    Held, Holding, Filling, NotTaken, RingSize, Places, Streaming
<1> QED
  BY <1>5, <1>6, <1>7, <1>8 DEF Control

LEMMA HashStopUnstartedControl ==
  ASSUME IInv, StopWriting("hash"), sync.hash.needStart
  PROVE  Control'
<1>1. /\ pc.bt = "stop"
      /\ Moved("bt", "stopped")
      /\ UNCHANGED <<sync, mf, buf, bt, main>>
  BY StopWritingEffect DEF Links, Consumer, IInv
<1>2. sync.bt \in LinkType /\ sync.hash \in LinkType
  BY LinkFields DEF IInv, Links
<1>3. /\ pc'.main = pc.main /\ pc'.bt = "stopped" /\ pc'.hash = pc.hash /\ sync'.bt = sync.bt
      /\ sync'.hash = sync.hash
  BY <1>1, <1>2 DEF Moved, LinkBecomes, LinkType
<1>4. /\ Streaming /\ Streaming' /\ Resting("hash") /\ pc.hash = "start"
      /\ ~sync.bt.needStart /\ Handshake("bt") /\ Counting("bt")
  BY <1>1, <1>3, ProducerActive DEF Streaming, IInv, LinkRight, Resting, Links
<1>5. Places'
  BY <1>1, <1>3, <1>4, Sizes DEF IInv, Places, Streaming, Links, AtRest, RingSize
<1>6. Sections'
  BY <1>1, <1>2, <1>3, <1>4 DEF IInv, Sections, Streaming, LinkType
<1>7. LinkRight("bt")'
  BY <1>1, <1>3, <1>4, Sizes DEF IInv, Resting, RestPcs, AtRest, LinkRight, Handshake, Counting, Consumer, BusyPcs, Blocks,
    Held, Holding, Filling, NotTaken, RingSize, Places, Streaming
<1>8. LinkRight("hash")'
  BY <1>1, <1>3, <1>4, Sizes DEF IInv, Resting, RestPcs, AtRest, LinkRight, Handshake, Counting, Consumer, BusyPcs, Blocks,
    Held, Holding, Filling, NotTaken, RingSize
<1> QED
  BY <1>5, <1>6, <1>7, <1>8 DEF Control

LEMMA HashAwaitStoppedControl ==
  ASSUME IInv, AwaitStopped("hash")
  PROVE  Control'
<1>0. sync.hash.filled = sync.hash.numProcessed - sync.hash.mine
  <2>1. pc.bt = "wait" /\ sync.hash.wasStopped
    BY DEF AwaitStopped, Consumer
  <2>2. Counting("hash")
    BY <2>1, ConsumerActive DEF Consumer, Links
  <2> QED
    BY <2>1, <2>2 DEF Counting, Consumer
<1>1. /\ pc.bt = "wait" /\ sync.hash.wasStopped
      /\ Moved("bt", "stopped")
      /\ LinkBecomes("hash", [sync.hash EXCEPT !.wasStopped = FALSE, !.needStart = TRUE, !.filled = 0, !.free = sync.hash.free + sync.hash.filled, !.numProcessed = 0, !.mine = 0])
      /\ UNCHANGED <<mf, buf, bt, main>>
  BY <1>0, AwaitStoppedEffect DEF Links, Consumer, IInv
<1>2. sync.bt \in LinkType /\ sync.hash \in LinkType
  BY LinkFields DEF IInv, Links
<1>3. /\ pc'.main = pc.main /\ pc'.bt = "stopped" /\ pc'.hash = pc.hash /\ sync'.bt = sync.bt
      /\ sync'.hash.needStart /\ ~sync'.hash.wasStopped
      /\ sync'.hash.free = sync.hash.free + sync.hash.filled /\ sync'.hash.filled = 0
      /\ sync'.hash.numProcessed = 0 /\ sync'.hash.mine = 0 /\ sync'.hash.exit = sync.hash.exit
      /\ sync'.hash.stopWriting = sync.hash.stopWriting
      /\ sync'.hash.canStart = sync.hash.canStart /\ sync'.hash.wasStarted = sync.hash.wasStarted
      /\ sync'.hash.cs = sync.hash.cs /\ sync'.hash.csWasEntered = sync.hash.csWasEntered
  BY <1>1, <1>2 DEF Moved, LinkBecomes, LinkType
<1>4. /\ Streaming /\ Streaming' /\ ~sync.hash.needStart /\ Handshake("hash") /\ Counting("hash")
      /\ sync.hash.free \in Nat /\ sync.hash.filled \in Nat /\ sync.hash.numProcessed \in Nat
      /\ sync.hash.mine \in Nat /\ mf.blocks \in Nat
      /\ pc.hash = "start"
  BY <1>1, <1>3, ConsumerActive, LinkFields, Fields DEF IInv, Links, Consumer, Streaming, Handshake, BusyPcs
<1>5. Places'
  BY <1>1, <1>3, <1>4, Sizes DEF IInv, Places, Streaming, Links, AtRest, RingSize
<1>6. Sections'
  BY <1>1, <1>2, <1>3, <1>4 DEF IInv, Sections, Streaming, LinkType
<1>7. LinkRight("bt")'
  BY <1>1, <1>3, <1>4, Sizes DEF IInv, Resting, RestPcs, AtRest, LinkRight, Handshake, Counting, Consumer, BusyPcs, Blocks,
    Held, Holding, Filling, NotTaken, RingSize, Places, Streaming
<1>8. LinkRight("hash")'
  BY <1>1, <1>3, <1>4, Sizes DEF IInv, Resting, RestPcs, AtRest, LinkRight, Handshake, Counting, Consumer, BusyPcs, Blocks,
    Held, Holding, Filling, NotTaken, RingSize, Sections
<1> QED
  BY <1>5, <1>6, <1>7, <1>8 DEF Control
-----------------------------------------------------------------------------
(* The threads at the head of what they do.                                *)

LEMMA BtThreadStartControl ==
  ASSUME IInv, ThreadStart("bt")
  PROVE  Control'
<1>1. /\ pc.bt = "start" /\ sync.bt.canStart
      /\ Moved("bt", "check")
      /\ LinkBecomes("bt", [sync.bt EXCEPT !.canStart = FALSE, !.wasStarted = TRUE])
      /\ UNCHANGED <<buf, main>>
  BY ThreadStartEffect DEF Links, Consumer, IInv
<1>2. sync.bt \in LinkType /\ sync.hash \in LinkType
  BY LinkFields DEF IInv, Links
<1>3. /\ pc'.main = pc.main /\ pc'.bt = "check" /\ pc'.hash = pc.hash /\ ~sync'.bt.canStart
      /\ sync'.bt.wasStarted /\ sync'.bt.needStart = sync.bt.needStart
      /\ sync'.bt.exit = sync.bt.exit /\ sync'.bt.stopWriting = sync.bt.stopWriting
      /\ sync'.bt.wasStopped = sync.bt.wasStopped /\ sync'.bt.free = sync.bt.free
      /\ sync'.bt.filled = sync.bt.filled /\ sync'.bt.cs = sync.bt.cs
      /\ sync'.bt.csWasEntered = sync.bt.csWasEntered
      /\ sync'.bt.numProcessed = sync.bt.numProcessed /\ sync'.bt.mine = sync.bt.mine
      /\ sync'.hash = sync.hash
  BY <1>1, <1>2 DEF Moved, LinkBecomes, LinkType
<1>4. /\ sync.bt.free \in Nat /\ sync.bt.filled \in Nat /\ sync.bt.numProcessed \in Nat
      /\ sync.bt.mine \in Nat /\ bt.blocks \in Nat
      /\ Streaming <=> Streaming'
      /\ Streaming => ~sync.bt.needStart /\ Handshake("bt") /\ Counting("bt") /\ bt.blocks = 0
      /\ bt'.blocks = 0 /\ mf' = mf
  BY <1>1, <1>3, LinkFields, Fields, ThreadStartEffect DEF IInv, Links, Streaming, LinkRight, Resting, AtRest, Handshake, Blocks, TreeType, WindowType, Shapes
<1>5. Places'
  BY <1>1, <1>3, <1>4, Sizes DEF IInv, Places, Streaming, Links, AtRest, RingSize
<1>6. Sections'
  BY <1>1, <1>2, <1>3, <1>4 DEF IInv, Sections, Streaming, LinkType
<1>7. LinkRight("bt")'
  BY <1>1, <1>3, <1>4, Sizes DEF IInv, Resting, RestPcs, AtRest, LinkRight, Handshake, Counting, Consumer, BusyPcs, Blocks,
    Held, Holding, Filling, NotTaken, RingSize
<1>8. LinkRight("hash")'
  BY <1>1, <1>3, <1>4, Sizes DEF IInv, Resting, RestPcs, AtRest, LinkRight, Handshake, Counting, Consumer, BusyPcs, Blocks,
    Held, Holding, Filling, NotTaken, RingSize
<1> QED
  BY <1>5, <1>6, <1>7, <1>8 DEF Control

LEMMA BtThreadExitControl ==
  ASSUME IInv, ThreadExit("bt")
  PROVE  Control'
<1>1. /\ pc.bt = "check" /\ sync.bt.exit
      /\ Moved("bt", "exited")
      /\ UNCHANGED <<sync, mf, buf, bt, main>>
  BY ThreadExitEffect DEF Links, Consumer, IInv
<1>2. sync.bt \in LinkType /\ sync.hash \in LinkType
  BY LinkFields DEF IInv, Links
<1>3. /\ pc'.main = pc.main /\ pc'.bt = "exited" /\ pc'.hash = pc.hash /\ sync'.bt = sync.bt
      /\ sync'.hash = sync.hash
  BY <1>1, <1>2 DEF Moved, LinkBecomes, LinkType
<1>4. ~Streaming /\ ~Streaming'
  BY <1>1, <1>3 DEF IInv, Links, Streaming, LinkRight, Resting, AtRest, Handshake
<1>5. Places'
  BY <1>1, <1>3, <1>4, Sizes DEF IInv, Places, Streaming, Links, AtRest, RingSize
<1>6. Sections'
  BY <1>1, <1>2, <1>3, <1>4 DEF IInv, Sections, Streaming, LinkType
<1>7. LinkRight("bt")'
  BY <1>1, <1>3, <1>4, Sizes DEF IInv, Resting, RestPcs, AtRest, LinkRight, Handshake, Counting, Consumer, BusyPcs, Blocks,
    Held, Holding, Filling, NotTaken, RingSize
<1>8. LinkRight("hash")'
  BY <1>1, <1>3, <1>4, Sizes DEF IInv, Resting, RestPcs, AtRest, LinkRight, Handshake, Counting, Consumer, BusyPcs, Blocks,
    Held, Holding, Filling, NotTaken, RingSize
<1> QED
  BY <1>5, <1>6, <1>7, <1>8 DEF Control

LEMMA BtTakeFreeControl ==
  ASSUME IInv, TakeFree("bt")
  PROVE  Control'
<1>1. /\ pc.bt = "free" /\ sync.bt.free > 0
      /\ Moved("bt", "fill")
      /\ LinkBecomes("bt", [sync.bt EXCEPT !.free = sync.bt.free - 1])
      /\ UNCHANGED <<mf, buf, bt, main>>
  BY TakeFreeEffect DEF Links, Consumer, IInv
<1>2. sync.bt \in LinkType /\ sync.hash \in LinkType
  BY LinkFields DEF IInv, Links
<1>3. /\ pc'.main = pc.main /\ pc'.bt = "fill" /\ pc'.hash = pc.hash
      /\ sync'.bt.free = sync.bt.free - 1 /\ sync'.bt.needStart = sync.bt.needStart
      /\ sync'.bt.exit = sync.bt.exit /\ sync'.bt.stopWriting = sync.bt.stopWriting
      /\ sync'.bt.canStart = sync.bt.canStart /\ sync'.bt.wasStarted = sync.bt.wasStarted
      /\ sync'.bt.wasStopped = sync.bt.wasStopped /\ sync'.bt.filled = sync.bt.filled
      /\ sync'.bt.cs = sync.bt.cs /\ sync'.bt.csWasEntered = sync.bt.csWasEntered
      /\ sync'.bt.numProcessed = sync.bt.numProcessed /\ sync'.bt.mine = sync.bt.mine
      /\ sync'.hash = sync.hash
  BY <1>1, <1>2 DEF Moved, LinkBecomes, LinkType
<1>4. /\ Streaming /\ Streaming' /\ ~sync.bt.needStart /\ Handshake("bt") /\ Counting("bt")
      /\ sync.bt.free \in Nat /\ sync.bt.filled \in Nat /\ sync.bt.numProcessed \in Nat
      /\ sync.bt.mine \in Nat /\ bt.blocks \in Nat
  BY <1>1, <1>3, ProducerActive, LinkFields, Fields DEF IInv, Links, Streaming
<1>5. Places'
  BY <1>1, <1>3, <1>4, Sizes DEF IInv, Places, Streaming, Links, AtRest, RingSize
<1>6. Sections'
  BY <1>1, <1>2, <1>3, <1>4 DEF IInv, Sections, Streaming, LinkType
<1>7. LinkRight("bt")'
  BY <1>1, <1>3, <1>4, Sizes DEF IInv, Resting, RestPcs, AtRest, LinkRight, Handshake, Counting, Consumer, BusyPcs, Blocks,
    Held, Holding, Filling, NotTaken, RingSize
<1>8. LinkRight("hash")'
  BY <1>1, <1>3, <1>4, Sizes DEF IInv, Resting, RestPcs, AtRest, LinkRight, Handshake, Counting, Consumer, BusyPcs, Blocks,
    Held, Holding, Filling, NotTaken, RingSize
<1> QED
  BY <1>5, <1>6, <1>7, <1>8 DEF Control

LEMMA HashThreadStartControl ==
  ASSUME IInv, ThreadStart("hash")
  PROVE  Control'
<1>1. /\ pc.hash = "start" /\ sync.hash.canStart
      /\ Moved("hash", "check")
      /\ LinkBecomes("hash", [sync.hash EXCEPT !.canStart = FALSE, !.wasStarted = TRUE])
      /\ UNCHANGED <<buf, main>>
  BY ThreadStartEffect DEF Links, Consumer, IInv
<1>2. sync.bt \in LinkType /\ sync.hash \in LinkType
  BY LinkFields DEF IInv, Links
<1>3. /\ pc'.main = pc.main /\ pc'.bt = pc.bt /\ pc'.hash = "check" /\ sync'.bt = sync.bt
      /\ ~sync'.hash.canStart /\ sync'.hash.wasStarted
      /\ sync'.hash.needStart = sync.hash.needStart /\ sync'.hash.exit = sync.hash.exit
      /\ sync'.hash.stopWriting = sync.hash.stopWriting
      /\ sync'.hash.wasStopped = sync.hash.wasStopped /\ sync'.hash.free = sync.hash.free
      /\ sync'.hash.filled = sync.hash.filled /\ sync'.hash.cs = sync.hash.cs
      /\ sync'.hash.csWasEntered = sync.hash.csWasEntered
      /\ sync'.hash.numProcessed = sync.hash.numProcessed /\ sync'.hash.mine = sync.hash.mine
  BY <1>1, <1>2 DEF Moved, LinkBecomes, LinkType
<1>4. /\ sync.hash.free \in Nat /\ sync.hash.filled \in Nat /\ sync.hash.numProcessed \in Nat
      /\ sync.hash.mine \in Nat /\ mf.blocks \in Nat
      /\ Streaming <=> Streaming'
      /\ Streaming => ~sync.hash.needStart /\ Handshake("hash") /\ Counting("hash") /\ mf.blocks = 0
      /\ mf'.blocks = 0 /\ bt' = bt
  BY <1>1, <1>3, LinkFields, Fields, ThreadStartEffect DEF IInv, Links, Streaming, LinkRight, Resting, AtRest, Handshake, Blocks, TreeType, WindowType, Shapes
<1>5. Places'
  BY <1>1, <1>3, <1>4, Sizes DEF IInv, Places, Streaming, Links, AtRest, RingSize
<1>6. Sections'
  BY <1>1, <1>2, <1>3, <1>4 DEF IInv, Sections, Streaming, LinkType
<1>7. LinkRight("bt")'
  BY <1>1, <1>3, <1>4, Sizes DEF IInv, Resting, RestPcs, AtRest, LinkRight, Handshake, Counting, Consumer, BusyPcs, Blocks,
    Held, Holding, Filling, NotTaken, RingSize
<1>8. LinkRight("hash")'
  BY <1>1, <1>3, <1>4, Sizes DEF IInv, Resting, RestPcs, AtRest, LinkRight, Handshake, Counting, Consumer, BusyPcs, Blocks,
    Held, Holding, Filling, NotTaken, RingSize
<1> QED
  BY <1>5, <1>6, <1>7, <1>8 DEF Control

LEMMA HashThreadExitControl ==
  ASSUME IInv, ThreadExit("hash")
  PROVE  Control'
<1>1. /\ pc.hash = "check" /\ sync.hash.exit
      /\ Moved("hash", "exited")
      /\ UNCHANGED <<sync, mf, buf, bt, main>>
  BY ThreadExitEffect DEF Links, Consumer, IInv
<1>2. sync.bt \in LinkType /\ sync.hash \in LinkType
  BY LinkFields DEF IInv, Links
<1>3. /\ pc'.main = pc.main /\ pc'.bt = pc.bt /\ pc'.hash = "exited" /\ sync'.bt = sync.bt
      /\ sync'.hash = sync.hash
  BY <1>1, <1>2 DEF Moved, LinkBecomes, LinkType
<1>4. ~Streaming /\ ~Streaming'
  BY <1>1, <1>3 DEF IInv, Links, Streaming, LinkRight, Resting, AtRest, Handshake
<1>5. Places'
  BY <1>1, <1>3, <1>4, Sizes DEF IInv, Places, Streaming, Links, AtRest, RingSize
<1>6. Sections'
  BY <1>1, <1>2, <1>3, <1>4 DEF IInv, Sections, Streaming, LinkType
<1>7. LinkRight("bt")'
  BY <1>1, <1>3, <1>4, Sizes DEF IInv, Resting, RestPcs, AtRest, LinkRight, Handshake, Counting, Consumer, BusyPcs, Blocks,
    Held, Holding, Filling, NotTaken, RingSize
<1>8. LinkRight("hash")'
  BY <1>1, <1>3, <1>4, Sizes DEF IInv, Resting, RestPcs, AtRest, LinkRight, Handshake, Counting, Consumer, BusyPcs, Blocks,
    Held, Holding, Filling, NotTaken, RingSize
<1> QED
  BY <1>5, <1>6, <1>7, <1>8 DEF Control

LEMMA HashTakeFreeControl ==
  ASSUME IInv, TakeFree("hash")
  PROVE  Control'
<1>1. /\ pc.hash = "free" /\ sync.hash.free > 0
      /\ Moved("hash", "fill")
      /\ LinkBecomes("hash", [sync.hash EXCEPT !.free = sync.hash.free - 1])
      /\ UNCHANGED <<mf, buf, bt, main>>
  BY TakeFreeEffect DEF Links, Consumer, IInv
<1>2. sync.bt \in LinkType /\ sync.hash \in LinkType
  BY LinkFields DEF IInv, Links
<1>3. /\ pc'.main = pc.main /\ pc'.bt = pc.bt /\ pc'.hash = "fill" /\ sync'.bt = sync.bt
      /\ sync'.hash.free = sync.hash.free - 1 /\ sync'.hash.needStart = sync.hash.needStart
      /\ sync'.hash.exit = sync.hash.exit /\ sync'.hash.stopWriting = sync.hash.stopWriting
      /\ sync'.hash.canStart = sync.hash.canStart /\ sync'.hash.wasStarted = sync.hash.wasStarted
      /\ sync'.hash.wasStopped = sync.hash.wasStopped /\ sync'.hash.filled = sync.hash.filled
      /\ sync'.hash.cs = sync.hash.cs /\ sync'.hash.csWasEntered = sync.hash.csWasEntered
      /\ sync'.hash.numProcessed = sync.hash.numProcessed /\ sync'.hash.mine = sync.hash.mine
  BY <1>1, <1>2 DEF Moved, LinkBecomes, LinkType
<1>4. /\ Streaming /\ Streaming' /\ ~sync.hash.needStart /\ Handshake("hash") /\ Counting("hash")
      /\ sync.hash.free \in Nat /\ sync.hash.filled \in Nat /\ sync.hash.numProcessed \in Nat
      /\ sync.hash.mine \in Nat /\ mf.blocks \in Nat
  BY <1>1, <1>3, ProducerActive, LinkFields, Fields DEF IInv, Links, Streaming
<1>5. Places'
  BY <1>1, <1>3, <1>4, Sizes DEF IInv, Places, Streaming, Links, AtRest, RingSize
<1>6. Sections'
  BY <1>1, <1>2, <1>3, <1>4 DEF IInv, Sections, Streaming, LinkType
<1>7. LinkRight("bt")'
  BY <1>1, <1>3, <1>4, Sizes DEF IInv, Resting, RestPcs, AtRest, LinkRight, Handshake, Counting, Consumer, BusyPcs, Blocks,
    Held, Holding, Filling, NotTaken, RingSize
<1>8. LinkRight("hash")'
  BY <1>1, <1>3, <1>4, Sizes DEF IInv, Resting, RestPcs, AtRest, LinkRight, Handshake, Counting, Consumer, BusyPcs, Blocks,
    Held, Holding, Filling, NotTaken, RingSize
<1> QED
  BY <1>5, <1>6, <1>7, <1>8 DEF Control
-----------------------------------------------------------------------------
(* The hash thread.                                                        *)

LEMMA HashStopControl ==
  ASSUME IInv, HashStop
  PROVE  Control'
<1>1. /\ pc.hash = "check" /\ ~sync.hash.exit /\ sync.hash.stopWriting
      /\ Moved("hash", "start")
      /\ LinkBecomes("hash", [sync.hash EXCEPT !.numProcessed = mf.blocks, !.wasStopped = TRUE])
      /\ UNCHANGED <<mf, buf, bt, main>>
  BY HashStopEffect DEF Links, Consumer, IInv
<1>2. sync.bt \in LinkType /\ sync.hash \in LinkType
  BY LinkFields DEF IInv, Links
<1>3. /\ pc'.main = pc.main /\ pc'.bt = pc.bt /\ pc'.hash = "start" /\ sync'.bt = sync.bt
      /\ sync'.hash.wasStopped /\ sync'.hash.numProcessed = mf.blocks
      /\ sync'.hash.needStart = sync.hash.needStart /\ sync'.hash.exit = sync.hash.exit
      /\ sync'.hash.stopWriting = sync.hash.stopWriting
      /\ sync'.hash.canStart = sync.hash.canStart /\ sync'.hash.wasStarted = sync.hash.wasStarted
      /\ sync'.hash.free = sync.hash.free /\ sync'.hash.filled = sync.hash.filled
      /\ sync'.hash.cs = sync.hash.cs /\ sync'.hash.csWasEntered = sync.hash.csWasEntered
      /\ sync'.hash.mine = sync.hash.mine
  BY <1>1, <1>2 DEF Moved, LinkBecomes, LinkType
<1>4. /\ Streaming /\ Streaming' /\ ~sync.hash.needStart /\ Handshake("hash") /\ Counting("hash")
      /\ sync.hash.free \in Nat /\ sync.hash.filled \in Nat /\ sync.hash.numProcessed \in Nat
      /\ sync.hash.mine \in Nat /\ mf.blocks \in Nat
  BY <1>1, <1>3, LinkFields, Fields DEF IInv, Links, Streaming, Places, LinkRight, Resting, HashGoesOn
<1>5. Places'
  BY <1>1, <1>3, <1>4, Sizes DEF IInv, Places, Streaming, Links, AtRest, RingSize
<1>6. Sections'
  BY <1>1, <1>2, <1>3, <1>4 DEF IInv, Sections, Streaming, LinkType
<1>7. LinkRight("bt")'
  BY <1>1, <1>3, <1>4, Sizes DEF IInv, Resting, RestPcs, AtRest, LinkRight, Handshake, Counting, Consumer, BusyPcs, Blocks,
    Held, Holding, Filling, NotTaken, RingSize
<1>8. LinkRight("hash")'
  BY <1>1, <1>3, <1>4, Sizes DEF IInv, Resting, RestPcs, AtRest, LinkRight, Handshake, Counting, Consumer, BusyPcs, Blocks,
    Held, Holding, Filling, NotTaken, RingSize
<1> QED
  BY <1>5, <1>6, <1>7, <1>8 DEF Control

LEMMA HashCheckControl ==
  ASSUME IInv, HashCheck
  PROVE  Control'
<1>1. /\ pc.hash = "check" /\ ~sync.hash.exit
      /\ Moved("hash", IF NeedMove THEN "enterBt" ELSE "free")
      /\ UNCHANGED <<sync, mf, buf, bt, main>>
  BY HashCheckEffect DEF Links, Consumer, IInv, HashGoesOn
<1>2. sync.bt \in LinkType /\ sync.hash \in LinkType
  BY LinkFields DEF IInv, Links
<1>3. /\ pc'.main = pc.main /\ pc'.bt = pc.bt /\ pc'.hash = IF NeedMove THEN "enterBt" ELSE "free"
      /\ sync'.bt = sync.bt /\ sync'.hash = sync.hash
  BY <1>1, <1>2 DEF Moved, LinkBecomes, LinkType
<1>4. /\ Streaming /\ Streaming' /\ ~sync.hash.needStart /\ Handshake("hash") /\ Counting("hash")
      /\ sync.hash.free \in Nat /\ sync.hash.filled \in Nat /\ sync.hash.numProcessed \in Nat
      /\ sync.hash.mine \in Nat /\ mf.blocks \in Nat
  BY <1>1, <1>3, LinkFields, Fields DEF IInv, Links, Streaming, Places, LinkRight, Resting, HashGoesOn
<1>5. Places'
  BY <1>1, <1>3, <1>4, Sizes DEF IInv, Places, Streaming, Links, AtRest, RingSize
<1>6. Sections'
  BY <1>1, <1>2, <1>3, <1>4 DEF IInv, Sections, Streaming, LinkType
<1>7. LinkRight("bt")'
  BY <1>1, <1>3, <1>4, Sizes DEF IInv, Resting, RestPcs, AtRest, LinkRight, Handshake, Counting, Consumer, BusyPcs, Blocks,
    Held, Holding, Filling, NotTaken, RingSize
<1>8. LinkRight("hash")'
  BY <1>1, <1>3, <1>4, Sizes DEF IInv, Resting, RestPcs, AtRest, LinkRight, Handshake, Counting, Consumer, BusyPcs, Blocks,
    Held, Holding, Filling, NotTaken, RingSize
<1> QED
  BY <1>5, <1>6, <1>7, <1>8 DEF Control

LEMMA EnterBtCSControl ==
  ASSUME IInv, EnterBtCS
  PROVE  Control'
<1>1. /\ pc.hash = "enterBt" /\ sync.bt.cs = "nobody"
      /\ Moved("hash", "enterHash")
      /\ LinkBecomes("bt", [sync.bt EXCEPT !.cs = "hash"])
      /\ UNCHANGED <<mf, buf, bt, main>>
  BY EnterBtCSEffect DEF Links, Consumer, IInv
<1>2. sync.bt \in LinkType /\ sync.hash \in LinkType
  BY LinkFields DEF IInv, Links
<1>3. /\ pc'.main = pc.main /\ pc'.bt = pc.bt /\ pc'.hash = "enterHash" /\ sync'.bt.cs = "hash"
      /\ sync'.bt.needStart = sync.bt.needStart /\ sync'.bt.exit = sync.bt.exit
      /\ sync'.bt.stopWriting = sync.bt.stopWriting /\ sync'.bt.canStart = sync.bt.canStart
      /\ sync'.bt.wasStarted = sync.bt.wasStarted /\ sync'.bt.wasStopped = sync.bt.wasStopped
      /\ sync'.bt.free = sync.bt.free /\ sync'.bt.filled = sync.bt.filled
      /\ sync'.bt.csWasEntered = sync.bt.csWasEntered
      /\ sync'.bt.numProcessed = sync.bt.numProcessed /\ sync'.bt.mine = sync.bt.mine
      /\ sync'.hash = sync.hash
  BY <1>1, <1>2 DEF Moved, LinkBecomes, LinkType
<1>4. /\ Streaming /\ Streaming' /\ ~sync.hash.needStart /\ Handshake("hash") /\ Counting("hash")
      /\ sync.hash.free \in Nat /\ sync.hash.filled \in Nat /\ sync.hash.numProcessed \in Nat
      /\ sync.hash.mine \in Nat /\ mf.blocks \in Nat
  BY <1>1, <1>3, ProducerActive, LinkFields, Fields DEF IInv, Links, Streaming
<1>5. Places'
  BY <1>1, <1>3, <1>4, Sizes DEF IInv, Places, Streaming, Links, AtRest, RingSize
<1>6. Sections'
  BY <1>1, <1>2, <1>3, <1>4 DEF IInv, Sections, Streaming, LinkType
<1>7. LinkRight("bt")'
  BY <1>1, <1>3, <1>4, Sizes DEF IInv, Resting, RestPcs, AtRest, LinkRight, Handshake, Counting, Consumer, BusyPcs, Blocks,
    Held, Holding, Filling, NotTaken, RingSize
<1>8. LinkRight("hash")'
  BY <1>1, <1>3, <1>4, Sizes DEF IInv, Resting, RestPcs, AtRest, LinkRight, Handshake, Counting, Consumer, BusyPcs, Blocks,
    Held, Holding, Filling, NotTaken, RingSize
<1> QED
  BY <1>5, <1>6, <1>7, <1>8 DEF Control

LEMMA EnterHashCSControl ==
  ASSUME IInv, EnterHashCS
  PROVE  Control'
<1>1. /\ pc.hash = "enterHash" /\ sync.hash.cs = "nobody"
      /\ Moved("hash", "move")
      /\ LinkBecomes("hash", [sync.hash EXCEPT !.cs = "hash"])
      /\ UNCHANGED <<mf, buf, bt, main>>
  BY EnterHashCSEffect DEF Links, Consumer, IInv
<1>2. sync.bt \in LinkType /\ sync.hash \in LinkType
  BY LinkFields DEF IInv, Links
<1>3. /\ pc'.main = pc.main /\ pc'.bt = pc.bt /\ pc'.hash = "move" /\ sync'.bt = sync.bt
      /\ sync'.hash.cs = "hash" /\ sync'.hash.needStart = sync.hash.needStart
      /\ sync'.hash.exit = sync.hash.exit /\ sync'.hash.stopWriting = sync.hash.stopWriting
      /\ sync'.hash.canStart = sync.hash.canStart /\ sync'.hash.wasStarted = sync.hash.wasStarted
      /\ sync'.hash.wasStopped = sync.hash.wasStopped /\ sync'.hash.free = sync.hash.free
      /\ sync'.hash.filled = sync.hash.filled /\ sync'.hash.csWasEntered = sync.hash.csWasEntered
      /\ sync'.hash.numProcessed = sync.hash.numProcessed /\ sync'.hash.mine = sync.hash.mine
  BY <1>1, <1>2 DEF Moved, LinkBecomes, LinkType
<1>4. /\ Streaming /\ Streaming' /\ ~sync.hash.needStart /\ Handshake("hash") /\ Counting("hash")
      /\ sync.hash.free \in Nat /\ sync.hash.filled \in Nat /\ sync.hash.numProcessed \in Nat
      /\ sync.hash.mine \in Nat /\ mf.blocks \in Nat
  BY <1>1, <1>3, ProducerActive, LinkFields, Fields DEF IInv, Links, Streaming
<1>5. Places'
  BY <1>1, <1>3, <1>4, Sizes DEF IInv, Places, Streaming, Links, AtRest, RingSize
<1>6. Sections'
  BY <1>1, <1>2, <1>3, <1>4 DEF IInv, Sections, Streaming, LinkType
<1>7. LinkRight("bt")'
  BY <1>1, <1>3, <1>4, Sizes DEF IInv, Resting, RestPcs, AtRest, LinkRight, Handshake, Counting, Consumer, BusyPcs, Blocks,
    Held, Holding, Filling, NotTaken, RingSize
<1>8. LinkRight("hash")'
  BY <1>1, <1>3, <1>4, Sizes DEF IInv, Resting, RestPcs, AtRest, LinkRight, Handshake, Counting, Consumer, BusyPcs, Blocks,
    Held, Holding, Filling, NotTaken, RingSize
<1> QED
  BY <1>5, <1>6, <1>7, <1>8 DEF Control

LEMMA MoveBlockControl ==
  ASSUME IInv, MoveBlock
  PROVE  Control'
<1>1. /\ pc.hash = "move"
      /\ Moved("hash", "check")
      /\ sync'.bt = [sync.bt EXCEPT !.cs = "nobody"]
      /\ sync'.hash = [sync.hash EXCEPT !.cs = "nobody"]
      /\ sync' \in [Links -> LinkType]
      /\ UNCHANGED <<buf, bt, main>>
  BY MoveBlockEffect DEF Links, Consumer, IInv
<1>2. sync.bt \in LinkType /\ sync.hash \in LinkType
  BY LinkFields DEF IInv, Links
<1>3. /\ pc'.main = pc.main /\ pc'.bt = pc.bt /\ pc'.hash = "check" /\ sync'.bt.cs = "nobody"
      /\ sync'.bt.needStart = sync.bt.needStart /\ sync'.bt.exit = sync.bt.exit
      /\ sync'.bt.stopWriting = sync.bt.stopWriting /\ sync'.bt.canStart = sync.bt.canStart
      /\ sync'.bt.wasStarted = sync.bt.wasStarted /\ sync'.bt.wasStopped = sync.bt.wasStopped
      /\ sync'.bt.free = sync.bt.free /\ sync'.bt.filled = sync.bt.filled
      /\ sync'.bt.csWasEntered = sync.bt.csWasEntered
      /\ sync'.bt.numProcessed = sync.bt.numProcessed /\ sync'.bt.mine = sync.bt.mine
      /\ sync'.hash.cs = "nobody" /\ sync'.hash.needStart = sync.hash.needStart
      /\ sync'.hash.exit = sync.hash.exit /\ sync'.hash.stopWriting = sync.hash.stopWriting
      /\ sync'.hash.canStart = sync.hash.canStart /\ sync'.hash.wasStarted = sync.hash.wasStarted
      /\ sync'.hash.wasStopped = sync.hash.wasStopped /\ sync'.hash.free = sync.hash.free
      /\ sync'.hash.filled = sync.hash.filled /\ sync'.hash.csWasEntered = sync.hash.csWasEntered
      /\ sync'.hash.numProcessed = sync.hash.numProcessed /\ sync'.hash.mine = sync.hash.mine
  BY <1>1, <1>2 DEF Moved, LinkBecomes, LinkType
<1>4. /\ Streaming /\ Streaming' /\ ~sync.hash.needStart /\ Handshake("hash") /\ Counting("hash")
      /\ sync.hash.free \in Nat /\ sync.hash.filled \in Nat /\ sync.hash.numProcessed \in Nat
      /\ sync.hash.mine \in Nat /\ mf.blocks \in Nat
      /\ mf'.blocks = mf.blocks
  BY <1>1, <1>3, ProducerActive, LinkFields, Fields DEF IInv, Links, Streaming, MoveBlock, Shapes, WindowType
<1>5. Places'
  BY <1>1, <1>3, <1>4, Sizes DEF IInv, Places, Streaming, Links, AtRest, RingSize
<1>6. Sections'
  BY <1>1, <1>2, <1>3, <1>4 DEF IInv, Sections, Streaming, LinkType
<1>7. LinkRight("bt")'
  <2>1. CASE sync.bt.needStart
    <3>1. Resting("bt")
      BY <1>4, <2>1 DEF IInv, LinkRight
    <3> QED
      BY <1>3, <2>1, <3>1 DEF LinkRight, Resting, RestPcs, AtRest, Consumer, RingSize
  <2>2. CASE ~sync.bt.needStart
    <3>1. Handshake("bt") /\ Counting("bt")
      BY <1>4, <2>2 DEF IInv, LinkRight
    <3>2. Handshake("bt")'
      <4>1. bt'.blocks = bt.blocks
        BY <1>1
      <4> QED
        BY <1>3, <3>1, <4>1, SMTT(30) DEF Handshake, BusyPcs, Consumer, Blocks
    <3>3. Counting("bt")'
      BY <1>1, <1>3, <3>1, SMTT(30), ZenonT(30) DEF Counting, Consumer, Blocks, Held, Holding, Filling, NotTaken, RingSize
    <3> QED
      BY <1>3, <2>2, <3>2, <3>3 DEF LinkRight
  <2> QED
    BY <2>1, <2>2
<1>8. LinkRight("hash")'
  <2>1. Handshake("hash")'
    BY <1>1, <1>3, <1>4 DEF Handshake, BusyPcs, Consumer, Blocks
  <2>2. Counting("hash")'
    BY <1>1, <1>3, <1>4 DEF Counting, Consumer, Blocks, Held, Holding, Filling, NotTaken, RingSize
  <2> QED
    BY <1>3, <1>4, <2>1, <2>2 DEF LinkRight
<1> QED
  BY <1>5, <1>6, <1>7, <1>8 DEF Control

LEMMA FillHashBlockControl ==
  ASSUME IInv, FillHashBlock
  PROVE  Control'
<1>1. /\ pc.hash = "fill" /\ mf'.blocks = mf.blocks + 1
      /\ Moved("hash", "check")
      /\ LinkBecomes("hash", [sync.hash EXCEPT !.filled = sync.hash.filled + 1])
      /\ UNCHANGED <<bt, main>>
  BY FillHashBlockEffect DEF Links, Consumer, IInv
<1>2. sync.bt \in LinkType /\ sync.hash \in LinkType
  BY LinkFields DEF IInv, Links
<1>3. /\ pc'.main = pc.main /\ pc'.bt = pc.bt /\ pc'.hash = "check" /\ sync'.bt = sync.bt
      /\ sync'.hash.filled = sync.hash.filled + 1 /\ sync'.hash.needStart = sync.hash.needStart
      /\ sync'.hash.exit = sync.hash.exit /\ sync'.hash.stopWriting = sync.hash.stopWriting
      /\ sync'.hash.canStart = sync.hash.canStart /\ sync'.hash.wasStarted = sync.hash.wasStarted
      /\ sync'.hash.wasStopped = sync.hash.wasStopped /\ sync'.hash.free = sync.hash.free
      /\ sync'.hash.cs = sync.hash.cs /\ sync'.hash.csWasEntered = sync.hash.csWasEntered
      /\ sync'.hash.numProcessed = sync.hash.numProcessed /\ sync'.hash.mine = sync.hash.mine
  BY <1>1, <1>2 DEF Moved, LinkBecomes, LinkType
<1>4. /\ Streaming /\ Streaming' /\ ~sync.hash.needStart /\ Handshake("hash") /\ Counting("hash")
      /\ sync.hash.free \in Nat /\ sync.hash.filled \in Nat /\ sync.hash.numProcessed \in Nat
      /\ sync.hash.mine \in Nat /\ mf.blocks \in Nat
  BY <1>1, <1>3, ProducerActive, LinkFields, Fields DEF IInv, Links, Streaming
<1>5. Places'
  BY <1>1, <1>3, <1>4, Sizes DEF IInv, Places, Streaming, Links, AtRest, RingSize
<1>6. Sections'
  BY <1>1, <1>2, <1>3, <1>4 DEF IInv, Sections, Streaming, LinkType
<1>7. LinkRight("bt")'
  BY <1>1, <1>3, <1>4, Sizes DEF IInv, Resting, RestPcs, AtRest, LinkRight, Handshake, Counting, Consumer, BusyPcs, Blocks,
    Held, Holding, Filling, NotTaken, RingSize
<1>8. LinkRight("hash")'
  BY <1>1, <1>3, <1>4, Sizes DEF IInv, Resting, RestPcs, AtRest, LinkRight, Handshake, Counting, Consumer, BusyPcs, Blocks,
    Held, Holding, Filling, NotTaken, RingSize
<1> QED
  BY <1>5, <1>6, <1>7, <1>8 DEF Control

-----------------------------------------------------------------------------
(* The tree thread.                                                        *)

LEMMA BtStopControl ==
  ASSUME IInv, BtStop
  PROVE  Control'
<1>1. /\ pc.bt = "check" /\ ~sync.bt.exit /\ sync.bt.stopWriting
      /\ Moved("bt", "stop")
      /\ LinkBecomes("bt", [sync.bt EXCEPT !.numProcessed = bt.blocks])
      /\ UNCHANGED <<mf, buf, bt, main>>
  BY BtStopEffect DEF Links, Consumer, IInv
<1>2. sync.bt \in LinkType /\ sync.hash \in LinkType
  BY LinkFields DEF IInv, Links
<1>3. /\ pc'.main = pc.main /\ pc'.bt = "stop" /\ pc'.hash = pc.hash
      /\ sync'.bt.numProcessed = bt.blocks /\ sync'.bt.needStart = sync.bt.needStart
      /\ sync'.bt.exit = sync.bt.exit /\ sync'.bt.stopWriting = sync.bt.stopWriting
      /\ sync'.bt.canStart = sync.bt.canStart /\ sync'.bt.wasStarted = sync.bt.wasStarted
      /\ sync'.bt.wasStopped = sync.bt.wasStopped /\ sync'.bt.free = sync.bt.free
      /\ sync'.bt.filled = sync.bt.filled /\ sync'.bt.cs = sync.bt.cs
      /\ sync'.bt.csWasEntered = sync.bt.csWasEntered /\ sync'.bt.mine = sync.bt.mine
      /\ sync'.hash = sync.hash
  BY <1>1, <1>2 DEF Moved, LinkBecomes, LinkType
<1>4. /\ Streaming /\ Streaming' /\ ~sync.bt.needStart /\ Handshake("bt") /\ Counting("bt")
      /\ sync.bt.free \in Nat /\ sync.bt.filled \in Nat /\ sync.bt.numProcessed \in Nat
      /\ sync.bt.mine \in Nat /\ bt.blocks \in Nat
  BY <1>1, <1>3, LinkFields, Fields DEF IInv, Links, Streaming, Places, LinkRight, Resting
<1>5. Places'
  BY <1>1, <1>3, <1>4, Sizes DEF IInv, Places, Streaming, Links, AtRest, RingSize, Handshake, Consumer
<1>6. Sections'
  BY <1>1, <1>2, <1>3, <1>4 DEF IInv, Sections, Streaming, LinkType
<1>7. LinkRight("bt")'
  BY <1>1, <1>3, <1>4, Sizes DEF IInv, Resting, RestPcs, AtRest, LinkRight, Handshake, Counting, Consumer, BusyPcs, Blocks,
    Held, Holding, Filling, NotTaken, RingSize
<1>8. LinkRight("hash")'
  BY <1>1, <1>3, <1>4, Sizes DEF IInv, Resting, RestPcs, AtRest, LinkRight, Handshake, Counting, Consumer, BusyPcs, Blocks,
    Held, Holding, Filling, NotTaken, RingSize
<1> QED
  BY <1>5, <1>6, <1>7, <1>8 DEF Control

LEMMA BtStoppedControl ==
  ASSUME IInv, BtStopped
  PROVE  Control'
<1>1. /\ pc.bt = "stopped"
      /\ Moved("bt", "start")
      /\ LinkBecomes("bt", [sync.bt EXCEPT !.wasStopped = TRUE])
      /\ UNCHANGED <<mf, buf, bt, main>>
  BY BtStoppedEffect DEF Links, Consumer, IInv
<1>2. sync.bt \in LinkType /\ sync.hash \in LinkType
  BY LinkFields DEF IInv, Links
<1>3. /\ pc'.main = pc.main /\ pc'.bt = "start" /\ pc'.hash = pc.hash /\ sync'.bt.wasStopped
      /\ sync'.bt.needStart = sync.bt.needStart /\ sync'.bt.exit = sync.bt.exit
      /\ sync'.bt.stopWriting = sync.bt.stopWriting /\ sync'.bt.canStart = sync.bt.canStart
      /\ sync'.bt.wasStarted = sync.bt.wasStarted /\ sync'.bt.free = sync.bt.free
      /\ sync'.bt.filled = sync.bt.filled /\ sync'.bt.cs = sync.bt.cs
      /\ sync'.bt.csWasEntered = sync.bt.csWasEntered
      /\ sync'.bt.numProcessed = sync.bt.numProcessed /\ sync'.bt.mine = sync.bt.mine
      /\ sync'.hash = sync.hash
  BY <1>1, <1>2 DEF Moved, LinkBecomes, LinkType
<1>4. /\ Streaming /\ Streaming' /\ ~sync.bt.needStart /\ Handshake("bt") /\ Counting("bt")
      /\ sync.bt.free \in Nat /\ sync.bt.filled \in Nat /\ sync.bt.numProcessed \in Nat
      /\ sync.bt.mine \in Nat /\ bt.blocks \in Nat
      /\ pc.main = "wait"
  BY <1>1, <1>3, ProducerActive, LinkFields, Fields DEF IInv, Links, Streaming, Places
<1>5. Places'
  BY <1>1, <1>3, <1>4, Sizes DEF IInv, Places, Streaming, Links, AtRest, RingSize
<1>6. Sections'
  BY <1>1, <1>2, <1>3, <1>4 DEF IInv, Sections, Streaming, LinkType
<1>7. LinkRight("bt")'
  BY <1>1, <1>3, <1>4, Sizes DEF IInv, Resting, RestPcs, AtRest, LinkRight, Handshake, Counting, Consumer, BusyPcs, Blocks,
    Held, Holding, Filling, NotTaken, RingSize
<1>8. LinkRight("hash")'
  BY <1>1, <1>3, <1>4, Sizes DEF IInv, Resting, RestPcs, AtRest, LinkRight, Handshake, Counting, Consumer, BusyPcs, Blocks,
    Held, Holding, Filling, NotTaken, RingSize
<1> QED
  BY <1>5, <1>6, <1>7, <1>8 DEF Control

LEMMA BtCheckControl ==
  ASSUME IInv, BtCheck
  PROVE  Control'
<1>1. /\ pc.bt = "check" /\ ~sync.bt.exit
      /\ Moved("bt", "free")
      /\ UNCHANGED <<sync, mf, buf, bt, main>>
  BY BtCheckEffect DEF Links, Consumer, IInv
<1>2. sync.bt \in LinkType /\ sync.hash \in LinkType
  BY LinkFields DEF IInv, Links
<1>3. /\ pc'.main = pc.main /\ pc'.bt = "free" /\ pc'.hash = pc.hash /\ sync'.bt = sync.bt
      /\ sync'.hash = sync.hash
  BY <1>1, <1>2 DEF Moved, LinkBecomes, LinkType
<1>4. /\ Streaming /\ Streaming' /\ ~sync.bt.needStart /\ Handshake("bt") /\ Counting("bt")
      /\ sync.bt.free \in Nat /\ sync.bt.filled \in Nat /\ sync.bt.numProcessed \in Nat
      /\ sync.bt.mine \in Nat /\ bt.blocks \in Nat
  BY <1>1, <1>3, LinkFields, Fields DEF IInv, Links, Streaming, Places, LinkRight, Resting
<1>5. Places'
  BY <1>1, <1>3, <1>4, Sizes DEF IInv, Places, Streaming, Links, AtRest, RingSize
<1>6. Sections'
  BY <1>1, <1>2, <1>3, <1>4 DEF IInv, Sections, Streaming, LinkType
<1>7. LinkRight("bt")'
  BY <1>1, <1>3, <1>4, Sizes DEF IInv, Resting, RestPcs, AtRest, LinkRight, Handshake, Counting, Consumer, BusyPcs, Blocks,
    Held, Holding, Filling, NotTaken, RingSize
<1>8. LinkRight("hash")'
  BY <1>1, <1>3, <1>4, Sizes DEF IInv, Resting, RestPcs, AtRest, LinkRight, Handshake, Counting, Consumer, BusyPcs, Blocks,
    Held, Holding, Filling, NotTaken, RingSize
<1> QED
  BY <1>5, <1>6, <1>7, <1>8 DEF Control

LEMMA BtFillBlockControl ==
  ASSUME IInv, BtFillBlock, ~sync.hash.needStart
  PROVE  Control'
<1>1. /\ pc.bt = "fill" /\ sync.hash.cs = "nobody" /\ bt'.blocks = bt.blocks
      /\ Moved("bt", IF bt.left = 0 THEN "get" ELSE "matches")
      /\ LinkBecomes("hash", [sync.hash EXCEPT !.cs = "bt", !.csWasEntered = TRUE])
      /\ UNCHANGED <<mf, main>>
  BY BtFillBlockEffect DEF Links, Consumer, IInv
<1>2. sync.bt \in LinkType /\ sync.hash \in LinkType
  BY LinkFields DEF IInv, Links
<1>3. /\ pc'.main = pc.main /\ pc'.bt = IF bt.left = 0 THEN "get" ELSE "matches"
      /\ pc'.hash = pc.hash /\ sync'.bt = sync.bt /\ sync'.hash.cs = "bt"
      /\ sync'.hash.csWasEntered /\ sync'.hash.needStart = sync.hash.needStart
      /\ sync'.hash.exit = sync.hash.exit /\ sync'.hash.stopWriting = sync.hash.stopWriting
      /\ sync'.hash.canStart = sync.hash.canStart /\ sync'.hash.wasStarted = sync.hash.wasStarted
      /\ sync'.hash.wasStopped = sync.hash.wasStopped /\ sync'.hash.free = sync.hash.free
      /\ sync'.hash.filled = sync.hash.filled /\ sync'.hash.numProcessed = sync.hash.numProcessed
      /\ sync'.hash.mine = sync.hash.mine
  BY <1>1, <1>2 DEF Moved, LinkBecomes, LinkType
<1>4. /\ Streaming /\ Streaming' /\ ~sync.bt.needStart /\ Handshake("bt") /\ Counting("bt")
      /\ sync.bt.free \in Nat /\ sync.bt.filled \in Nat /\ sync.bt.numProcessed \in Nat
      /\ sync.bt.mine \in Nat /\ bt.blocks \in Nat
  BY <1>1, <1>3, ProducerActive, LinkFields, Fields DEF IInv, Links, Streaming
<1>5. Places'
  BY <1>1, <1>3, <1>4, Sizes DEF IInv, Places, Streaming, Links, AtRest, RingSize
<1>6. Sections'
  BY <1>1, <1>2, <1>3, <1>4 DEF IInv, Sections, Streaming, LinkType
<1>7. LinkRight("bt")'
  BY <1>1, <1>3, <1>4, Sizes DEF IInv, Resting, RestPcs, AtRest, LinkRight, Handshake, Counting, Consumer, BusyPcs, Blocks,
    Held, Holding, Filling, NotTaken, RingSize
<1>8. LinkRight("hash")'
  BY <1>1, <1>3, <1>4, Sizes DEF IInv, Resting, RestPcs, AtRest, LinkRight, Handshake, Counting, Consumer, BusyPcs, Blocks,
    Held, Holding, Filling, NotTaken, RingSize
<1> QED
  BY <1>5, <1>6, <1>7, <1>8 DEF Control

LEMMA BtFillFirstControl ==
  ASSUME IInv, BtFillBlock, sync.hash.needStart
  PROVE  Control'
<1>1. /\ pc.bt = "fill" /\ bt'.blocks = bt.blocks
      /\ Moved("bt", IF bt.left = 0 THEN "get" ELSE "matches")
      /\ UNCHANGED <<sync, mf, main>>
  BY BtFillBlockEffect DEF Links, Consumer, IInv
<1>2. sync.bt \in LinkType /\ sync.hash \in LinkType
  BY LinkFields DEF IInv, Links
<1>3. /\ pc'.main = pc.main /\ pc'.bt = IF bt.left = 0 THEN "get" ELSE "matches"
      /\ pc'.hash = pc.hash /\ sync'.bt = sync.bt /\ sync'.hash = sync.hash
  BY <1>1, <1>2 DEF Moved, LinkBecomes, LinkType
<1>4. /\ Streaming /\ Streaming' /\ ~sync.bt.needStart /\ Handshake("bt") /\ Counting("bt")
      /\ sync.bt.free \in Nat /\ sync.bt.filled \in Nat /\ sync.bt.numProcessed \in Nat
      /\ sync.bt.mine \in Nat /\ bt.blocks \in Nat
      /\ bt.left = 0
  BY <1>1, <1>3, ProducerActive, LinkFields, Fields DEF IInv, Links, Streaming, TreeRight, TreeLives, Fresh
<1>5. Places'
  BY <1>1, <1>3, <1>4, Sizes DEF IInv, Places, Streaming, Links, AtRest, RingSize
<1>6. Sections'
  BY <1>1, <1>2, <1>3, <1>4 DEF IInv, Sections, Streaming, LinkType
<1>7. LinkRight("bt")'
  BY <1>1, <1>3, <1>4, Sizes DEF IInv, Resting, RestPcs, AtRest, LinkRight, Handshake, Counting, Consumer, BusyPcs, Blocks,
    Held, Holding, Filling, NotTaken, RingSize
<1>8. LinkRight("hash")'
  BY <1>1, <1>3, <1>4, Sizes DEF IInv, Resting, RestPcs, AtRest, LinkRight, Handshake, Counting, Consumer, BusyPcs, Blocks,
    Held, Holding, Filling, NotTaken, RingSize
<1> QED
  BY <1>5, <1>6, <1>7, <1>8 DEF Control
LEMMA FindMatchesControl ==
  ASSUME IInv, FindMatches
  PROVE  Control'
<1>1. /\ pc.bt = "matches"
      /\ pc'.main = pc.main /\ pc'.hash = pc.hash /\ pc'.bt \in {"leave", "get"}
      /\ UNCHANGED <<sync, mf, main>>
  BY FindMatchesEffect DEF Links, Consumer, IInv, Moved
<1>2. sync.bt \in LinkType /\ sync.hash \in LinkType
  BY LinkFields DEF IInv, Links
<1>3. /\ pc'.main = pc.main /\ pc'.bt \in {"leave", "get"} /\ pc'.hash = pc.hash /\ sync'.bt = sync.bt
      /\ sync'.hash = sync.hash
  BY <1>1, <1>2 DEF Moved, LinkBecomes, LinkType
<1>4. /\ Streaming /\ Streaming' /\ ~sync.bt.needStart /\ Handshake("bt") /\ Counting("bt")
      /\ sync.bt.free \in Nat /\ sync.bt.filled \in Nat /\ sync.bt.numProcessed \in Nat
      /\ sync.bt.mine \in Nat /\ bt.blocks \in Nat
      /\ bt'.blocks = bt.blocks
      /\ ~sync.hash.needStart
  <2>1. ~sync.hash.needStart
    BY <1>1, ConsumerActive DEF Consumer, Links
  <2>2. Streaming /\ ~sync.bt.needStart /\ Handshake("bt") /\ Counting("bt")
    BY <1>1, ProducerActive DEF Links
  <2>3. bt'.blocks = bt.blocks
    BY FindMatchesEffect DEF IInv, Shapes, TreeType
  <2> QED
    BY <1>3, <2>1, <2>2, <2>3, LinkFields, Fields DEF IInv, Links, Streaming
<1>5. Places'
  BY <1>1, <1>3, <1>4, Sizes DEF IInv, Places, Streaming, Links, AtRest, RingSize
<1>6. Sections'
  BY <1>1, <1>2, <1>3, <1>4 DEF IInv, Sections, Streaming, LinkType
<1>7. LinkRight("bt")'
  BY <1>1, <1>3, <1>4, Sizes DEF IInv, Resting, RestPcs, AtRest, LinkRight, Handshake, Counting, Consumer, BusyPcs, Blocks,
    Held, Holding, Filling, NotTaken, RingSize
<1>8. LinkRight("hash")'
  BY <1>1, <1>3, <1>4, Sizes DEF IInv, Resting, RestPcs, AtRest, LinkRight, Handshake, Counting, Consumer, BusyPcs, Blocks,
    Held, Holding, Filling, NotTaken, RingSize
<1> QED
  BY <1>5, <1>6, <1>7, <1>8 DEF Control

LEMMA GotHashBlockControl ==
  ASSUME IInv, GotHashBlock
  PROVE  Control'
<1>1. /\ pc.bt = "got"
      /\ pc'.main = pc.main /\ pc'.hash = pc.hash /\ pc'.bt \in {"matches", "leave"}
      /\ UNCHANGED <<sync, mf, main>>
  BY GotHashBlockEffect DEF Links, Consumer, IInv, Moved
<1>2. sync.bt \in LinkType /\ sync.hash \in LinkType
  BY LinkFields DEF IInv, Links
<1>3. /\ pc'.main = pc.main /\ pc'.bt \in {"matches", "leave"} /\ pc'.hash = pc.hash /\ sync'.bt = sync.bt
      /\ sync'.hash = sync.hash
  BY <1>1, <1>2 DEF Moved, LinkBecomes, LinkType
<1>4. /\ Streaming /\ Streaming' /\ ~sync.bt.needStart /\ Handshake("bt") /\ Counting("bt")
      /\ sync.bt.free \in Nat /\ sync.bt.filled \in Nat /\ sync.bt.numProcessed \in Nat
      /\ sync.bt.mine \in Nat /\ bt.blocks \in Nat
      /\ bt'.blocks = bt.blocks
      /\ ~sync.hash.needStart
  <2>1. ~sync.hash.needStart
    BY <1>1, ConsumerActive DEF Consumer, Links
  <2>2. Streaming /\ ~sync.bt.needStart /\ Handshake("bt") /\ Counting("bt")
    BY <1>1, ProducerActive DEF Links
  <2>3. bt'.blocks = bt.blocks
    BY GotHashBlockEffect DEF IInv, Shapes, TreeType
  <2> QED
    BY <1>3, <2>1, <2>2, <2>3, LinkFields, Fields DEF IInv, Links, Streaming
<1>5. Places'
  BY <1>1, <1>3, <1>4, Sizes DEF IInv, Places, Streaming, Links, AtRest, RingSize
<1>6. Sections'
  BY <1>1, <1>2, <1>3, <1>4 DEF IInv, Sections, Streaming, LinkType
<1>7. LinkRight("bt")'
  BY <1>1, <1>3, <1>4, Sizes DEF IInv, Resting, RestPcs, AtRest, LinkRight, Handshake, Counting, Consumer, BusyPcs, Blocks,
    Held, Holding, Filling, NotTaken, RingSize
<1>8. LinkRight("hash")'
  BY <1>1, <1>3, <1>4, Sizes DEF IInv, Resting, RestPcs, AtRest, LinkRight, Handshake, Counting, Consumer, BusyPcs, Blocks,
    Held, Holding, Filling, NotTaken, RingSize
<1> QED
  BY <1>5, <1>6, <1>7, <1>8 DEF Control

LEMMA BtBlockDoneControl ==
  ASSUME IInv, BtBlockDone
  PROVE  Control'
<1>0. ~sync.hash.needStart
  BY ConsumerActive DEF BtBlockDone, Links, Consumer
<1>1. /\ pc.bt = "leave" /\ bt'.blocks = bt.blocks + 1
      /\ Moved("bt", "check")
      /\ sync'.bt = [sync.bt EXCEPT !.filled = sync.bt.filled + 1]
      /\ sync'.hash = [sync.hash EXCEPT !.cs = "nobody", !.csWasEntered = FALSE]
      /\ sync' \in [Links -> LinkType]
      /\ UNCHANGED <<mf, main>>
  BY <1>0, BtBlockDoneEffect DEF Links, Consumer, IInv
<1>2. sync.bt \in LinkType /\ sync.hash \in LinkType
  BY LinkFields DEF IInv, Links
<1>3. /\ pc'.main = pc.main /\ pc'.bt = "check" /\ pc'.hash = pc.hash
      /\ sync'.bt.filled = sync.bt.filled + 1 /\ sync'.bt.needStart = sync.bt.needStart
      /\ sync'.bt.exit = sync.bt.exit /\ sync'.bt.stopWriting = sync.bt.stopWriting
      /\ sync'.bt.canStart = sync.bt.canStart /\ sync'.bt.wasStarted = sync.bt.wasStarted
      /\ sync'.bt.wasStopped = sync.bt.wasStopped /\ sync'.bt.free = sync.bt.free
      /\ sync'.bt.cs = sync.bt.cs /\ sync'.bt.csWasEntered = sync.bt.csWasEntered
      /\ sync'.bt.numProcessed = sync.bt.numProcessed /\ sync'.bt.mine = sync.bt.mine
      /\ sync'.hash.cs = "nobody" /\ ~sync'.hash.csWasEntered
      /\ sync'.hash.needStart = sync.hash.needStart /\ sync'.hash.exit = sync.hash.exit
      /\ sync'.hash.stopWriting = sync.hash.stopWriting
      /\ sync'.hash.canStart = sync.hash.canStart /\ sync'.hash.wasStarted = sync.hash.wasStarted
      /\ sync'.hash.wasStopped = sync.hash.wasStopped /\ sync'.hash.free = sync.hash.free
      /\ sync'.hash.filled = sync.hash.filled /\ sync'.hash.numProcessed = sync.hash.numProcessed
      /\ sync'.hash.mine = sync.hash.mine
  BY <1>1, <1>2 DEF Moved, LinkBecomes, LinkType
<1>4. /\ Streaming /\ Streaming' /\ ~sync.bt.needStart /\ Handshake("bt") /\ Counting("bt")
      /\ sync.bt.free \in Nat /\ sync.bt.filled \in Nat /\ sync.bt.numProcessed \in Nat
      /\ sync.bt.mine \in Nat /\ bt.blocks \in Nat
      /\ ~sync.hash.needStart
  BY <1>0, <1>1, <1>3, ProducerActive, LinkFields, Fields DEF IInv, Links, Streaming
<1>5. Places'
  BY <1>1, <1>3, <1>4, Sizes DEF IInv, Places, Streaming, Links, AtRest, RingSize
<1>6. Sections'
  BY <1>1, <1>2, <1>3, <1>4 DEF IInv, Sections, Streaming, LinkType
<1>7. LinkRight("bt")'
  <2>1. Handshake("bt")'
    BY <1>1, <1>3, <1>4 DEF Handshake, BusyPcs, Consumer, Blocks
  <2>2. Counting("bt")'
    <3>1. /\ Blocks("bt") = bt.blocks /\ Blocks("bt")' = bt.blocks + 1
          /\ Held("bt") = 1 /\ Held("bt")' = 0 /\ NotTaken("bt")' = NotTaken("bt")
          /\ NotTaken("bt") \in {0, 1} /\ RingSize("bt") = BtNumBlocks
          /\ pc[Consumer("bt")] = pc.main /\ pc'[Consumer("bt")] = pc.main
      BY <1>1, <1>3 DEF Blocks, Held, Holding, Filling, NotTaken, RingSize, Consumer
    <3>2. ~(sync.bt.wasStopped \/ pc.bt \in {"stop", "wait", "stopped"})
      BY <1>1, <1>4 DEF Handshake
    <3>3. BtNumBlocks \in Nat
      BY Sizes
    <3>4. CASE pc.main = "wait"
      <4>1. /\ sync.bt.filled = bt.blocks - sync.bt.mine
            /\ sync.bt.free = BtNumBlocks - bt.blocks - 1 + sync.bt.mine
        BY <1>4, <3>1, <3>4 DEF Counting
      <4>2. /\ sync'.bt.filled = (bt.blocks + 1) - sync'.bt.mine
            /\ sync'.bt.free = BtNumBlocks - (bt.blocks + 1) - 0 + sync'.bt.mine
            /\ ~sync'.bt.wasStopped /\ pc'.bt = "check"
        BY <1>3, <1>4, <3>2, <3>3, <4>1
      <4> QED
        BY <3>1, <3>4, <4>2 DEF Counting
    <3>5. CASE pc.main # "wait"
      <4>1. /\ sync.bt.filled = bt.blocks - sync.bt.numProcessed + NotTaken("bt")
            /\ sync.bt.free = BtNumBlocks - bt.blocks - 1 + sync.bt.numProcessed - 1
            /\ sync.bt.numProcessed >= 1
        BY <1>4, <3>1, <3>5 DEF Counting
      <4>2. /\ sync'.bt.filled = (bt.blocks + 1) - sync'.bt.numProcessed + NotTaken("bt")
            /\ sync'.bt.free = BtNumBlocks - (bt.blocks + 1) - 0 + sync'.bt.numProcessed - 1
            /\ sync'.bt.numProcessed >= 1
        BY <1>3, <1>4, <3>1, <3>3, <4>1
      <4> QED
        BY <3>1, <3>5, <4>2 DEF Counting
    <3> QED
      BY <3>4, <3>5
  <2> QED
    BY <1>3, <1>4, <2>1, <2>2 DEF LinkRight
<1>8. LinkRight("hash")'
  <2>0. sync.hash.numProcessed \in Nat /\ mf.blocks \in Nat
    BY LinkFields, Fields DEF IInv, Links
  <2>1. Handshake("hash") /\ Counting("hash") /\ ~sync'.hash.needStart /\ mf'.blocks = mf.blocks
    BY <1>0, <1>1, <1>3, <1>4 DEF IInv, LinkRight
  <2>2. ~sync.hash.exit /\ ~sync.hash.canStart /\ ~sync.hash.wasStarted /\ ~sync.hash.wasStopped
        /\ ~sync.hash.stopWriting /\ pc.hash # "start"
    BY <1>1, <2>1 DEF Handshake, Consumer
  <2>3. Handshake("hash")'
    BY <1>3, <2>2 DEF Handshake, BusyPcs, Consumer
  <2>4. /\ sync.hash.numProcessed >= 1
        /\ sync.hash.filled = mf.blocks - sync.hash.numProcessed
        /\ sync.hash.free = HashNumBlocks - mf.blocks - Held("hash") + sync.hash.numProcessed - 1
    BY <1>1, <2>0, <2>1 DEF Counting, Consumer, Blocks, NotTaken, RingSize
  <2>5. Held("hash")' = Held("hash")
    BY <1>3 DEF Held, Holding
  <2>6. Counting("hash")'
    BY <1>3, <2>0, <2>1, <2>4, <2>5 DEF Counting, Consumer, Blocks, NotTaken, RingSize
  <2> QED
    BY <2>1, <2>3, <2>6 DEF LinkRight
<1> QED
  BY <1>5, <1>6, <1>7, <1>8 DEF Control

-----------------------------------------------------------------------------
(* The encoder between the calls.                                          *)

LEMMA GetNumAvailableBytesControl ==
  ASSUME IInv, GetNumAvailableBytes
  PROVE  Control'
<1>1. /\ pc.main = "got"
      /\ Moved("main", "get")
      /\ UNCHANGED <<sync, mf, buf, bt, main>>
  BY MainMoves DEF Links, Consumer, IInv
<1>2. sync.bt \in LinkType /\ sync.hash \in LinkType
  BY LinkFields DEF IInv, Links
<1>3. /\ pc'.main = "get" /\ pc'.bt = pc.bt /\ pc'.hash = pc.hash /\ sync'.bt = sync.bt
      /\ sync'.hash = sync.hash
  BY <1>1, <1>2 DEF Moved, LinkBecomes, LinkType
<1>4. Streaming /\ Streaming'
  BY <1>1, <1>3 DEF Streaming
<1>5. Places'
  BY <1>1, <1>3, <1>4, Sizes DEF IInv, Places, Streaming, Links, AtRest, RingSize
<1>6. Sections'
  BY <1>1, <1>2, <1>3, <1>4 DEF IInv, Sections, Streaming, LinkType
<1>7. LinkRight("bt")'
  BY <1>1, <1>3, <1>4, Sizes DEF IInv, Resting, RestPcs, AtRest, LinkRight, Handshake, Counting, Consumer, BusyPcs, Blocks,
    Held, Holding, Filling, NotTaken, RingSize
<1>8. LinkRight("hash")'
  BY <1>1, <1>3, <1>4, Sizes DEF IInv, Resting, RestPcs, AtRest, LinkRight, Handshake, Counting, Consumer, BusyPcs, Blocks,
    Held, Holding, Filling, NotTaken, RingSize
<1> QED
  BY <1>5, <1>6, <1>7, <1>8 DEF Control

LEMMA FinishControl ==
  ASSUME IInv, Finish
  PROVE  Control'
<1>1. /\ pc.main = "got"
      /\ Moved("main", "stop")
      /\ UNCHANGED <<sync, mf, buf, bt, main>>
  BY MainMoves DEF Links, Consumer, IInv
<1>2. sync.bt \in LinkType /\ sync.hash \in LinkType
  BY LinkFields DEF IInv, Links
<1>3. /\ pc'.main = "stop" /\ pc'.bt = pc.bt /\ pc'.hash = pc.hash /\ sync'.bt = sync.bt
      /\ sync'.hash = sync.hash
  BY <1>1, <1>2 DEF Moved, LinkBecomes, LinkType
<1>4. Streaming /\ Streaming'
  BY <1>1, <1>3 DEF Streaming
<1>5. Places'
  BY <1>1, <1>3, <1>4, Sizes DEF IInv, Places, Streaming, Links, AtRest, RingSize
<1>6. Sections'
  BY <1>1, <1>2, <1>3, <1>4 DEF IInv, Sections, Streaming, LinkType
<1>7. LinkRight("bt")'
  BY <1>1, <1>3, <1>4, Sizes DEF IInv, Resting, RestPcs, AtRest, LinkRight, Handshake, Counting, Consumer, BusyPcs, Blocks,
    Held, Holding, Filling, NotTaken, RingSize
<1>8. LinkRight("hash")'
  BY <1>1, <1>3, <1>4, Sizes DEF IInv, Resting, RestPcs, AtRest, LinkRight, Handshake, Counting, Consumer, BusyPcs, Blocks,
    Held, Holding, Filling, NotTaken, RingSize
<1> QED
  BY <1>5, <1>6, <1>7, <1>8 DEF Control

LEMMA FinishedControl ==
  ASSUME IInv, Finished
  PROVE  Control'
<1>1. /\ pc.main = "stopped"
      /\ Moved("main", "idle")
      /\ UNCHANGED <<sync, mf, buf, bt, main>>
  BY MainMoves DEF Links, Consumer, IInv
<1>2. sync.bt \in LinkType /\ sync.hash \in LinkType
  BY LinkFields DEF IInv, Links
<1>3. /\ pc'.main = "idle" /\ pc'.bt = pc.bt /\ pc'.hash = pc.hash /\ sync'.bt = sync.bt
      /\ sync'.hash = sync.hash
  BY <1>1, <1>2 DEF Moved, LinkBecomes, LinkType
<1>4. Streaming /\ ~Streaming' /\ Resting("bt") /\ Resting("hash")
  BY <1>1, <1>3 DEF Streaming, IInv, LinkRight, Handshake, BusyPcs, Consumer, Links, Resting
<1>5. Places'
  BY <1>1, <1>3, <1>4, Sizes DEF IInv, Places, Streaming, Links, AtRest, RingSize, Resting
<1>6. Sections'
  BY <1>1, <1>2, <1>3, <1>4 DEF IInv, Sections, Streaming, LinkType, Resting, AtRest
<1>7. LinkRight("bt")'
  BY <1>1, <1>3, <1>4, Sizes DEF IInv, Resting, RestPcs, AtRest, LinkRight, Handshake, Counting, Consumer, BusyPcs, Blocks,
    Held, Holding, Filling, NotTaken, RingSize
<1>8. LinkRight("hash")'
  BY <1>1, <1>3, <1>4, Sizes DEF IInv, Resting, RestPcs, AtRest, LinkRight, Handshake, Counting, Consumer, BusyPcs, Blocks,
    Held, Holding, Filling, NotTaken, RingSize
<1> QED
  BY <1>5, <1>6, <1>7, <1>8 DEF Control

LEMMA DestructControl ==
  ASSUME IInv, Destruct
  PROVE  Control'
<1>1. /\ pc.main = "idle"
      /\ Moved("main", "endHash")
      /\ UNCHANGED <<sync, mf, buf, bt, main>>
  BY MainMoves DEF Links, Consumer, IInv
<1>2. sync.bt \in LinkType /\ sync.hash \in LinkType
  BY LinkFields DEF IInv, Links
<1>3. /\ pc'.main = "endHash" /\ pc'.bt = pc.bt /\ pc'.hash = pc.hash /\ sync'.bt = sync.bt
      /\ sync'.hash = sync.hash
  BY <1>1, <1>2 DEF Moved, LinkBecomes, LinkType
<1>4. ~Streaming /\ ~Streaming'
  BY <1>1, <1>3 DEF Streaming
<1>5. Places'
  BY <1>1, <1>3, <1>4, Sizes DEF IInv, Places, Streaming, Links, AtRest, RingSize
<1>6. Sections'
  BY <1>1, <1>2, <1>3, <1>4 DEF IInv, Sections, Streaming, LinkType
<1>7. LinkRight("bt")'
  BY <1>1, <1>3, <1>4, Sizes DEF IInv, Resting, RestPcs, AtRest, LinkRight, Handshake, Counting, Consumer, BusyPcs, Blocks,
    Held, Holding, Filling, NotTaken, RingSize
<1>8. LinkRight("hash")'
  BY <1>1, <1>3, <1>4, Sizes DEF IInv, Resting, RestPcs, AtRest, LinkRight, Handshake, Counting, Consumer, BusyPcs, Blocks,
    Held, Holding, Filling, NotTaken, RingSize
<1> QED
  BY <1>5, <1>6, <1>7, <1>8 DEF Control

LEMMA GetMatchesControl ==
  ASSUME IInv, GetMatches, main.avail > 0
  PROVE  Control'
<1>1. /\ pc.main = "got"
      /\ UNCHANGED <<pc, sync, mf, buf, bt>>
  BY GetMatchesEffect DEF Links, Consumer, IInv
<1>2. sync.bt \in LinkType /\ sync.hash \in LinkType
  BY LinkFields DEF IInv, Links
<1>3. /\ pc'.main = pc.main /\ pc'.bt = pc.bt /\ pc'.hash = pc.hash /\ sync'.bt = sync.bt
      /\ sync'.hash = sync.hash
  BY <1>1, <1>2 DEF Moved, LinkBecomes, LinkType
<1>4. Streaming /\ Streaming'
  BY <1>1, <1>3 DEF Streaming
<1>5. Places'
  BY <1>1, <1>3, <1>4, Sizes DEF IInv, Places, Streaming, Links, AtRest, RingSize
<1>6. Sections'
  BY <1>1, <1>2, <1>3, <1>4 DEF IInv, Sections, Streaming, LinkType
<1>7. LinkRight("bt")'
  BY <1>1, <1>3, <1>4, Sizes DEF IInv, Resting, RestPcs, AtRest, LinkRight, Handshake, Counting, Consumer, BusyPcs, Blocks,
    Held, Holding, Filling, NotTaken, RingSize
<1>8. LinkRight("hash")'
  BY <1>1, <1>3, <1>4, Sizes DEF IInv, Resting, RestPcs, AtRest, LinkRight, Handshake, Counting, Consumer, BusyPcs, Blocks,
    Held, Holding, Filling, NotTaken, RingSize
<1> QED
  BY <1>5, <1>6, <1>7, <1>8 DEF Control

LEMMA InitStreamControl ==
  ASSUME IInv, InitStream
  PROVE  Control'
<1>0. pc.main = "init" /\ pc.round >= 1
  BY DEF InitStream, IInv, Places
<1>1. /\ pc.main = "init" /\ pc.round >= 1
      /\ Moved("main", "get")
      /\ UNCHANGED <<sync>>
  BY <1>0, InitStreamEffect DEF Links, Consumer, IInv
<1>2. sync.bt \in LinkType /\ sync.hash \in LinkType
  BY LinkFields DEF IInv, Links
<1>3. /\ pc'.main = "get" /\ pc'.bt = pc.bt /\ pc'.hash = pc.hash /\ sync'.bt = sync.bt
      /\ sync'.hash = sync.hash
  BY <1>1, <1>2 DEF Moved, LinkBecomes, LinkType
<1>4. ~Streaming /\ Streaming' /\ pc.bt = "start" /\ pc.hash = "start" /\ AtRest("bt") /\ AtRest("hash")
  BY <1>1, <1>3 DEF Streaming, IInv, Places
<1>5. Places'
  BY <1>1, <1>3, <1>4, Sizes DEF IInv, Places, Streaming, Links, AtRest, RingSize
<1>6. Sections'
  BY <1>1, <1>2, <1>3, <1>4 DEF IInv, Sections, Streaming, LinkType, AtRest
<1>7. LinkRight("bt")'
  BY <1>1, <1>3, <1>4, Sizes DEF IInv, Resting, RestPcs, AtRest, LinkRight, Handshake, Counting, Consumer, BusyPcs, Blocks,
    Held, Holding, Filling, NotTaken, RingSize
<1>8. LinkRight("hash")'
  BY <1>1, <1>3, <1>4, Sizes DEF IInv, Resting, RestPcs, AtRest, LinkRight, Handshake, Counting, Consumer, BusyPcs, Blocks,
    Held, Holding, Filling, NotTaken, RingSize
<1> QED
  BY <1>5, <1>6, <1>7, <1>8 DEF Control
LEMMA CreateControl ==
  ASSUME IInv, Create
  PROVE  Control'
<1>1. /\ pc.main = "idle" /\ pc'.main \in {"idle", "init"} /\ pc'.bt \in {"none", "start"}
      /\ pc'.hash \in {"none", "start"} /\ pc'.round >= 1 /\ sync' = sync
      /\ pc'.main = "init" => pc'.bt = "start" /\ pc'.hash = "start"
  <2>1. pc.main = "idle" /\ pc.bt \in {"none", "start"} /\ pc.hash \in {"none", "start"} /\ pc.round \in Nat
    BY CreateEffect DEF IInv, Places, Shapes, PcType
  <2> QED
    BY <2>1, CreateEffect DEF IInv
<1>2. ~Streaming /\ ~Streaming' /\ AtRest("bt") /\ AtRest("hash")
  BY <1>1 DEF Streaming, IInv, Places
<1>3. Places'
  BY <1>1, <1>2 DEF Places, Streaming, AtRest, RingSize, Links
<1>4. Sections'
  BY <1>1, <1>2 DEF Sections, Streaming, AtRest
<1> QED
  BY <1>2, <1>3, <1>4 DEF Control, LinkRight

LEMMA HashEndControl ==
  ASSUME IInv, EndThread("hash", "endHash", "joinHash", "endBt"), pc.hash # "none"
  PROVE  Control'
<1>1. /\ pc.main = "endHash"
      /\ Moved("main", "joinHash")
      /\ LinkBecomes("hash", [sync.hash EXCEPT !.exit = TRUE, !.canStart = TRUE])
      /\ UNCHANGED <<mf, buf, bt, main>>
  BY EndThreadEffect DEF Links, Consumer, IInv, MainPcs
<1>2. sync.bt \in LinkType /\ sync.hash \in LinkType
  BY LinkFields DEF IInv, Links
<1>3. /\ pc'.main = "joinHash" /\ pc'.bt = pc.bt /\ pc'.hash = pc.hash /\ sync'.bt = sync.bt
      /\ sync'.hash.exit /\ sync'.hash.canStart /\ sync'.hash.needStart = sync.hash.needStart
      /\ sync'.hash.stopWriting = sync.hash.stopWriting
      /\ sync'.hash.wasStarted = sync.hash.wasStarted
      /\ sync'.hash.wasStopped = sync.hash.wasStopped /\ sync'.hash.free = sync.hash.free
      /\ sync'.hash.filled = sync.hash.filled /\ sync'.hash.cs = sync.hash.cs
      /\ sync'.hash.csWasEntered = sync.hash.csWasEntered
      /\ sync'.hash.numProcessed = sync.hash.numProcessed /\ sync'.hash.mine = sync.hash.mine
  BY <1>1, <1>2 DEF Moved, LinkBecomes, LinkType
<1>4. ~Streaming /\ ~Streaming'
  BY <1>1, <1>3 DEF Streaming
<1>5. Places'
  BY <1>1, <1>3, <1>4, Sizes DEF IInv, Places, Streaming, Links, AtRest, RingSize
<1>6. Sections'
  BY <1>1, <1>2, <1>3, <1>4 DEF IInv, Sections, Streaming, LinkType, Places
<1>7. LinkRight("bt")'
  BY <1>1, <1>3, <1>4, Sizes DEF IInv, Resting, RestPcs, AtRest, LinkRight, Handshake, Counting, Consumer, BusyPcs, Blocks,
    Held, Holding, Filling, NotTaken, RingSize
<1>8. LinkRight("hash")'
  BY <1>1, <1>3, <1>4, Sizes DEF IInv, Resting, RestPcs, AtRest, LinkRight, Handshake, Counting, Consumer, BusyPcs, Blocks,
    Held, Holding, Filling, NotTaken, RingSize
<1> QED
  BY <1>5, <1>6, <1>7, <1>8 DEF Control

LEMMA HashNoEndControl ==
  ASSUME IInv, EndThread("hash", "endHash", "joinHash", "endBt"), pc.hash = "none"
  PROVE  Control'
<1>1. /\ pc.main = "endHash"
      /\ Moved("main", "endBt")
      /\ UNCHANGED <<sync, mf, buf, bt, main>>
  BY EndThreadEffect DEF Links, Consumer, IInv, MainPcs
<1>2. sync.bt \in LinkType /\ sync.hash \in LinkType
  BY LinkFields DEF IInv, Links
<1>3. /\ pc'.main = "endBt" /\ pc'.bt = pc.bt /\ pc'.hash = pc.hash /\ sync'.bt = sync.bt
      /\ sync'.hash = sync.hash
  BY <1>1, <1>2 DEF Moved, LinkBecomes, LinkType
<1>4. ~Streaming /\ ~Streaming'
  BY <1>1, <1>3 DEF Streaming
<1>5. Places'
  BY <1>1, <1>3, <1>4, Sizes DEF IInv, Places, Streaming, Links, AtRest, RingSize
<1>6. Sections'
  BY <1>1, <1>2, <1>3, <1>4 DEF IInv, Sections, Streaming, LinkType
<1>7. LinkRight("bt")'
  BY <1>1, <1>3, <1>4, Sizes DEF IInv, Resting, RestPcs, AtRest, LinkRight, Handshake, Counting, Consumer, BusyPcs, Blocks,
    Held, Holding, Filling, NotTaken, RingSize
<1>8. LinkRight("hash")'
  BY <1>1, <1>3, <1>4, Sizes DEF IInv, Resting, RestPcs, AtRest, LinkRight, Handshake, Counting, Consumer, BusyPcs, Blocks,
    Held, Holding, Filling, NotTaken, RingSize
<1> QED
  BY <1>5, <1>6, <1>7, <1>8 DEF Control

LEMMA HashJoinControl ==
  ASSUME IInv, JoinThread("hash", "joinHash", "endBt")
  PROVE  Control'
<1>1. /\ pc.main = "joinHash"
      /\ Moved("main", "endBt")
      /\ UNCHANGED <<sync, mf, buf, bt, main>>
  BY JoinThreadEffect DEF Links, Consumer, IInv, MainPcs
<1>2. sync.bt \in LinkType /\ sync.hash \in LinkType
  BY LinkFields DEF IInv, Links
<1>3. /\ pc'.main = "endBt" /\ pc'.bt = pc.bt /\ pc'.hash = pc.hash /\ sync'.bt = sync.bt
      /\ sync'.hash = sync.hash
  BY <1>1, <1>2 DEF Moved, LinkBecomes, LinkType
<1>4. ~Streaming /\ ~Streaming'
  BY <1>1, <1>3 DEF Streaming
<1>5. Places'
  BY <1>1, <1>3, <1>4, Sizes DEF IInv, Places, Streaming, Links, AtRest, RingSize
<1>6. Sections'
  BY <1>1, <1>2, <1>3, <1>4 DEF IInv, Sections, Streaming, LinkType
<1>7. LinkRight("bt")'
  BY <1>1, <1>3, <1>4, Sizes DEF IInv, Resting, RestPcs, AtRest, LinkRight, Handshake, Counting, Consumer, BusyPcs, Blocks,
    Held, Holding, Filling, NotTaken, RingSize
<1>8. LinkRight("hash")'
  BY <1>1, <1>3, <1>4, Sizes DEF IInv, Resting, RestPcs, AtRest, LinkRight, Handshake, Counting, Consumer, BusyPcs, Blocks,
    Held, Holding, Filling, NotTaken, RingSize
<1> QED
  BY <1>5, <1>6, <1>7, <1>8 DEF Control

LEMMA BtEndControl ==
  ASSUME IInv, EndThread("bt", "endBt", "joinBt", "done"), pc.bt # "none"
  PROVE  Control'
<1>1. /\ pc.main = "endBt"
      /\ Moved("main", "joinBt")
      /\ LinkBecomes("bt", [sync.bt EXCEPT !.exit = TRUE, !.canStart = TRUE])
      /\ UNCHANGED <<mf, buf, bt, main>>
  BY EndThreadEffect DEF Links, Consumer, IInv, MainPcs
<1>2. sync.bt \in LinkType /\ sync.hash \in LinkType
  BY LinkFields DEF IInv, Links
<1>3. /\ pc'.main = "joinBt" /\ pc'.bt = pc.bt /\ pc'.hash = pc.hash /\ sync'.bt.exit
      /\ sync'.bt.canStart /\ sync'.bt.needStart = sync.bt.needStart
      /\ sync'.bt.stopWriting = sync.bt.stopWriting /\ sync'.bt.wasStarted = sync.bt.wasStarted
      /\ sync'.bt.wasStopped = sync.bt.wasStopped /\ sync'.bt.free = sync.bt.free
      /\ sync'.bt.filled = sync.bt.filled /\ sync'.bt.cs = sync.bt.cs
      /\ sync'.bt.csWasEntered = sync.bt.csWasEntered
      /\ sync'.bt.numProcessed = sync.bt.numProcessed /\ sync'.bt.mine = sync.bt.mine
      /\ sync'.hash = sync.hash
  BY <1>1, <1>2 DEF Moved, LinkBecomes, LinkType
<1>4. ~Streaming /\ ~Streaming'
  BY <1>1, <1>3 DEF Streaming
<1>5. Places'
  BY <1>1, <1>3, <1>4, Sizes DEF IInv, Places, Streaming, Links, AtRest, RingSize
<1>6. Sections'
  BY <1>1, <1>2, <1>3, <1>4 DEF IInv, Sections, Streaming, LinkType, Places
<1>7. LinkRight("bt")'
  BY <1>1, <1>3, <1>4, Sizes DEF IInv, Resting, RestPcs, AtRest, LinkRight, Handshake, Counting, Consumer, BusyPcs, Blocks,
    Held, Holding, Filling, NotTaken, RingSize
<1>8. LinkRight("hash")'
  BY <1>1, <1>3, <1>4, Sizes DEF IInv, Resting, RestPcs, AtRest, LinkRight, Handshake, Counting, Consumer, BusyPcs, Blocks,
    Held, Holding, Filling, NotTaken, RingSize
<1> QED
  BY <1>5, <1>6, <1>7, <1>8 DEF Control

LEMMA BtNoEndControl ==
  ASSUME IInv, EndThread("bt", "endBt", "joinBt", "done"), pc.bt = "none"
  PROVE  Control'
<1>1. /\ pc.main = "endBt"
      /\ Moved("main", "done")
      /\ UNCHANGED <<sync, mf, buf, bt, main>>
  BY EndThreadEffect DEF Links, Consumer, IInv, MainPcs
<1>2. sync.bt \in LinkType /\ sync.hash \in LinkType
  BY LinkFields DEF IInv, Links
<1>3. /\ pc'.main = "done" /\ pc'.bt = pc.bt /\ pc'.hash = pc.hash /\ sync'.bt = sync.bt
      /\ sync'.hash = sync.hash
  BY <1>1, <1>2 DEF Moved, LinkBecomes, LinkType
<1>4. ~Streaming /\ ~Streaming'
  BY <1>1, <1>3 DEF Streaming
<1>5. Places'
  BY <1>1, <1>3, <1>4, Sizes DEF IInv, Places, Streaming, Links, AtRest, RingSize
<1>6. Sections'
  BY <1>1, <1>2, <1>3, <1>4 DEF IInv, Sections, Streaming, LinkType
<1>7. LinkRight("bt")'
  BY <1>1, <1>3, <1>4, Sizes DEF IInv, Resting, RestPcs, AtRest, LinkRight, Handshake, Counting, Consumer, BusyPcs, Blocks,
    Held, Holding, Filling, NotTaken, RingSize
<1>8. LinkRight("hash")'
  BY <1>1, <1>3, <1>4, Sizes DEF IInv, Resting, RestPcs, AtRest, LinkRight, Handshake, Counting, Consumer, BusyPcs, Blocks,
    Held, Holding, Filling, NotTaken, RingSize
<1> QED
  BY <1>5, <1>6, <1>7, <1>8 DEF Control

LEMMA BtJoinControl ==
  ASSUME IInv, JoinThread("bt", "joinBt", "done")
  PROVE  Control'
<1>1. /\ pc.main = "joinBt"
      /\ Moved("main", "done")
      /\ UNCHANGED <<sync, mf, buf, bt, main>>
  BY JoinThreadEffect DEF Links, Consumer, IInv, MainPcs
<1>2. sync.bt \in LinkType /\ sync.hash \in LinkType
  BY LinkFields DEF IInv, Links
<1>3. /\ pc'.main = "done" /\ pc'.bt = pc.bt /\ pc'.hash = pc.hash /\ sync'.bt = sync.bt
      /\ sync'.hash = sync.hash
  BY <1>1, <1>2 DEF Moved, LinkBecomes, LinkType
<1>4. ~Streaming /\ ~Streaming'
  BY <1>1, <1>3 DEF Streaming
<1>5. Places'
  BY <1>1, <1>3, <1>4, Sizes DEF IInv, Places, Streaming, Links, AtRest, RingSize
<1>6. Sections'
  BY <1>1, <1>2, <1>3, <1>4 DEF IInv, Sections, Streaming, LinkType
<1>7. LinkRight("bt")'
  BY <1>1, <1>3, <1>4, Sizes DEF IInv, Resting, RestPcs, AtRest, LinkRight, Handshake, Counting, Consumer, BusyPcs, Blocks,
    Held, Holding, Filling, NotTaken, RingSize
<1>8. LinkRight("hash")'
  BY <1>1, <1>3, <1>4, Sizes DEF IInv, Resting, RestPcs, AtRest, LinkRight, Handshake, Counting, Consumer, BusyPcs, Blocks,
    Held, Holding, Filling, NotTaken, RingSize
<1> QED
  BY <1>5, <1>6, <1>7, <1>8 DEF Control
-----------------------------------------------------------------------------
(* A step keeps the types.                                                 *)

LEMMA SameShapes ==
  ASSUME Shapes, pc' \in PcType, sync' \in [Links -> LinkType], UNCHANGED <<mf, buf, bt, main>>
  PROVE  Shapes'
BY DEF Shapes, Rings

LEMMA OneBlock ==
  ASSUME Rings, NEW s \in Links, NEW k \in 0..(RingSize(s) - 1), NEW b \in BlockType,
         buf' = [buf EXCEPT ![s] = [buf[s] EXCEPT ![k] = b]]
  PROVE  /\ Rings' /\ buf'[s][k] = b
         /\ \A j \in 0..(RingSize(s) - 1) : j # k => buf'[s][j] = buf[s][j]
         /\ \A r \in Links : r # s => buf'[r] = buf[r]
<1>1. buf[s] \in [0..(RingSize(s) - 1) -> BlockType]
  BY DEF Rings
<1>2. PICK f \in [0..(RingSize(s) - 1) -> BlockType] : f = [buf[s] EXCEPT ![k] = b]
  BY <1>1
<1>3. buf' = [buf EXCEPT ![s] = f] /\ buf = [r \in Links |-> buf[r]]
  BY <1>2 DEF Rings
<1>4. buf'[s] = f /\ \A r \in Links : r # s => buf'[r] = buf[r]
  BY <1>3
<1>5. buf' = [r \in Links |-> buf'[r]]
  BY <1>3
<1>6. \A r \in Links : buf'[r] \in [0..(RingSize(r) - 1) -> BlockType]
  BY <1>4 DEF Rings
<1>7. f[k] = b /\ \A j \in 0..(RingSize(s) - 1) : j # k => f[j] = buf[s][j]
  BY <1>1, <1>2
<1> QED
  BY <1>4, <1>5, <1>6, <1>7 DEF Rings

LEMMA LinkShapes ==
  ASSUME IInv, NEW s \in Links, LinkStep(s), ~EnterCS(s)
  PROVE  Shapes'
<1>1. Shapes
  BY DEF IInv
<1>2. AwaitStopped(s) => sync[s].filled = sync[s].numProcessed - sync[s].mine
  <2> SUFFICES ASSUME AwaitStopped(s) PROVE sync[s].filled = sync[s].numProcessed - sync[s].mine
    OBVIOUS
  <2>1. pc[Consumer(s)] = "wait" /\ sync[s].wasStopped
    BY DEF AwaitStopped
  <2>2. Counting(s)
    BY <2>1, ConsumerActive
  <2> QED
    BY <2>1, <2>2 DEF Counting
<1>3. pc' \in PcType /\ sync' \in [Links -> LinkType] /\ UNCHANGED <<mf, buf, bt, main>>
  <2>1. CASE GetFirst(s)
    BY <1>1, <2>1, GetFirstEffect DEF Moved, LinkBecomes
  <2>2. CASE AwaitStarted(s)
    BY <1>1, <2>2, AwaitStartedEffect DEF Moved, LinkBecomes
  <2>3. CASE GetNext(s)
    BY <1>1, <2>3, GetNextEffect DEF Moved, LinkBecomes
  <2>4. CASE TakeFilled(s)
    BY <1>1, <2>4, TakeFilledEffect DEF Moved, LinkBecomes
  <2>5. CASE StopWriting(s)
    BY <1>1, <2>5, StopWritingEffect DEF Moved, LinkBecomes, Shapes
  <2>6. CASE AwaitStopped(s)
    BY <1>1, <1>2, <2>6, AwaitStoppedEffect DEF Moved, LinkBecomes
  <2> QED
    BY <2>1, <2>2, <2>3, <2>4, <2>5, <2>6 DEF LinkStep
<1> QED
  BY <1>1, <1>3, SameShapes

LEMMA ProducerShapes ==
  ASSUME IInv, NEW s \in Links, ProducerStep(s)
  PROVE  Shapes'
<1>1. Shapes
  BY DEF IInv
<1>2. CASE ThreadStart(s)
  <2>1. pc' \in PcType /\ sync' \in [Links -> LinkType] /\ UNCHANGED <<buf, main>>
    BY <1>1, <1>2, ThreadStartEffect DEF Moved, LinkBecomes
  <2>2. bt' \in TreeType /\ bt'.avail = bt.avail /\ bt'.pos = bt.pos
    <3>1. bt \in TreeType /\ (bt' = bt \/ bt' = [bt EXCEPT !.blocks = 0])
      BY <1>1, <1>2, ThreadStartEffect DEF Shapes
    <3> QED
      BY <3>1 DEF TreeType
  <2>3. mf' \in WindowType
    <3>1. mf \in WindowType /\ (mf' = mf \/ mf' = [mf EXCEPT !.blocks = 0])
      BY <1>1, <1>2, ThreadStartEffect DEF Shapes
    <3> QED
      BY <3>1 DEF WindowType
  <2> QED
    BY <1>1, <2>1, <2>2, <2>3 DEF Shapes, Rings
<1>3. CASE ThreadExit(s)
  BY <1>1, <1>3, ThreadExitEffect, SameShapes DEF Moved, Shapes
<1>4. CASE TakeFree(s)
  BY <1>1, <1>4, TakeFreeEffect, SameShapes DEF Moved, LinkBecomes
<1> QED
  BY <1>2, <1>3, <1>4 DEF ProducerStep

LEMMA MainShapes ==
  ASSUME IInv, MainSteps \/ EndSteps, GetMatches => main.avail > 0
  PROVE  Shapes'
<1>1. Shapes
  BY DEF IInv
<1>2. CASE Create
  BY <1>1, <1>2, CreateEffect, SameShapes DEF Shapes
<1>3. CASE InitStream
  <2>1. pc.round >= 1
    BY <1>3 DEF InitStream, IInv, Places
  <2>2. PICK len \in Nat : main' = NewMain(len)
    BY <1>1, <1>3, <2>1, InitStreamEffect
  <2>3. /\ pc' \in PcType /\ sync' \in [Links -> LinkType] /\ Rings'
        /\ mf' = NewWindow /\ bt' = NewTree
    BY <1>1, <1>3, <2>1, InitStreamEffect DEF Moved, Shapes
  <2>4. mf' \in WindowType /\ bt' \in TreeType /\ main' \in EncoderType
    BY <2>2, <2>3, Sizes DEF NewMain, NewWindow, NewTree, WindowType, TreeType, EncoderType
  <2>5. main'.avail <= main'.len /\ bt'.pos <= main'.len /\ bt'.avail <= main'.len
    BY <2>2, <2>3 DEF NewMain, NewTree
  <2> QED
    BY <2>3, <2>4, <2>5 DEF Shapes
<1>4. CASE GetMatches
  <2>1. /\ main' \in EncoderType /\ main'.len = main.len /\ main'.avail = main.avail - 1
        /\ UNCHANGED <<pc, sync, mf, buf, bt>>
    BY <1>1, <1>4, GetMatchesEffect
  <2>2. main'.avail <= main'.len
    BY <1>1, <2>1, Fields DEF Shapes
  <2> QED
    BY <1>1, <2>1, <2>2 DEF Shapes, Rings
<1>5. CASE GetNumAvailableBytes \/ Finish \/ Finished \/ Destruct
  BY <1>1, <1>5, MainMoves, SameShapes DEF Moved, Shapes
<1>6. CASE EndSteps
  <2>1. pc' \in PcType /\ sync' \in [Links -> LinkType] /\ UNCHANGED <<mf, buf, bt, main>>
    <3>1. CASE EndThread("hash", "endHash", "joinHash", "endBt")
      <4>1. "hash" \in Links /\ "joinHash" \in MainPcs /\ "endBt" \in MainPcs
        BY DEF Links, MainPcs
      <4>2. /\ IF pc["hash"] = "none"
               THEN Moved("main", "endBt") /\ UNCHANGED sync
               ELSE /\ Moved("main", "joinHash")
                    /\ LinkBecomes("hash", [sync["hash"] EXCEPT !.exit = TRUE, !.canStart = TRUE])
            /\ UNCHANGED <<mf, buf, bt, main>>
        BY <1>1, <3>1, <4>1, EndThreadEffect
      <4> QED
        BY <1>1, <4>2 DEF Moved, LinkBecomes, Shapes
    <3>2. CASE EndThread("bt", "endBt", "joinBt", "done")
      <4>1. "bt" \in Links /\ "joinBt" \in MainPcs /\ "done" \in MainPcs
        BY DEF Links, MainPcs
      <4>2. /\ IF pc["bt"] = "none"
               THEN Moved("main", "done") /\ UNCHANGED sync
               ELSE /\ Moved("main", "joinBt")
                    /\ LinkBecomes("bt", [sync["bt"] EXCEPT !.exit = TRUE, !.canStart = TRUE])
            /\ UNCHANGED <<mf, buf, bt, main>>
        BY <1>1, <3>2, <4>1, EndThreadEffect
      <4> QED
        BY <1>1, <4>2 DEF Moved, LinkBecomes, Shapes
    <3>3. CASE JoinThread("hash", "joinHash", "endBt") \/ JoinThread("bt", "joinBt", "done")
      BY <1>1, <3>3, JoinThreadEffect DEF Moved, MainPcs, Links, Shapes
    <3> QED
      BY <1>6, <3>1, <3>2, <3>3 DEF EndSteps
  <2> QED
    BY <1>1, <2>1, SameShapes
<1> QED
  BY <1>2, <1>3, <1>4, <1>5, <1>6 DEF MainSteps

LEMMA HashShapes ==
  ASSUME IInv, HashStep
  PROVE  Shapes'
<1>1. Shapes
  BY DEF IInv
<1>2. CASE HashStop
  BY <1>1, <1>2, HashStopEffect, SameShapes DEF Moved, LinkBecomes
<1>3. CASE HashCheck
  BY <1>1, <1>3, HashCheckEffect, SameShapes DEF Moved, Shapes
<1>4. CASE EnterBtCS
  BY <1>1, <1>4, EnterBtCSEffect, SameShapes DEF Moved, LinkBecomes
<1>5. CASE EnterHashCS
  BY <1>1, <1>5, EnterHashCSEffect, SameShapes DEF Moved, LinkBecomes
<1>6. CASE MoveBlock
  <2>1. /\ pc' \in PcType /\ sync' \in [Links -> LinkType] /\ UNCHANGED <<buf, bt, main>>
        /\ mf' = [mf EXCEPT !.base = mf.pos - KeepSizeBefore]
    BY <1>1, <1>6, MoveBlockEffect DEF Moved
  <2>2. PICK b \in Nat : b = mf.pos - KeepSizeBefore
    BY <1>6, WindowSizes, Fields DEF MoveBlock, IInv, WindowRight, NeedMove
  <2>3. mf' \in WindowType
    BY <1>1, <2>1, <2>2 DEF Shapes, WindowType
  <2> QED
    BY <1>1, <2>1, <2>3 DEF Shapes, Rings
<1>7. CASE FillHashBlock
  <2>1. WindowRight
    BY DEF IInv
  <2>2. /\ pc' \in PcType /\ sync' \in [Links -> LinkType] /\ UNCHANGED <<bt, main>> /\ mf' \in WindowType
        /\ NewHeads.avail \in Nat /\ NewHeads.num \in 0..HashBlockSize
        /\ buf' = [buf EXCEPT !["hash"] = [buf["hash"] EXCEPT ![mf.blocks % HashNumBlocks] = NewHeads]]
    BY <1>1, <1>7, <2>1, FillHashBlockEffect DEF Moved, LinkBecomes
  <2>3. mf.blocks % HashNumBlocks \in 0..(RingSize("hash") - 1) /\ "hash" \in Links
    BY <1>1, Fields, Sizes, Division DEF RingSize, Links
  <2>4. mf.pos \in Nat
    BY <1>1, Fields
  <2>5. NewHeads \in BlockType
    BY <2>2, <2>4 DEF NewHeads, BlockType
  <2>6. Rings'
    BY <1>1, <2>2, <2>3, <2>5, OneBlock DEF Shapes
  <2> QED
    BY <1>1, <2>2, <2>6 DEF Shapes
<1> QED
  BY <1>2, <1>3, <1>4, <1>5, <1>6, <1>7 DEF HashStep

(* The tree thread in a block of heads, with what it has filled so far.    *)
LEMMA TreeFills ==
  ASSUME IInv, pc.bt \in {"matches", "got", "leave"}
  PROVE  /\ TreeLives /\ ~sync.hash.needStart /\ ~Between /\ Filling /\ Streaming
         /\ bt.left <= bt.avail /\ bt.pos + bt.avail <= main.len
         /\ TreeAt \in Nat /\ TreeAt + bt.avail <= mf.streamPos /\ bt.pos <= TreeAt
         /\ bt.avail <= MatchMaxLen => AtEnd /\ TreeAt + bt.avail = mf.streamPos
         /\ bt.availOut = bt.count + bt.avail
         /\ bt.first + bt.count = TreeAt \/ (TreeAtEnd /\ bt.count = 0)
         /\ pc.bt # "leave" => bt.count < BtLimit
<1>1. Streaming /\ ~sync.hash.needStart
  BY ConsumerActive DEF Consumer, Links
<1>2. TreeLives /\ ~Between /\ Filling
  BY <1>1 DEF TreeLives, Between, Filling
<1>3. /\ bt.left <= bt.avail /\ TreeAt \in Nat /\ TreeAt + bt.avail <= mf.streamPos
      /\ bt.avail <= MatchMaxLen => AtEnd /\ TreeAt + bt.avail = mf.streamPos
  BY <1>1, <1>2, TreeInHeads
<1>4. bt.pos <= TreeAt
  BY <1>2, TreeBounds
<1>5. bt.pos \in Nat /\ bt.avail \in Nat /\ mf.streamPos \in Nat /\ main.len \in Nat
  BY Fields DEF IInv
<1>6. bt.pos + bt.avail <= main.len
  BY <1>3, <1>4, <1>5 DEF IInv, WindowRight
<1>7. /\ bt.availOut = bt.count + bt.avail
      /\ bt.first + bt.count = TreeAt \/ (TreeAtEnd /\ bt.count = 0)
      /\ pc.bt # "leave" => bt.count < BtLimit
  BY <1>2 DEF IInv, FillRight
<1> QED
  BY <1>1, <1>2, <1>3, <1>4, <1>6, <1>7

LEMMA BtShapes ==
  ASSUME IInv, BtStep
  PROVE  Shapes'
<1>1. Shapes
  BY DEF IInv
<1>2. CASE BtStop
  BY <1>1, <1>2, BtStopEffect, SameShapes DEF Moved, LinkBecomes
<1>3. CASE BtStopped
  BY <1>1, <1>3, BtStoppedEffect, SameShapes DEF Moved, LinkBecomes
<1>4. CASE BtCheck
  BY <1>1, <1>4, BtCheckEffect, SameShapes DEF Moved, Shapes
<1> DEFINE k == bt.blocks % BtNumBlocks
<1>5. k \in 0..(RingSize("bt") - 1) /\ "bt" \in Links
  BY <1>1, Fields, Sizes, Division DEF RingSize, Links
<1> HIDE DEF k
<1>6. CASE BtFillBlock
  <2>1. /\ pc' \in PcType /\ sync' \in [Links -> LinkType] /\ bt' \in TreeType
        /\ bt'.avail = bt.avail /\ bt'.pos = bt.pos /\ UNCHANGED <<mf, main>>
        /\ buf' = [buf EXCEPT !["bt"] = [buf["bt"] EXCEPT ![k] = Garbage]]
    BY <1>1, <1>6, BtFillBlockEffect DEF Moved, LinkBecomes, Shapes, k
  <2>2. Garbage \in BlockType
    BY DEF Garbage, BlockType
  <2>3. Rings'
    BY <1>1, <1>5, <2>1, <2>2, OneBlock DEF Shapes
  <2> QED
    BY <1>1, <2>1, <2>3 DEF Shapes
<1>7. CASE FindMatches
  <2>1. PICK m \in Nat :
          /\ m > 0 /\ m <= bt.left /\ m <= BtLimit - bt.count
          /\ bt' = [bt EXCEPT !.pos = bt.pos + m, !.left = bt.left - m, !.avail = bt.avail - m,
                              !.count = bt.count + m]
          /\ Moved("bt", "leave") \/ Moved("bt", "get")
    BY <1>1, <1>7, FindMatchesEffect
  <2>2. UNCHANGED <<sync, mf, buf, main>> /\ pc.bt = "matches"
    BY <1>1, <1>7, FindMatchesEffect
  <2>3. bt.left <= bt.avail /\ bt.pos + bt.avail <= main.len
    BY <2>2, TreeFills
  <2>4. PICK p \in Nat, l \in 0..HashBlockSize, a \in Nat, c \in 0..BtBlockSize :
          /\ p = bt.pos + m /\ l = bt.left - m /\ a = bt.avail - m /\ c = bt.count + m
    BY <1>1, <2>1, <2>3, Fields, Sizes
  <2>5. bt' = [bt EXCEPT !.pos = p, !.left = l, !.avail = a, !.count = c]
    BY <2>1, <2>4
  <2>6. bt' \in TreeType /\ bt'.pos = p /\ bt'.avail = a
    BY <1>1, <2>5 DEF Shapes, TreeType
  <2>7. p <= main.len /\ a <= main.len
    BY <1>1, <2>1, <2>3, <2>4, Fields
  <2>8. pc' \in PcType
    BY <2>1 DEF Moved
  <2> QED
    BY <1>1, <2>2, <2>6, <2>7, <2>8 DEF Shapes, Rings
<1>8. CASE GotHashBlock
  <2>1. UNCHANGED <<sync, mf, buf, main>> /\ pc.bt = "got" /\ pc' \in PcType
    BY <1>1, <1>8, GotHashBlockEffect DEF Moved
  <2>2. CASE bt.avail >= NumHashBytes
    <3>1. UNCHANGED bt
      BY <1>1, <1>8, <2>2, GotHashBlockEffect
    <3> QED
      BY <1>1, <2>1, <3>1 DEF Shapes, Rings
  <2>3. CASE ~(bt.avail >= NumHashBytes)
    <3>1. bt' = [bt EXCEPT !.count = bt.count + bt.avail, !.avail = 0]
      BY <1>1, <1>8, <2>3, GotHashBlockEffect
    <3>2. bt.count < BtLimit
      BY <2>1, TreeFills
    <3>3. PICK c \in 0..BtBlockSize : c = bt.count + bt.avail
      BY <1>1, <2>3, <3>2, Fields, Sizes
    <3>4. bt' = [bt EXCEPT !.count = c, !.avail = 0]
      BY <3>1, <3>3
    <3>5. bt' \in TreeType /\ bt'.pos = bt.pos /\ bt'.avail = 0
      BY <1>1, <3>4 DEF Shapes, TreeType
    <3>6. 0 <= main.len
      BY <1>1, Fields
    <3> QED
      BY <1>1, <2>1, <3>5, <3>6 DEF Shapes, Rings
  <2> QED
    BY <2>2, <2>3
<1>9. CASE BtBlockDone
  <2>1. /\ pc' \in PcType /\ sync' \in [Links -> LinkType] /\ bt' \in TreeType
        /\ bt'.avail = bt.avail /\ bt'.pos = bt.pos /\ UNCHANGED <<mf, main>>
        /\ buf' = [buf EXCEPT !["bt"] = [buf["bt"] EXCEPT ![k] =
                     [from |-> bt.first, num |-> bt.count, avail |-> bt.availOut]]]
    BY <1>1, <1>9, BtBlockDoneEffect DEF Moved, k
  <2>2. [from |-> bt.first, num |-> bt.count, avail |-> bt.availOut] \in BlockType
    BY <1>1, Fields DEF BlockType
  <2>3. Rings'
    BY <1>1, <1>5, <2>1, <2>2, OneBlock DEF Shapes
  <2> QED
    BY <1>1, <2>1, <2>3 DEF Shapes
<1> QED
  BY <1>2, <1>3, <1>4, <1>6, <1>7, <1>8, <1>9 DEF BtStep

LEMMA EncoderEnters ==
  ASSUME IInv, EnterCS("bt")
  PROVE  /\ Streaming /\ ~sync.bt.needStart
         /\ sync.bt.numProcessed - 1 \in Nat /\ sync.bt.numProcessed - 1 < bt.blocks
         /\ Matches(sync.bt.numProcessed - 1)
         /\ main' \in EncoderType /\ main'.len = main.len /\ main'.lzPos = main.lzPos
         /\ main'.slot = (sync.bt.numProcessed - 1) % BtNumBlocks
         /\ main'.left = MatchesOf(sync.bt.numProcessed - 1).num
         /\ main'.avail = MatchesOf(sync.bt.numProcessed - 1).avail
         /\ main'.avail <= main.len /\ bt' = bt /\ UNCHANGED <<mf, buf>> /\ Shapes'
<1> DEFINE n == sync.bt.numProcessed - 1
           b == MatchesOf(n)
<1>1. pc.main = "enter" /\ Shapes
  BY DEF EnterCS, Consumer, IInv
<1>2. Streaming /\ ~sync.bt.needStart /\ Counting("bt")
  BY <1>1, ConsumerActive DEF Consumer, Links
<1>3. n \in Nat /\ n < bt.blocks /\ bt.blocks \in Nat
  BY <1>1, <1>2, Taken DEF NotTaken, Consumer, Links, Blocks
<1>4. Matches(n)
  BY <1>1, <1>2, <1>3 DEF IInv, BtRing
<1>5. b.num \in 0..BtBlockSize /\ b.avail \in Nat /\ StartOf(b) + b.avail <= mf.streamPos
      /\ b.from \in Nat
  BY <1>4 DEF Matches
<1>6. n % BtNumBlocks \in Nat
  BY <1>3, Division, Sizes
<1>7. /\ main' = [main EXCEPT !.slot = n % BtNumBlocks, !.left = b.num, !.avail = b.avail,
                                !.ends = IF b.avail = 0 THEN @ + 1 ELSE @]
      /\ bt' = bt
  BY DEF EnterCS, MatchesOf, RingSize
<1>8. main \in EncoderType /\ mf.streamPos <= main.len /\ mf.streamPos \in Nat /\ main.len \in Nat
  BY Fields DEF IInv, Shapes, WindowRight
<1>9. b.avail <= main.len
  BY <1>5, <1>8 DEF StartOf
<1>a. PICK e \in Nat : e = IF b.avail = 0 THEN main.ends + 1 ELSE main.ends
  BY <1>8 DEF EncoderType
<1>b. main' = [main EXCEPT !.slot = n % BtNumBlocks, !.left = b.num, !.avail = b.avail, !.ends = e]
  BY <1>7, <1>a
<1> HIDE DEF n, b
<1>10. /\ main' \in EncoderType /\ main'.len = main.len /\ main'.lzPos = main.lzPos
       /\ main'.slot = n % BtNumBlocks /\ main'.left = b.num /\ main'.avail = b.avail
  BY <1>5, <1>6, <1>8, <1>b DEF EncoderType
<1>11. pc' \in PcType /\ sync' \in [Links -> LinkType] /\ UNCHANGED <<mf, buf>>
  BY <1>1, EnterCSEffect DEF Moved, LinkBecomes, Links
<1>12. Shapes'
  BY <1>1, <1>7, <1>9, <1>10, <1>11 DEF Shapes, Rings
<1> QED
  BY <1>2, <1>3, <1>4, <1>7, <1>9, <1>10, <1>11, <1>12 DEF n, b

LEMMA TreeEnters ==
  ASSUME IInv, EnterCS("hash")
  PROVE  /\ Streaming /\ ~sync.hash.needStart /\ TreeLives /\ pc.bt = "enter"
         /\ sync.hash.numProcessed - 1 \in Nat /\ sync.hash.numProcessed - 1 < mf.blocks
         /\ Heads(sync.hash.numProcessed - 1)
         /\ bt' \in TreeType /\ bt'.blocks = bt.blocks /\ bt'.pos = bt.pos
         /\ bt'.slot = (sync.hash.numProcessed - 1) % HashNumBlocks
         /\ bt'.left = HeldHeads.num /\ bt'.avail = HeldHeads.avail
         /\ bt'.first = bt.first /\ bt'.count = bt.count
         /\ bt'.availOut = bt.count + HeldHeads.avail
         /\ main' = main /\ UNCHANGED <<mf, buf>> /\ Shapes'
<1> DEFINE n == sync.hash.numProcessed - 1
           b == HeadsOf(n)
<1>1. pc.bt = "enter" /\ Shapes
  BY DEF EnterCS, Consumer, IInv
<1>2. Streaming /\ ~sync.hash.needStart /\ Counting("hash")
  BY <1>1, ConsumerActive DEF Consumer, Links
<1>3. n \in Nat /\ n < mf.blocks /\ mf.blocks \in Nat
  BY <1>1, <1>2, Taken DEF NotTaken, Consumer, Links, Blocks
<1>4. Heads(n)
  BY <1>1, <1>2, <1>3 DEF IInv, HashRing
<1>5. b.num = NumHeads(b.avail) /\ b.avail \in Nat /\ b.from + b.avail <= mf.streamPos /\ b.from \in Nat
  BY <1>4 DEF Heads
<1>6. n % HashNumBlocks \in Nat /\ b.num \in 0..HashBlockSize
  BY <1>3, <1>5, Division, Sizes, HeadsInBlock
<1>7. /\ bt' = [bt EXCEPT !.slot = n % HashNumBlocks, !.left = b.num, !.avail = b.avail,
                          !.availOut = bt.count + b.avail]
      /\ main' = main
  BY DEF EnterCS, HeadsOf, RingSize
<1>8. /\ bt \in TreeType /\ mf.streamPos <= main.len /\ mf.streamPos \in Nat /\ main.len \in Nat
      /\ bt.count \in Nat
  BY Fields DEF IInv, Shapes, WindowRight
<1>9. b.avail <= main.len
  BY <1>5, <1>8
<1>10. PICK o \in Nat : o = bt.count + b.avail
  BY <1>5, <1>8
<1> HIDE DEF n, b
<1>11. bt' = [bt EXCEPT !.slot = n % HashNumBlocks, !.left = b.num, !.avail = b.avail, !.availOut = o]
  BY <1>7, <1>10
<1>12. /\ bt' \in TreeType /\ bt'.blocks = bt.blocks /\ bt'.pos = bt.pos /\ bt'.slot = n % HashNumBlocks
       /\ bt'.left = b.num /\ bt'.avail = b.avail /\ bt'.first = bt.first /\ bt'.count = bt.count
       /\ bt'.availOut = o
  BY <1>5, <1>6, <1>8, <1>11 DEF TreeType
<1>13. pc' \in PcType /\ sync' \in [Links -> LinkType] /\ UNCHANGED <<mf, buf>>
  BY <1>1, EnterCSEffect DEF Moved, LinkBecomes, Links
<1>14. Shapes'
  BY <1>1, <1>7, <1>9, <1>12, <1>13 DEF Shapes, Rings
<1>15. TreeLives
  BY <1>1, <1>2 DEF TreeLives
<1> QED
  BY <1>1, <1>2, <1>3, <1>4, <1>7, <1>10, <1>12, <1>13, <1>14, <1>15 DEF n, b, HeldHeads

-----------------------------------------------------------------------------
(* Steps that touch neither the window nor the blocks.                     *)

Data == WindowRight /\ HashRing /\ TreeRight /\ FillRight /\ BtRing /\ MainRight /\ Reach

LEMMA SameBlocks ==
  ASSUME UNCHANGED <<mf, buf>>, NEW n
  PROVE  /\ HeadsOf(n)' = HeadsOf(n) /\ HashAt(n)' = HashAt(n) /\ (Heads(n)' <=> Heads(n))
         /\ MatchesOf(n)' = MatchesOf(n) /\ (AtEnd' <=> AtEnd)
BY DEF HeadsOf, HashAt, Heads, MatchesOf, AtEnd, Passed

LEMMA SameTree ==
  ASSUME UNCHANGED <<mf, buf, bt>>, sync'.hash.needStart = sync.hash.needStart,
         sync'.hash.numProcessed = sync.hash.numProcessed, Between' <=> Between,
         Filling' <=> Filling
  PROVE  /\ HeldHeads' = HeldHeads /\ TreeAt' = TreeAt /\ (TreeAtEnd' <=> TreeAtEnd)
         /\ TreeStart' = TreeStart
         /\ \A n : MainAt(n)' = MainAt(n) /\ (Matches(n)' <=> Matches(n))
<1>1. HeldHeads' = HeldHeads /\ AtEnd' = AtEnd
  BY DEF HeldHeads, HeadsOf, AtEnd
<1>2. TreeAt' = TreeAt
  BY <1>1 DEF TreeAt, HashAt, HeadsOf
<1>3. TreeStart' = TreeStart /\ (TreeAtEnd' <=> TreeAtEnd)
  BY <1>1, <1>2 DEF TreeStart, TreeAtEnd
<1>4. \A n : MainAt(n)' = MainAt(n)
  BY <1>3 DEF MainAt, MatchesOf, StartOf
<1>5. \A n : Matches(n)' <=> Matches(n)
  BY <1>1, <1>3, <1>4 DEF Matches, MatchesOf, StartOf
<1> QED
  BY <1>1, <1>2, <1>3, <1>4, <1>5

(* Where main reads blocks, the tree thread is in the stream.              *)
LEMMA ReadsLive ==
  ASSUME Control, Streaming, ~sync.bt.needStart, pc.main # "wait"
  PROVE  TreeLives
<1>1. pc.bt \notin {"stop", "wait", "stopped"}
  BY DEF Control, Places
<1>2. pc.main # "stopped"
  BY DEF Control, LinkRight, Handshake, BusyPcs, Consumer
<1> QED
  BY <1>1, <1>2 DEF TreeLives

LEMMA ReadsLiveNext ==
  ASSUME Control', Streaming', ~sync'.bt.needStart, pc'.main # "wait"
  PROVE  TreeLives'
<1>1. pc'.bt \notin {"stop", "wait", "stopped"}
  BY DEF Control, Places
<1>2. pc'.main # "stopped"
  BY DEF Control, LinkRight, Handshake, BusyPcs, Consumer
<1> QED
  BY <1>1, <1>2 DEF TreeLives

SameLink(s) == /\ sync'[s].needStart = sync[s].needStart
               /\ sync'[s].numProcessed = sync[s].numProcessed

LEMMA SameData ==
  ASSUME IInv, Control', UNCHANGED <<mf, buf, bt, main>>,
         Streaming' => Streaming,
         TreeLives' => TreeLives /\ SameLink("hash") /\ (Between' <=> Between) /\ (Filling' <=> Filling),
         Streaming' /\ ~sync'.hash.needStart /\ pc'.bt # "wait" => SameLink("hash") /\ pc.bt # "wait",
         pc'.bt \in {"get", "got", "matches", "leave"} => pc.bt = pc'.bt,
         pc'.bt \notin {"get", "got", "matches", "leave"} => pc.bt \notin {"get", "got", "matches", "leave"},
         Streaming' /\ pc'.main # "wait" /\ (pc'.main = "get" \/ ~sync'.bt.needStart)
           => SameLink("bt") /\ pc.main # "wait",
         pc'.main \in {"started", "filled", "enter"} => pc.main \in {"started", "filled", "enter"},
         pc'.main \in {"got", "get", "stop"} => pc.main \in {"got", "get", "stop"},
         pc'.main = "get" => pc.main = "get",
         pc'.main \notin {"wait", "stopped"} => pc.main \notin {"wait", "stopped"} \/ ~Streaming',
         pc'.hash \in {"free", "fill"} => ~NeedMove,
         pc'.hash \in {"enterBt", "enterHash", "move"} => NeedMove
  PROVE  Data'
<1>1. WindowRight'
  BY DEF IInv, WindowRight, NeedMove
<1>2. HashRing'
  <2> SUFFICES ASSUME Streaming', ~sync'.hash.needStart, pc'.bt # "wait",
                      NEW n \in (sync'.hash.numProcessed - 1)..(mf'.blocks - 1)
               PROVE  Heads(n)'
    BY DEF HashRing
  <2>1. SameLink("hash") /\ pc.bt # "wait" /\ Streaming
    OBVIOUS
  <2>2. Heads(n)
    BY <2>1 DEF IInv, HashRing, SameLink
  <2> QED
    BY <2>2, SameBlocks
<1>3. TreeRight'
  <2> SUFFICES ASSUME TreeLives' PROVE TreeRight'
    BY DEF TreeRight
  <2>1. /\ TreeLives /\ SameLink("hash") /\ (Between' <=> Between) /\ (Filling' <=> Filling)
    OBVIOUS
  <2>2. /\ HeldHeads' = HeldHeads /\ TreeAt' = TreeAt /\ (TreeAtEnd' <=> TreeAtEnd)
    BY <2>1, SameTree DEF SameLink
  <2>3. Fresh => Fresh'
    BY DEF Fresh, NewWindow
  <2>4. InHeads => InHeads'
    BY <2>1, <2>2 DEF InHeads, SameLink
  <2> QED
    BY <2>1, <2>2, <2>3, <2>4 DEF IInv, TreeRight, SameLink
<1>4. FillRight'
  <2> SUFFICES ASSUME TreeLives', Filling' PROVE FillRight'
    BY DEF FillRight
  <2>1. /\ TreeLives /\ SameLink("hash") /\ (Between' <=> Between) /\ (Filling' <=> Filling)
    OBVIOUS
  <2>2. /\ TreeAt' = TreeAt /\ (TreeAtEnd' <=> TreeAtEnd)
    BY <2>1, SameTree DEF SameLink
  <2> QED
    BY <2>1, <2>2 DEF IInv, FillRight
<1>5. BtRing'
  <2> SUFFICES ASSUME Streaming', ~sync'.bt.needStart, pc'.main # "wait",
                      NEW n \in (sync'.bt.numProcessed - 1)..(bt'.blocks - 1)
               PROVE  Matches(n)'
    BY DEF BtRing
  <2>1. TreeLives'
    BY ReadsLiveNext
  <2>2. /\ Streaming /\ ~sync.bt.needStart /\ pc.main # "wait"
        /\ n \in (sync.bt.numProcessed - 1)..(bt.blocks - 1)
    BY DEF SameLink
  <2>3. Matches(n)
    BY <2>2 DEF IInv, BtRing
  <2> QED
    BY <2>1, <2>3, SameTree DEF SameLink
<1>6. MainRight'
  <2>1. Streaming' /\ sync'.bt.needStart /\ pc'.main = "get" =>
          mf' = NewWindow /\ bt' = NewTree /\ main'.lzPos = 0
    BY DEF IInv, MainRight, SameLink
  <2>2. Streaming' /\ ~sync'.bt.needStart /\ pc'.main \in {"started", "filled", "enter"} =>
          main'.lzPos = MainAt(sync.bt.numProcessed - 1)' /\ sync'.bt.numProcessed = sync.bt.numProcessed
    <3> SUFFICES ASSUME Streaming', ~sync'.bt.needStart, pc'.main \in {"started", "filled", "enter"}
                 PROVE  /\ main'.lzPos = MainAt(sync.bt.numProcessed - 1)'
                        /\ sync'.bt.numProcessed = sync.bt.numProcessed
      OBVIOUS
    <3>1. TreeLives' /\ SameLink("bt")
      BY ReadsLiveNext
    <3>2. \A n : MainAt(n)' = MainAt(n)
      BY <3>1, SameTree DEF SameLink
    <3>3. sync'.bt.numProcessed = sync.bt.numProcessed
      BY <3>1 DEF SameLink
    <3>4. main.lzPos = MainAt(sync.bt.numProcessed - 1)
      BY <3>1 DEF IInv, MainRight, SameLink
    <3>5. MainAt(sync.bt.numProcessed - 1)' = MainAt(sync.bt.numProcessed - 1)
      BY <3>1, <3>2, <3>3
    <3> QED
      BY <3>3, <3>4, <3>5
  <2> QED
    BY <2>1, <2>2 DEF MainRight, IInv, SameLink, MatchesOf, StartOf
<1>7. Reach'
  BY DEF IInv, Reach
<1> QED
  BY <1>1, <1>2, <1>3, <1>4, <1>5, <1>6, <1>7 DEF Data
LEMMA BtAwaitStartedData ==
  ASSUME IInv, AwaitStarted("bt")
  PROVE  Data'
<1>1. Control'
  BY BtAwaitStartedControl
<1>2. /\ pc'.main = "filled" /\ pc'.bt = pc.bt /\ pc'.hash = pc.hash
      /\ sync'.bt.needStart = sync.bt.needStart /\ sync'.bt.numProcessed = sync.bt.numProcessed
      /\ sync'.hash = sync.hash /\ UNCHANGED <<mf, buf, bt, main>>
  BY AwaitStartedEffect, LinkFields DEF IInv, Moved, LinkBecomes, LinkType, Links, Consumer
<1>3. pc.main = "started"
  BY <1>2, AwaitStartedEffect DEF Consumer, Links, IInv
<1>4. /\ Streaming' => Streaming
      /\ TreeLives' => /\ TreeLives /\ SameLink("hash")
                       /\ (Between' <=> Between) /\ (Filling' <=> Filling)
      /\ Streaming' /\ ~sync'.hash.needStart /\ pc'.bt # "wait" => SameLink("hash") /\ pc.bt # "wait"
      /\ Streaming' /\ pc'.main # "wait" /\ (pc'.main = "get" \/ ~sync'.bt.needStart)
           => SameLink("bt") /\ pc.main # "wait"
  BY <1>1, <1>2, <1>3 DEF Streaming, TreeLives, SameLink, Between, Filling
<1>5. /\ pc'.hash \in {"free", "fill"} => ~NeedMove
      /\ pc'.hash \in {"enterBt", "enterHash", "move"} => NeedMove
  BY <1>1, <1>2, <1>3 DEF IInv, WindowRight
<1>6. pc'.main \notin {"wait", "stopped"} => pc.main \notin {"wait", "stopped"} \/ ~Streaming'
  BY <1>1, <1>2, <1>3 DEF Streaming
<1> QED
  BY <1>1, <1>2, <1>3, <1>4, <1>5, <1>6, SameData

LEMMA BtTakeFilledData ==
  ASSUME IInv, TakeFilled("bt")
  PROVE  Data'
<1>1. Control'
  BY BtTakeFilledControl
<1>2. /\ pc'.main = "enter" /\ pc'.bt = pc.bt /\ pc'.hash = pc.hash
      /\ sync'.bt.needStart = sync.bt.needStart /\ sync'.bt.numProcessed = sync.bt.numProcessed
      /\ sync'.hash = sync.hash /\ UNCHANGED <<mf, buf, bt, main>>
  BY TakeFilledEffect, LinkFields DEF IInv, Moved, LinkBecomes, LinkType, Links, Consumer
<1>3. pc.main = "filled"
  BY <1>2, TakeFilledEffect DEF Consumer, Links, IInv
<1>4. /\ Streaming' => Streaming
      /\ TreeLives' => /\ TreeLives /\ SameLink("hash")
                       /\ (Between' <=> Between) /\ (Filling' <=> Filling)
      /\ Streaming' /\ ~sync'.hash.needStart /\ pc'.bt # "wait" => SameLink("hash") /\ pc.bt # "wait"
      /\ Streaming' /\ pc'.main # "wait" /\ (pc'.main = "get" \/ ~sync'.bt.needStart)
           => SameLink("bt") /\ pc.main # "wait"
  BY <1>1, <1>2, <1>3 DEF Streaming, TreeLives, SameLink, Between, Filling
<1>5. /\ pc'.hash \in {"free", "fill"} => ~NeedMove
      /\ pc'.hash \in {"enterBt", "enterHash", "move"} => NeedMove
  BY <1>1, <1>2, <1>3 DEF IInv, WindowRight
<1>6. pc'.main \notin {"wait", "stopped"} => pc.main \notin {"wait", "stopped"} \/ ~Streaming'
  BY <1>1, <1>2, <1>3 DEF Streaming
<1> QED
  BY <1>1, <1>2, <1>3, <1>4, <1>5, <1>6, SameData

LEMMA BtTakeFreeData ==
  ASSUME IInv, TakeFree("bt")
  PROVE  Data'
<1>1. Control'
  BY BtTakeFreeControl
<1>2. /\ pc'.main = pc.main /\ pc'.bt = "fill" /\ pc'.hash = pc.hash
      /\ sync'.bt.needStart = sync.bt.needStart /\ sync'.bt.numProcessed = sync.bt.numProcessed
      /\ sync'.hash = sync.hash /\ UNCHANGED <<mf, buf, bt, main>>
  BY TakeFreeEffect, LinkFields DEF IInv, Moved, LinkBecomes, LinkType, Links, Consumer
<1>3. pc.bt = "free"
  BY <1>2, TakeFreeEffect DEF Consumer, Links, IInv
<1>4. /\ Streaming' => Streaming
      /\ TreeLives' => /\ TreeLives /\ SameLink("hash")
                       /\ (Between' <=> Between) /\ (Filling' <=> Filling)
      /\ Streaming' /\ ~sync'.hash.needStart /\ pc'.bt # "wait" => SameLink("hash") /\ pc.bt # "wait"
      /\ Streaming' /\ pc'.main # "wait" /\ (pc'.main = "get" \/ ~sync'.bt.needStart)
           => SameLink("bt") /\ pc.main # "wait"
  BY <1>1, <1>2, <1>3 DEF Streaming, TreeLives, SameLink, Between, Filling
<1>5. /\ pc'.hash \in {"free", "fill"} => ~NeedMove
      /\ pc'.hash \in {"enterBt", "enterHash", "move"} => NeedMove
  BY <1>1, <1>2, <1>3 DEF IInv, WindowRight
<1>6. pc'.main \notin {"wait", "stopped"} => pc.main \notin {"wait", "stopped"} \/ ~Streaming'
  BY <1>1, <1>2, <1>3 DEF Streaming
<1> QED
  BY <1>1, <1>2, <1>3, <1>4, <1>5, <1>6, SameData

LEMMA BtThreadExitData ==
  ASSUME IInv, ThreadExit("bt")
  PROVE  Data'
<1>1. Control'
  BY BtThreadExitControl
<1>2. /\ pc'.main = pc.main /\ pc'.bt = "exited" /\ pc'.hash = pc.hash /\ sync'.bt = sync.bt
      /\ sync'.hash = sync.hash /\ UNCHANGED <<mf, buf, bt, main>>
  BY ThreadExitEffect, LinkFields DEF IInv, Moved, LinkBecomes, LinkType, Links, Consumer
<1>3. pc.bt = "check"
  BY <1>2, ThreadExitEffect DEF Consumer, Links, IInv
<1>4. /\ Streaming' => Streaming
      /\ TreeLives' => /\ TreeLives /\ SameLink("hash")
                       /\ (Between' <=> Between) /\ (Filling' <=> Filling)
      /\ Streaming' /\ ~sync'.hash.needStart /\ pc'.bt # "wait" => SameLink("hash") /\ pc.bt # "wait"
      /\ Streaming' /\ pc'.main # "wait" /\ (pc'.main = "get" \/ ~sync'.bt.needStart)
           => SameLink("bt") /\ pc.main # "wait"
  BY <1>1, <1>2, <1>3 DEF Streaming, TreeLives, SameLink, Between, Filling
<1>5. /\ pc'.hash \in {"free", "fill"} => ~NeedMove
      /\ pc'.hash \in {"enterBt", "enterHash", "move"} => NeedMove
  BY <1>1, <1>2, <1>3 DEF IInv, WindowRight
<1>6. pc'.main \notin {"wait", "stopped"} => pc.main \notin {"wait", "stopped"} \/ ~Streaming'
  BY <1>1, <1>2, <1>3 DEF Streaming
<1> QED
  BY <1>1, <1>2, <1>3, <1>4, <1>5, <1>6, SameData

LEMMA HashAwaitStartedData ==
  ASSUME IInv, AwaitStarted("hash")
  PROVE  Data'
<1>1. Control'
  BY HashAwaitStartedControl
<1>2. /\ pc'.main = pc.main /\ pc'.bt = "filled" /\ pc'.hash = pc.hash /\ sync'.bt = sync.bt
      /\ sync'.hash.needStart = sync.hash.needStart
      /\ sync'.hash.numProcessed = sync.hash.numProcessed /\ UNCHANGED <<mf, buf, bt, main>>
  BY AwaitStartedEffect, LinkFields DEF IInv, Moved, LinkBecomes, LinkType, Links, Consumer
<1>3. pc.bt = "started"
  BY <1>2, AwaitStartedEffect DEF Consumer, Links, IInv
<1>4. /\ Streaming' => Streaming
      /\ TreeLives' => /\ TreeLives /\ SameLink("hash")
                       /\ (Between' <=> Between) /\ (Filling' <=> Filling)
      /\ Streaming' /\ ~sync'.hash.needStart /\ pc'.bt # "wait" => SameLink("hash") /\ pc.bt # "wait"
      /\ Streaming' /\ pc'.main # "wait" /\ (pc'.main = "get" \/ ~sync'.bt.needStart)
           => SameLink("bt") /\ pc.main # "wait"
  BY <1>1, <1>2, <1>3 DEF Streaming, TreeLives, SameLink, Between, Filling
<1>5. /\ pc'.hash \in {"free", "fill"} => ~NeedMove
      /\ pc'.hash \in {"enterBt", "enterHash", "move"} => NeedMove
  BY <1>1, <1>2, <1>3 DEF IInv, WindowRight
<1>6. pc'.main \notin {"wait", "stopped"} => pc.main \notin {"wait", "stopped"} \/ ~Streaming'
  BY <1>1, <1>2, <1>3 DEF Streaming
<1> QED
  BY <1>1, <1>2, <1>3, <1>4, <1>5, <1>6, SameData

LEMMA HashTakeFilledData ==
  ASSUME IInv, TakeFilled("hash")
  PROVE  Data'
<1>1. Control'
  BY HashTakeFilledControl
<1>2. /\ pc'.main = pc.main /\ pc'.bt = "enter" /\ pc'.hash = pc.hash /\ sync'.bt = sync.bt
      /\ sync'.hash.needStart = sync.hash.needStart
      /\ sync'.hash.numProcessed = sync.hash.numProcessed /\ UNCHANGED <<mf, buf, bt, main>>
  BY TakeFilledEffect, LinkFields DEF IInv, Moved, LinkBecomes, LinkType, Links, Consumer
<1>3. pc.bt = "filled"
  BY <1>2, TakeFilledEffect DEF Consumer, Links, IInv
<1>4. /\ Streaming' => Streaming
      /\ TreeLives' => /\ TreeLives /\ SameLink("hash")
                       /\ (Between' <=> Between) /\ (Filling' <=> Filling)
      /\ Streaming' /\ ~sync'.hash.needStart /\ pc'.bt # "wait" => SameLink("hash") /\ pc.bt # "wait"
      /\ Streaming' /\ pc'.main # "wait" /\ (pc'.main = "get" \/ ~sync'.bt.needStart)
           => SameLink("bt") /\ pc.main # "wait"
  BY <1>1, <1>2, <1>3 DEF Streaming, TreeLives, SameLink, Between, Filling
<1>5. /\ pc'.hash \in {"free", "fill"} => ~NeedMove
      /\ pc'.hash \in {"enterBt", "enterHash", "move"} => NeedMove
  BY <1>1, <1>2, <1>3 DEF IInv, WindowRight
<1>6. pc'.main \notin {"wait", "stopped"} => pc.main \notin {"wait", "stopped"} \/ ~Streaming'
  BY <1>1, <1>2, <1>3 DEF Streaming
<1> QED
  BY <1>1, <1>2, <1>3, <1>4, <1>5, <1>6, SameData

LEMMA HashTakeFreeData ==
  ASSUME IInv, TakeFree("hash")
  PROVE  Data'
<1>1. Control'
  BY HashTakeFreeControl
<1>2. /\ pc'.main = pc.main /\ pc'.bt = pc.bt /\ pc'.hash = "fill" /\ sync'.bt = sync.bt
      /\ sync'.hash.needStart = sync.hash.needStart
      /\ sync'.hash.numProcessed = sync.hash.numProcessed /\ UNCHANGED <<mf, buf, bt, main>>
  BY TakeFreeEffect, LinkFields DEF IInv, Moved, LinkBecomes, LinkType, Links, Consumer
<1>3. pc.hash = "free"
  BY <1>2, TakeFreeEffect DEF Consumer, Links, IInv
<1>4. /\ Streaming' => Streaming
      /\ TreeLives' => /\ TreeLives /\ SameLink("hash")
                       /\ (Between' <=> Between) /\ (Filling' <=> Filling)
      /\ Streaming' /\ ~sync'.hash.needStart /\ pc'.bt # "wait" => SameLink("hash") /\ pc.bt # "wait"
      /\ Streaming' /\ pc'.main # "wait" /\ (pc'.main = "get" \/ ~sync'.bt.needStart)
           => SameLink("bt") /\ pc.main # "wait"
  BY <1>1, <1>2, <1>3 DEF Streaming, TreeLives, SameLink, Between, Filling
<1>5. /\ pc'.hash \in {"free", "fill"} => ~NeedMove
      /\ pc'.hash \in {"enterBt", "enterHash", "move"} => NeedMove
  BY <1>1, <1>2, <1>3 DEF IInv, WindowRight
<1>6. pc'.main \notin {"wait", "stopped"} => pc.main \notin {"wait", "stopped"} \/ ~Streaming'
  BY <1>1, <1>2, <1>3 DEF Streaming
<1> QED
  BY <1>1, <1>2, <1>3, <1>4, <1>5, <1>6, SameData

LEMMA HashThreadExitData ==
  ASSUME IInv, ThreadExit("hash")
  PROVE  Data'
<1>1. Control'
  BY HashThreadExitControl
<1>2. /\ pc'.main = pc.main /\ pc'.bt = pc.bt /\ pc'.hash = "exited" /\ sync'.bt = sync.bt
      /\ sync'.hash = sync.hash /\ UNCHANGED <<mf, buf, bt, main>>
  BY ThreadExitEffect, LinkFields DEF IInv, Moved, LinkBecomes, LinkType, Links, Consumer
<1>3. pc.hash = "check"
  BY <1>2, ThreadExitEffect DEF Consumer, Links, IInv
<1>4. /\ Streaming' => Streaming
      /\ TreeLives' => /\ TreeLives /\ SameLink("hash")
                       /\ (Between' <=> Between) /\ (Filling' <=> Filling)
      /\ Streaming' /\ ~sync'.hash.needStart /\ pc'.bt # "wait" => SameLink("hash") /\ pc.bt # "wait"
      /\ Streaming' /\ pc'.main # "wait" /\ (pc'.main = "get" \/ ~sync'.bt.needStart)
           => SameLink("bt") /\ pc.main # "wait"
  BY <1>1, <1>2, <1>3 DEF Streaming, TreeLives, SameLink, Between, Filling
<1>5. /\ pc'.hash \in {"free", "fill"} => ~NeedMove
      /\ pc'.hash \in {"enterBt", "enterHash", "move"} => NeedMove
  BY <1>1, <1>2, <1>3 DEF IInv, WindowRight
<1>6. pc'.main \notin {"wait", "stopped"} => pc.main \notin {"wait", "stopped"} \/ ~Streaming'
  BY <1>1, <1>2, <1>3 DEF Streaming
<1> QED
  BY <1>1, <1>2, <1>3, <1>4, <1>5, <1>6, SameData
LEMMA BtStopWritingData ==
  ASSUME IInv, StopWriting("bt")
  PROVE  Data'
<1>1. Control'
  BY BtStopWritingControl
<1>0. pc.main = "stop" /\ ~sync.bt.needStart
  BY DEF StopWriting, Consumer, Streaming, IInv, LinkRight, Resting, RestPcs, Links
<1>2. /\ pc'.main = "wait" /\ pc'.bt = pc.bt /\ pc'.hash = pc.hash
      /\ sync'.bt.needStart = sync.bt.needStart /\ sync'.bt.numProcessed = sync.bt.numProcessed
      /\ sync'.hash = sync.hash /\ UNCHANGED <<mf, buf, bt, main>>
  BY <1>0, StopWritingEffect, LinkFields DEF IInv, Moved, LinkBecomes, LinkType, Links, Consumer
<1>3. pc.main = "stop"
  BY <1>2, <1>0
<1>4. /\ Streaming' => Streaming
      /\ TreeLives' => /\ TreeLives /\ SameLink("hash")
                       /\ (Between' <=> Between) /\ (Filling' <=> Filling)
      /\ Streaming' /\ ~sync'.hash.needStart /\ pc'.bt # "wait" => SameLink("hash") /\ pc.bt # "wait"
      /\ Streaming' /\ pc'.main # "wait" /\ (pc'.main = "get" \/ ~sync'.bt.needStart)
           => SameLink("bt") /\ pc.main # "wait"
  BY <1>1, <1>2, <1>3 DEF Streaming, TreeLives, SameLink, Between, Filling
<1>5. /\ pc'.hash \in {"free", "fill"} => ~NeedMove
      /\ pc'.hash \in {"enterBt", "enterHash", "move"} => NeedMove
  BY <1>1, <1>2, <1>3 DEF IInv, WindowRight
<1>6. pc'.main \notin {"wait", "stopped"} => pc.main \notin {"wait", "stopped"} \/ ~Streaming'
  BY <1>1, <1>2, <1>3 DEF Streaming
<1> QED
  BY <1>1, <1>2, <1>3, <1>4, <1>5, <1>6, SameData

LEMMA BtAwaitStoppedData ==
  ASSUME IInv, AwaitStopped("bt")
  PROVE  Data'
<1>1. Control'
  BY BtAwaitStoppedControl
<1>0. sync.bt.filled = sync.bt.numProcessed - sync.bt.mine /\ pc.main = "wait" /\ pc.bt = "start"
      /\ Streaming
  <2>1. pc.main = "wait" /\ sync.bt.wasStopped
    BY DEF AwaitStopped, Consumer
  <2>2. Counting("bt") /\ Handshake("bt") /\ Streaming
    BY <2>1, ConsumerActive DEF Consumer, Links
  <2> QED
    BY <2>1, <2>2 DEF Counting, Handshake, Consumer
<1>2. /\ pc'.main = "stopped" /\ pc'.bt = pc.bt /\ pc'.hash = pc.hash /\ sync'.bt.needStart = TRUE
      /\ sync'.bt.numProcessed = 0 /\ sync'.hash = sync.hash /\ UNCHANGED <<mf, buf, bt, main>>
  BY <1>0, AwaitStoppedEffect, LinkFields DEF IInv, Moved, LinkBecomes, LinkType, Links, Consumer
<1>3. pc.main = "wait" /\ pc.bt = "start"
  BY <1>2, <1>0
<1>4. /\ Streaming' => Streaming
      /\ TreeLives' => /\ TreeLives /\ SameLink("hash")
                       /\ (Between' <=> Between) /\ (Filling' <=> Filling)
      /\ Streaming' /\ ~sync'.hash.needStart /\ pc'.bt # "wait" => SameLink("hash") /\ pc.bt # "wait"
      /\ Streaming' /\ pc'.main # "wait" /\ (pc'.main = "get" \/ ~sync'.bt.needStart)
           => SameLink("bt") /\ pc.main # "wait"
  BY <1>1, <1>2, <1>3 DEF Streaming, TreeLives, SameLink, Between, Filling
<1>5. /\ pc'.hash \in {"free", "fill"} => ~NeedMove
      /\ pc'.hash \in {"enterBt", "enterHash", "move"} => NeedMove
  BY <1>1, <1>2, <1>3 DEF IInv, WindowRight
<1>6. pc'.main \notin {"wait", "stopped"} => pc.main \notin {"wait", "stopped"} \/ ~Streaming'
  BY <1>1, <1>2, <1>3 DEF Streaming
<1> QED
  BY <1>1, <1>2, <1>3, <1>4, <1>5, <1>6, SameData

LEMMA HashAwaitStoppedData ==
  ASSUME IInv, AwaitStopped("hash")
  PROVE  Data'
<1>1. Control'
  BY HashAwaitStoppedControl
<1>0. sync.hash.filled = sync.hash.numProcessed - sync.hash.mine /\ pc.bt = "wait" /\ pc.hash = "start"
      /\ Streaming
  <2>1. pc.bt = "wait" /\ sync.hash.wasStopped
    BY DEF AwaitStopped, Consumer
  <2>2. Counting("hash") /\ Handshake("hash") /\ Streaming
    BY <2>1, ConsumerActive DEF Consumer, Links
  <2> QED
    BY <2>1, <2>2 DEF Counting, Handshake, Consumer
<1>2. /\ pc'.main = pc.main /\ pc'.bt = "stopped" /\ pc'.hash = pc.hash /\ sync'.bt = sync.bt
      /\ sync'.hash.needStart = TRUE /\ sync'.hash.numProcessed = 0
      /\ UNCHANGED <<mf, buf, bt, main>>
  BY <1>0, AwaitStoppedEffect, LinkFields DEF IInv, Moved, LinkBecomes, LinkType, Links, Consumer
<1>3. pc.bt = "wait" /\ pc.main = "wait"
  BY <1>2, <1>0 DEF IInv, Places
<1>4. /\ Streaming' => Streaming
      /\ TreeLives' => /\ TreeLives /\ SameLink("hash")
                       /\ (Between' <=> Between) /\ (Filling' <=> Filling)
      /\ Streaming' /\ ~sync'.hash.needStart /\ pc'.bt # "wait" => SameLink("hash") /\ pc.bt # "wait"
      /\ Streaming' /\ pc'.main # "wait" /\ (pc'.main = "get" \/ ~sync'.bt.needStart)
           => SameLink("bt") /\ pc.main # "wait"
  BY <1>1, <1>2, <1>3 DEF Streaming, TreeLives, SameLink, Between, Filling
<1>5. /\ pc'.hash \in {"free", "fill"} => ~NeedMove
      /\ pc'.hash \in {"enterBt", "enterHash", "move"} => NeedMove
  BY <1>1, <1>2, <1>3 DEF IInv, WindowRight
<1>6. pc'.main \notin {"wait", "stopped"} => pc.main \notin {"wait", "stopped"} \/ ~Streaming'
  BY <1>1, <1>2, <1>3 DEF Streaming
<1> QED
  BY <1>1, <1>2, <1>3, <1>4, <1>5, <1>6, SameData

LEMMA HashStopWritingData ==
  ASSUME IInv, StopWriting("hash"), ~sync.hash.needStart
  PROVE  Data'
<1>1. Control'
  BY HashStopWritingControl
<1>0. pc.bt = "stop" /\ pc.main = "wait"
  BY DEF StopWriting, Consumer, IInv, Places, Streaming, Links
<1>2. /\ pc'.main = pc.main /\ pc'.bt = "wait" /\ pc'.hash = pc.hash /\ sync'.bt = sync.bt
      /\ sync'.hash.needStart = sync.hash.needStart
      /\ sync'.hash.numProcessed = sync.hash.numProcessed /\ UNCHANGED <<mf, buf, bt, main>>
  BY StopWritingEffect, LinkFields DEF IInv, Moved, LinkBecomes, LinkType, Links, Consumer
<1>3. pc.bt = "stop" /\ pc.main = "wait"
  BY <1>2, <1>0
<1>4. /\ Streaming' => Streaming
      /\ TreeLives' => /\ TreeLives /\ SameLink("hash")
                       /\ (Between' <=> Between) /\ (Filling' <=> Filling)
      /\ Streaming' /\ ~sync'.hash.needStart /\ pc'.bt # "wait" => SameLink("hash") /\ pc.bt # "wait"
      /\ Streaming' /\ pc'.main # "wait" /\ (pc'.main = "get" \/ ~sync'.bt.needStart)
           => SameLink("bt") /\ pc.main # "wait"
  BY <1>1, <1>2, <1>3 DEF Streaming, TreeLives, SameLink, Between, Filling
<1>5. /\ pc'.hash \in {"free", "fill"} => ~NeedMove
      /\ pc'.hash \in {"enterBt", "enterHash", "move"} => NeedMove
  BY <1>1, <1>2, <1>3 DEF IInv, WindowRight
<1>6. pc'.main \notin {"wait", "stopped"} => pc.main \notin {"wait", "stopped"} \/ ~Streaming'
  BY <1>1, <1>2, <1>3 DEF Streaming
<1> QED
  BY <1>1, <1>2, <1>3, <1>4, <1>5, <1>6, SameData

LEMMA HashStopUnstartedData ==
  ASSUME IInv, StopWriting("hash"), sync.hash.needStart
  PROVE  Data'
<1>1. Control'
  BY HashStopUnstartedControl
<1>0. pc.bt = "stop" /\ pc.main = "wait"
  BY DEF StopWriting, Consumer, IInv, Places, Streaming, Links
<1>2. /\ pc'.main = pc.main /\ pc'.bt = "stopped" /\ pc'.hash = pc.hash /\ sync'.bt = sync.bt
      /\ sync'.hash = sync.hash /\ UNCHANGED <<mf, buf, bt, main>>
  BY StopWritingEffect, LinkFields DEF IInv, Moved, LinkBecomes, LinkType, Links, Consumer
<1>3. pc.bt = "stop" /\ pc.main = "wait"
  BY <1>2, <1>0
<1>4. /\ Streaming' => Streaming
      /\ TreeLives' => /\ TreeLives /\ SameLink("hash")
                       /\ (Between' <=> Between) /\ (Filling' <=> Filling)
      /\ Streaming' /\ ~sync'.hash.needStart /\ pc'.bt # "wait" => SameLink("hash") /\ pc.bt # "wait"
      /\ Streaming' /\ pc'.main # "wait" /\ (pc'.main = "get" \/ ~sync'.bt.needStart)
           => SameLink("bt") /\ pc.main # "wait"
  BY <1>1, <1>2, <1>3 DEF Streaming, TreeLives, SameLink, Between, Filling
<1>5. /\ pc'.hash \in {"free", "fill"} => ~NeedMove
      /\ pc'.hash \in {"enterBt", "enterHash", "move"} => NeedMove
  BY <1>1, <1>2, <1>3 DEF IInv, WindowRight
<1>6. pc'.main \notin {"wait", "stopped"} => pc.main \notin {"wait", "stopped"} \/ ~Streaming'
  BY <1>1, <1>2, <1>3 DEF Streaming
<1> QED
  BY <1>1, <1>2, <1>3, <1>4, <1>5, <1>6, SameData

LEMMA HashStopData ==
  ASSUME IInv, HashStop
  PROVE  Data'
<1>1. Control'
  BY HashStopControl
<1>0. pc.hash = "check" /\ pc.bt = "wait"
  <2>1. pc.hash = "check" /\ ~sync.hash.exit /\ sync.hash.stopWriting
    BY DEF HashStop
  <2>2. Handshake("hash")
    BY <2>1 DEF IInv, Places, Links, LinkRight, Resting
  <2> QED
    BY <2>1, <2>2 DEF Handshake, Consumer
<1>2. /\ pc'.main = pc.main /\ pc'.bt = pc.bt /\ pc'.hash = "start" /\ sync'.bt = sync.bt
      /\ sync'.hash.needStart = sync.hash.needStart /\ sync'.hash.numProcessed = mf.blocks
      /\ UNCHANGED <<mf, buf, bt, main>>
  BY HashStopEffect, LinkFields DEF IInv, Moved, LinkBecomes, LinkType, Links, Consumer
<1>3. pc.hash = "check" /\ pc.bt = "wait"
  BY <1>2, <1>0
<1>4. /\ Streaming' => Streaming
      /\ TreeLives' => /\ TreeLives /\ SameLink("hash")
                       /\ (Between' <=> Between) /\ (Filling' <=> Filling)
      /\ Streaming' /\ ~sync'.hash.needStart /\ pc'.bt # "wait" => SameLink("hash") /\ pc.bt # "wait"
      /\ Streaming' /\ pc'.main # "wait" /\ (pc'.main = "get" \/ ~sync'.bt.needStart)
           => SameLink("bt") /\ pc.main # "wait"
  BY <1>1, <1>2, <1>3 DEF Streaming, TreeLives, SameLink, Between, Filling
<1>5. /\ pc'.hash \in {"free", "fill"} => ~NeedMove
      /\ pc'.hash \in {"enterBt", "enterHash", "move"} => NeedMove
  BY <1>1, <1>2, <1>3 DEF IInv, WindowRight
<1>6. pc'.main \notin {"wait", "stopped"} => pc.main \notin {"wait", "stopped"} \/ ~Streaming'
  BY <1>1, <1>2, <1>3 DEF Streaming
<1> QED
  BY <1>1, <1>2, <1>3, <1>4, <1>5, <1>6, SameData

LEMMA HashCheckData ==
  ASSUME IInv, HashCheck
  PROVE  Data'
<1>1. Control'
  BY HashCheckControl
<1>2. /\ pc'.main = pc.main /\ pc'.bt = pc.bt /\ pc'.hash = IF NeedMove THEN "enterBt" ELSE "free"
      /\ sync'.bt = sync.bt /\ sync'.hash = sync.hash /\ UNCHANGED <<mf, buf, bt, main>>
  BY HashCheckEffect, LinkFields DEF IInv, Moved, LinkBecomes, LinkType, Links, Consumer
<1>3. pc.hash = "check"
  BY <1>2, HashCheckEffect DEF IInv, HashGoesOn
<1>4. /\ Streaming' => Streaming
      /\ TreeLives' => /\ TreeLives /\ SameLink("hash")
                       /\ (Between' <=> Between) /\ (Filling' <=> Filling)
      /\ Streaming' /\ ~sync'.hash.needStart /\ pc'.bt # "wait" => SameLink("hash") /\ pc.bt # "wait"
      /\ Streaming' /\ pc'.main # "wait" /\ (pc'.main = "get" \/ ~sync'.bt.needStart)
           => SameLink("bt") /\ pc.main # "wait"
  BY <1>1, <1>2, <1>3 DEF Streaming, TreeLives, SameLink, Between, Filling
<1>5. /\ pc'.hash \in {"free", "fill"} => ~NeedMove
      /\ pc'.hash \in {"enterBt", "enterHash", "move"} => NeedMove
  BY <1>1, <1>2, <1>3 DEF IInv, WindowRight
<1>6. pc'.main \notin {"wait", "stopped"} => pc.main \notin {"wait", "stopped"} \/ ~Streaming'
  BY <1>1, <1>2, <1>3 DEF Streaming
<1> QED
  BY <1>1, <1>2, <1>3, <1>4, <1>5, <1>6, SameData

LEMMA EnterBtCSData ==
  ASSUME IInv, EnterBtCS
  PROVE  Data'
<1>1. Control'
  BY EnterBtCSControl
<1>2. /\ pc'.main = pc.main /\ pc'.bt = pc.bt /\ pc'.hash = "enterHash"
      /\ sync'.bt.needStart = sync.bt.needStart /\ sync'.bt.numProcessed = sync.bt.numProcessed
      /\ sync'.hash = sync.hash /\ UNCHANGED <<mf, buf, bt, main>>
  BY EnterBtCSEffect, LinkFields DEF IInv, Moved, LinkBecomes, LinkType, Links, Consumer
<1>3. pc.hash = "enterBt"
  BY <1>2, EnterBtCSEffect DEF IInv
<1>4. /\ Streaming' => Streaming
      /\ TreeLives' => /\ TreeLives /\ SameLink("hash")
                       /\ (Between' <=> Between) /\ (Filling' <=> Filling)
      /\ Streaming' /\ ~sync'.hash.needStart /\ pc'.bt # "wait" => SameLink("hash") /\ pc.bt # "wait"
      /\ Streaming' /\ pc'.main # "wait" /\ (pc'.main = "get" \/ ~sync'.bt.needStart)
           => SameLink("bt") /\ pc.main # "wait"
  BY <1>1, <1>2, <1>3 DEF Streaming, TreeLives, SameLink, Between, Filling
<1>5. /\ pc'.hash \in {"free", "fill"} => ~NeedMove
      /\ pc'.hash \in {"enterBt", "enterHash", "move"} => NeedMove
  BY <1>1, <1>2, <1>3 DEF IInv, WindowRight
<1>6. pc'.main \notin {"wait", "stopped"} => pc.main \notin {"wait", "stopped"} \/ ~Streaming'
  BY <1>1, <1>2, <1>3 DEF Streaming
<1> QED
  BY <1>1, <1>2, <1>3, <1>4, <1>5, <1>6, SameData

LEMMA EnterHashCSData ==
  ASSUME IInv, EnterHashCS
  PROVE  Data'
<1>1. Control'
  BY EnterHashCSControl
<1>2. /\ pc'.main = pc.main /\ pc'.bt = pc.bt /\ pc'.hash = "move" /\ sync'.bt = sync.bt
      /\ sync'.hash.needStart = sync.hash.needStart
      /\ sync'.hash.numProcessed = sync.hash.numProcessed /\ UNCHANGED <<mf, buf, bt, main>>
  BY EnterHashCSEffect, LinkFields DEF IInv, Moved, LinkBecomes, LinkType, Links, Consumer
<1>3. pc.hash = "enterHash"
  BY <1>2, EnterHashCSEffect DEF IInv
<1>4. /\ Streaming' => Streaming
      /\ TreeLives' => /\ TreeLives /\ SameLink("hash")
                       /\ (Between' <=> Between) /\ (Filling' <=> Filling)
      /\ Streaming' /\ ~sync'.hash.needStart /\ pc'.bt # "wait" => SameLink("hash") /\ pc.bt # "wait"
      /\ Streaming' /\ pc'.main # "wait" /\ (pc'.main = "get" \/ ~sync'.bt.needStart)
           => SameLink("bt") /\ pc.main # "wait"
  BY <1>1, <1>2, <1>3 DEF Streaming, TreeLives, SameLink, Between, Filling
<1>5. /\ pc'.hash \in {"free", "fill"} => ~NeedMove
      /\ pc'.hash \in {"enterBt", "enterHash", "move"} => NeedMove
  BY <1>1, <1>2, <1>3 DEF IInv, WindowRight
<1>6. pc'.main \notin {"wait", "stopped"} => pc.main \notin {"wait", "stopped"} \/ ~Streaming'
  BY <1>1, <1>2, <1>3 DEF Streaming
<1> QED
  BY <1>1, <1>2, <1>3, <1>4, <1>5, <1>6, SameData

LEMMA BtStopData ==
  ASSUME IInv, BtStop
  PROVE  Data'
<1>1. Control'
  BY BtStopControl
<1>0. pc.bt = "check" /\ pc.main = "wait"
  <2>1. pc.bt = "check" /\ ~sync.bt.exit /\ sync.bt.stopWriting
    BY DEF BtStop
  <2>2. Handshake("bt")
    BY <2>1 DEF IInv, Places, Links, LinkRight, Resting
  <2> QED
    BY <2>1, <2>2 DEF Handshake, Consumer
<1>2. /\ pc'.main = pc.main /\ pc'.bt = "stop" /\ pc'.hash = pc.hash
      /\ sync'.bt.needStart = sync.bt.needStart /\ sync'.bt.numProcessed = bt.blocks
      /\ sync'.hash = sync.hash /\ UNCHANGED <<mf, buf, bt, main>>
  BY BtStopEffect, LinkFields DEF IInv, Moved, LinkBecomes, LinkType, Links, Consumer
<1>3. pc.bt = "check" /\ pc.main = "wait"
  BY <1>2, <1>0
<1>4. /\ Streaming' => Streaming
      /\ TreeLives' => /\ TreeLives /\ SameLink("hash")
                       /\ (Between' <=> Between) /\ (Filling' <=> Filling)
      /\ Streaming' /\ ~sync'.hash.needStart /\ pc'.bt # "wait" => SameLink("hash") /\ pc.bt # "wait"
      /\ Streaming' /\ pc'.main # "wait" /\ (pc'.main = "get" \/ ~sync'.bt.needStart)
           => SameLink("bt") /\ pc.main # "wait"
  BY <1>1, <1>2, <1>3 DEF Streaming, TreeLives, SameLink, Between, Filling
<1>5. /\ pc'.hash \in {"free", "fill"} => ~NeedMove
      /\ pc'.hash \in {"enterBt", "enterHash", "move"} => NeedMove
  BY <1>1, <1>2, <1>3 DEF IInv, WindowRight
<1>6. pc'.main \notin {"wait", "stopped"} => pc.main \notin {"wait", "stopped"} \/ ~Streaming'
  BY <1>1, <1>2, <1>3 DEF Streaming
<1> QED
  BY <1>1, <1>2, <1>3, <1>4, <1>5, <1>6, SameData

LEMMA BtStoppedData ==
  ASSUME IInv, BtStopped
  PROVE  Data'
<1>1. Control'
  BY BtStoppedControl
<1>0. pc.bt = "stopped" /\ pc.main = "wait"
  BY DEF BtStopped, IInv, Places, Streaming, Links
<1>2. /\ pc'.main = pc.main /\ pc'.bt = "start" /\ pc'.hash = pc.hash
      /\ sync'.bt.needStart = sync.bt.needStart /\ sync'.bt.numProcessed = sync.bt.numProcessed
      /\ sync'.hash = sync.hash /\ UNCHANGED <<mf, buf, bt, main>>
  BY BtStoppedEffect, LinkFields DEF IInv, Moved, LinkBecomes, LinkType, Links, Consumer
<1>3. pc.bt = "stopped" /\ pc.main = "wait"
  BY <1>2, <1>0
<1>4. /\ Streaming' => Streaming
      /\ TreeLives' => /\ TreeLives /\ SameLink("hash")
                       /\ (Between' <=> Between) /\ (Filling' <=> Filling)
      /\ Streaming' /\ ~sync'.hash.needStart /\ pc'.bt # "wait" => SameLink("hash") /\ pc.bt # "wait"
      /\ Streaming' /\ pc'.main # "wait" /\ (pc'.main = "get" \/ ~sync'.bt.needStart)
           => SameLink("bt") /\ pc.main # "wait"
  BY <1>1, <1>2, <1>3 DEF Streaming, TreeLives, SameLink, Between, Filling
<1>5. /\ pc'.hash \in {"free", "fill"} => ~NeedMove
      /\ pc'.hash \in {"enterBt", "enterHash", "move"} => NeedMove
  BY <1>1, <1>2, <1>3 DEF IInv, WindowRight
<1>6. pc'.main \notin {"wait", "stopped"} => pc.main \notin {"wait", "stopped"} \/ ~Streaming'
  BY <1>1, <1>2, <1>3 DEF Streaming
<1> QED
  BY <1>1, <1>2, <1>3, <1>4, <1>5, <1>6, SameData

LEMMA BtCheckData ==
  ASSUME IInv, BtCheck
  PROVE  Data'
<1>1. Control'
  BY BtCheckControl
<1>2. /\ pc'.main = pc.main /\ pc'.bt = "free" /\ pc'.hash = pc.hash /\ sync'.bt = sync.bt
      /\ sync'.hash = sync.hash /\ UNCHANGED <<mf, buf, bt, main>>
  BY BtCheckEffect, LinkFields DEF IInv, Moved, LinkBecomes, LinkType, Links, Consumer
<1>3. pc.bt = "check"
  BY <1>2, BtCheckEffect DEF IInv
<1>4. /\ Streaming' => Streaming
      /\ TreeLives' => /\ TreeLives /\ SameLink("hash")
                       /\ (Between' <=> Between) /\ (Filling' <=> Filling)
      /\ Streaming' /\ ~sync'.hash.needStart /\ pc'.bt # "wait" => SameLink("hash") /\ pc.bt # "wait"
      /\ Streaming' /\ pc'.main # "wait" /\ (pc'.main = "get" \/ ~sync'.bt.needStart)
           => SameLink("bt") /\ pc.main # "wait"
  BY <1>1, <1>2, <1>3 DEF Streaming, TreeLives, SameLink, Between, Filling
<1>5. /\ pc'.hash \in {"free", "fill"} => ~NeedMove
      /\ pc'.hash \in {"enterBt", "enterHash", "move"} => NeedMove
  BY <1>1, <1>2, <1>3 DEF IInv, WindowRight
<1>6. pc'.main \notin {"wait", "stopped"} => pc.main \notin {"wait", "stopped"} \/ ~Streaming'
  BY <1>1, <1>2, <1>3 DEF Streaming
<1> QED
  BY <1>1, <1>2, <1>3, <1>4, <1>5, <1>6, SameData

LEMMA FinishData ==
  ASSUME IInv, Finish
  PROVE  Data'
<1>1. Control'
  BY FinishControl
<1>2. /\ pc'.main = "stop" /\ pc'.bt = pc.bt /\ pc'.hash = pc.hash /\ sync'.bt = sync.bt
      /\ sync'.hash = sync.hash /\ UNCHANGED <<mf, buf, bt, main>>
  BY MainMoves, LinkFields DEF IInv, Moved, LinkBecomes, LinkType, Links, Consumer
<1>3. pc.main = "got"
  BY <1>2, MainMoves DEF IInv
<1>4. /\ Streaming' => Streaming
      /\ TreeLives' => /\ TreeLives /\ SameLink("hash")
                       /\ (Between' <=> Between) /\ (Filling' <=> Filling)
      /\ Streaming' /\ ~sync'.hash.needStart /\ pc'.bt # "wait" => SameLink("hash") /\ pc.bt # "wait"
      /\ Streaming' /\ pc'.main # "wait" /\ (pc'.main = "get" \/ ~sync'.bt.needStart)
           => SameLink("bt") /\ pc.main # "wait"
  BY <1>1, <1>2, <1>3 DEF Streaming, TreeLives, SameLink, Between, Filling
<1>5. /\ pc'.hash \in {"free", "fill"} => ~NeedMove
      /\ pc'.hash \in {"enterBt", "enterHash", "move"} => NeedMove
  BY <1>1, <1>2, <1>3 DEF IInv, WindowRight
<1>6. pc'.main \notin {"wait", "stopped"} => pc.main \notin {"wait", "stopped"} \/ ~Streaming'
  BY <1>1, <1>2, <1>3 DEF Streaming
<1> QED
  BY <1>1, <1>2, <1>3, <1>4, <1>5, <1>6, SameData

LEMMA FinishedData ==
  ASSUME IInv, Finished
  PROVE  Data'
<1>1. Control'
  BY FinishedControl
<1>2. /\ pc'.main = "idle" /\ pc'.bt = pc.bt /\ pc'.hash = pc.hash /\ sync'.bt = sync.bt
      /\ sync'.hash = sync.hash /\ UNCHANGED <<mf, buf, bt, main>>
  BY MainMoves, LinkFields DEF IInv, Moved, LinkBecomes, LinkType, Links, Consumer
<1>3. pc.main = "stopped"
  BY <1>2, MainMoves DEF IInv
<1>4. /\ Streaming' => Streaming
      /\ TreeLives' => /\ TreeLives /\ SameLink("hash")
                       /\ (Between' <=> Between) /\ (Filling' <=> Filling)
      /\ Streaming' /\ ~sync'.hash.needStart /\ pc'.bt # "wait" => SameLink("hash") /\ pc.bt # "wait"
      /\ Streaming' /\ pc'.main # "wait" /\ (pc'.main = "get" \/ ~sync'.bt.needStart)
           => SameLink("bt") /\ pc.main # "wait"
  BY <1>1, <1>2, <1>3 DEF Streaming, TreeLives, SameLink, Between, Filling
<1>5. /\ pc'.hash \in {"free", "fill"} => ~NeedMove
      /\ pc'.hash \in {"enterBt", "enterHash", "move"} => NeedMove
  BY <1>1, <1>2, <1>3 DEF IInv, WindowRight
<1>6. pc'.main \notin {"wait", "stopped"} => pc.main \notin {"wait", "stopped"} \/ ~Streaming'
  BY <1>1, <1>2, <1>3 DEF Streaming
<1> QED
  BY <1>1, <1>2, <1>3, <1>4, <1>5, <1>6, SameData

LEMMA DestructData ==
  ASSUME IInv, Destruct
  PROVE  Data'
<1>1. Control'
  BY DestructControl
<1>2. /\ pc'.main = "endHash" /\ pc'.bt = pc.bt /\ pc'.hash = pc.hash /\ sync'.bt = sync.bt
      /\ sync'.hash = sync.hash /\ UNCHANGED <<mf, buf, bt, main>>
  BY MainMoves, LinkFields DEF IInv, Moved, LinkBecomes, LinkType, Links, Consumer
<1>3. pc.main = "idle"
  BY <1>2, MainMoves DEF IInv
<1>4. /\ Streaming' => Streaming
      /\ TreeLives' => /\ TreeLives /\ SameLink("hash")
                       /\ (Between' <=> Between) /\ (Filling' <=> Filling)
      /\ Streaming' /\ ~sync'.hash.needStart /\ pc'.bt # "wait" => SameLink("hash") /\ pc.bt # "wait"
      /\ Streaming' /\ pc'.main # "wait" /\ (pc'.main = "get" \/ ~sync'.bt.needStart)
           => SameLink("bt") /\ pc.main # "wait"
  BY <1>1, <1>2, <1>3 DEF Streaming, TreeLives, SameLink, Between, Filling
<1>5. /\ pc'.hash \in {"free", "fill"} => ~NeedMove
      /\ pc'.hash \in {"enterBt", "enterHash", "move"} => NeedMove
  BY <1>1, <1>2, <1>3 DEF IInv, WindowRight
<1>6. pc'.main \notin {"wait", "stopped"} => pc.main \notin {"wait", "stopped"} \/ ~Streaming'
  BY <1>1, <1>2, <1>3 DEF Streaming
<1> QED
  BY <1>1, <1>2, <1>3, <1>4, <1>5, <1>6, SameData

LEMMA HashEndData ==
  ASSUME IInv, EndThread("hash", "endHash", "joinHash", "endBt"), pc.hash # "none"
  PROVE  Data'
<1>1. Control'
  BY HashEndControl
<1>0. Moved("main", "joinHash") /\ LinkBecomes("hash", [sync.hash EXCEPT !.exit = TRUE, !.canStart = TRUE])
      /\ UNCHANGED <<mf, buf, bt, main>>
  BY EndThreadEffect DEF IInv, Links, MainPcs
<1>2. /\ pc'.main = "joinHash" /\ pc'.bt = pc.bt /\ pc'.hash = pc.hash /\ sync'.bt = sync.bt
      /\ sync'.hash.needStart = sync.hash.needStart
      /\ sync'.hash.numProcessed = sync.hash.numProcessed /\ UNCHANGED <<mf, buf, bt, main>>
  BY <1>0, LinkFields DEF IInv, Moved, LinkBecomes, LinkType, Links, Consumer
<1>3. pc.main = "endHash"
  BY <1>2, EndThreadEffect DEF IInv, Links, MainPcs
<1>4. /\ Streaming' => Streaming
      /\ TreeLives' => /\ TreeLives /\ SameLink("hash")
                       /\ (Between' <=> Between) /\ (Filling' <=> Filling)
      /\ Streaming' /\ ~sync'.hash.needStart /\ pc'.bt # "wait" => SameLink("hash") /\ pc.bt # "wait"
      /\ Streaming' /\ pc'.main # "wait" /\ (pc'.main = "get" \/ ~sync'.bt.needStart)
           => SameLink("bt") /\ pc.main # "wait"
  BY <1>1, <1>2, <1>3 DEF Streaming, TreeLives, SameLink, Between, Filling
<1>5. /\ pc'.hash \in {"free", "fill"} => ~NeedMove
      /\ pc'.hash \in {"enterBt", "enterHash", "move"} => NeedMove
  BY <1>1, <1>2, <1>3 DEF IInv, WindowRight
<1>6. pc'.main \notin {"wait", "stopped"} => pc.main \notin {"wait", "stopped"} \/ ~Streaming'
  BY <1>1, <1>2, <1>3 DEF Streaming
<1> QED
  BY <1>1, <1>2, <1>3, <1>4, <1>5, <1>6, SameData

LEMMA HashNoEndData ==
  ASSUME IInv, EndThread("hash", "endHash", "joinHash", "endBt"), pc.hash = "none"
  PROVE  Data'
<1>1. Control'
  BY HashNoEndControl
<1>0. Moved("main", "endBt") /\ sync' = sync
      /\ UNCHANGED <<mf, buf, bt, main>>
  BY EndThreadEffect DEF IInv, Links, MainPcs
<1>2. /\ pc'.main = "endBt" /\ pc'.bt = pc.bt /\ pc'.hash = pc.hash /\ sync'.bt = sync.bt
      /\ sync'.hash = sync.hash /\ UNCHANGED <<mf, buf, bt, main>>
  BY <1>0, LinkFields DEF IInv, Moved, LinkBecomes, LinkType, Links, Consumer
<1>3. pc.main = "endHash"
  BY <1>2, EndThreadEffect DEF IInv, Links, MainPcs
<1>4. /\ Streaming' => Streaming
      /\ TreeLives' => /\ TreeLives /\ SameLink("hash")
                       /\ (Between' <=> Between) /\ (Filling' <=> Filling)
      /\ Streaming' /\ ~sync'.hash.needStart /\ pc'.bt # "wait" => SameLink("hash") /\ pc.bt # "wait"
      /\ Streaming' /\ pc'.main # "wait" /\ (pc'.main = "get" \/ ~sync'.bt.needStart)
           => SameLink("bt") /\ pc.main # "wait"
  BY <1>1, <1>2, <1>3 DEF Streaming, TreeLives, SameLink, Between, Filling
<1>5. /\ pc'.hash \in {"free", "fill"} => ~NeedMove
      /\ pc'.hash \in {"enterBt", "enterHash", "move"} => NeedMove
  BY <1>1, <1>2, <1>3 DEF IInv, WindowRight
<1>6. pc'.main \notin {"wait", "stopped"} => pc.main \notin {"wait", "stopped"} \/ ~Streaming'
  BY <1>1, <1>2, <1>3 DEF Streaming
<1> QED
  BY <1>1, <1>2, <1>3, <1>4, <1>5, <1>6, SameData

LEMMA HashJoinData ==
  ASSUME IInv, JoinThread("hash", "joinHash", "endBt")
  PROVE  Data'
<1>1. Control'
  BY HashJoinControl
<1>0. Moved("main", "endBt") /\ sync' = sync
      /\ UNCHANGED <<mf, buf, bt, main>>
  BY JoinThreadEffect DEF IInv, Links, MainPcs
<1>2. /\ pc'.main = "endBt" /\ pc'.bt = pc.bt /\ pc'.hash = pc.hash /\ sync'.bt = sync.bt
      /\ sync'.hash = sync.hash /\ UNCHANGED <<mf, buf, bt, main>>
  BY <1>0, LinkFields DEF IInv, Moved, LinkBecomes, LinkType, Links, Consumer
<1>3. pc.main = "joinHash"
  BY <1>2, JoinThreadEffect DEF IInv, Links, MainPcs
<1>4. /\ Streaming' => Streaming
      /\ TreeLives' => /\ TreeLives /\ SameLink("hash")
                       /\ (Between' <=> Between) /\ (Filling' <=> Filling)
      /\ Streaming' /\ ~sync'.hash.needStart /\ pc'.bt # "wait" => SameLink("hash") /\ pc.bt # "wait"
      /\ Streaming' /\ pc'.main # "wait" /\ (pc'.main = "get" \/ ~sync'.bt.needStart)
           => SameLink("bt") /\ pc.main # "wait"
  BY <1>1, <1>2, <1>3 DEF Streaming, TreeLives, SameLink, Between, Filling
<1>5. /\ pc'.hash \in {"free", "fill"} => ~NeedMove
      /\ pc'.hash \in {"enterBt", "enterHash", "move"} => NeedMove
  BY <1>1, <1>2, <1>3 DEF IInv, WindowRight
<1>6. pc'.main \notin {"wait", "stopped"} => pc.main \notin {"wait", "stopped"} \/ ~Streaming'
  BY <1>1, <1>2, <1>3 DEF Streaming
<1> QED
  BY <1>1, <1>2, <1>3, <1>4, <1>5, <1>6, SameData

LEMMA BtEndData ==
  ASSUME IInv, EndThread("bt", "endBt", "joinBt", "done"), pc.bt # "none"
  PROVE  Data'
<1>1. Control'
  BY BtEndControl
<1>0. Moved("main", "joinBt") /\ LinkBecomes("bt", [sync.bt EXCEPT !.exit = TRUE, !.canStart = TRUE])
      /\ UNCHANGED <<mf, buf, bt, main>>
  BY EndThreadEffect DEF IInv, Links, MainPcs
<1>2. /\ pc'.main = "joinBt" /\ pc'.bt = pc.bt /\ pc'.hash = pc.hash
      /\ sync'.bt.needStart = sync.bt.needStart /\ sync'.bt.numProcessed = sync.bt.numProcessed
      /\ sync'.hash = sync.hash /\ UNCHANGED <<mf, buf, bt, main>>
  BY <1>0, LinkFields DEF IInv, Moved, LinkBecomes, LinkType, Links, Consumer
<1>3. pc.main = "endBt"
  BY <1>2, EndThreadEffect DEF IInv, Links, MainPcs
<1>4. /\ Streaming' => Streaming
      /\ TreeLives' => /\ TreeLives /\ SameLink("hash")
                       /\ (Between' <=> Between) /\ (Filling' <=> Filling)
      /\ Streaming' /\ ~sync'.hash.needStart /\ pc'.bt # "wait" => SameLink("hash") /\ pc.bt # "wait"
      /\ Streaming' /\ pc'.main # "wait" /\ (pc'.main = "get" \/ ~sync'.bt.needStart)
           => SameLink("bt") /\ pc.main # "wait"
  BY <1>1, <1>2, <1>3 DEF Streaming, TreeLives, SameLink, Between, Filling
<1>5. /\ pc'.hash \in {"free", "fill"} => ~NeedMove
      /\ pc'.hash \in {"enterBt", "enterHash", "move"} => NeedMove
  BY <1>1, <1>2, <1>3 DEF IInv, WindowRight
<1>6. pc'.main \notin {"wait", "stopped"} => pc.main \notin {"wait", "stopped"} \/ ~Streaming'
  BY <1>1, <1>2, <1>3 DEF Streaming
<1> QED
  BY <1>1, <1>2, <1>3, <1>4, <1>5, <1>6, SameData

LEMMA BtNoEndData ==
  ASSUME IInv, EndThread("bt", "endBt", "joinBt", "done"), pc.bt = "none"
  PROVE  Data'
<1>1. Control'
  BY BtNoEndControl
<1>0. Moved("main", "done") /\ sync' = sync
      /\ UNCHANGED <<mf, buf, bt, main>>
  BY EndThreadEffect DEF IInv, Links, MainPcs
<1>2. /\ pc'.main = "done" /\ pc'.bt = pc.bt /\ pc'.hash = pc.hash /\ sync'.bt = sync.bt
      /\ sync'.hash = sync.hash /\ UNCHANGED <<mf, buf, bt, main>>
  BY <1>0, LinkFields DEF IInv, Moved, LinkBecomes, LinkType, Links, Consumer
<1>3. pc.main = "endBt"
  BY <1>2, EndThreadEffect DEF IInv, Links, MainPcs
<1>4. /\ Streaming' => Streaming
      /\ TreeLives' => /\ TreeLives /\ SameLink("hash")
                       /\ (Between' <=> Between) /\ (Filling' <=> Filling)
      /\ Streaming' /\ ~sync'.hash.needStart /\ pc'.bt # "wait" => SameLink("hash") /\ pc.bt # "wait"
      /\ Streaming' /\ pc'.main # "wait" /\ (pc'.main = "get" \/ ~sync'.bt.needStart)
           => SameLink("bt") /\ pc.main # "wait"
  BY <1>1, <1>2, <1>3 DEF Streaming, TreeLives, SameLink, Between, Filling
<1>5. /\ pc'.hash \in {"free", "fill"} => ~NeedMove
      /\ pc'.hash \in {"enterBt", "enterHash", "move"} => NeedMove
  BY <1>1, <1>2, <1>3 DEF IInv, WindowRight
<1>6. pc'.main \notin {"wait", "stopped"} => pc.main \notin {"wait", "stopped"} \/ ~Streaming'
  BY <1>1, <1>2, <1>3 DEF Streaming
<1> QED
  BY <1>1, <1>2, <1>3, <1>4, <1>5, <1>6, SameData

LEMMA BtJoinData ==
  ASSUME IInv, JoinThread("bt", "joinBt", "done")
  PROVE  Data'
<1>1. Control'
  BY BtJoinControl
<1>0. Moved("main", "done") /\ sync' = sync
      /\ UNCHANGED <<mf, buf, bt, main>>
  BY JoinThreadEffect DEF IInv, Links, MainPcs
<1>2. /\ pc'.main = "done" /\ pc'.bt = pc.bt /\ pc'.hash = pc.hash /\ sync'.bt = sync.bt
      /\ sync'.hash = sync.hash /\ UNCHANGED <<mf, buf, bt, main>>
  BY <1>0, LinkFields DEF IInv, Moved, LinkBecomes, LinkType, Links, Consumer
<1>3. pc.main = "joinBt"
  BY <1>2, JoinThreadEffect DEF IInv, Links, MainPcs
<1>4. /\ Streaming' => Streaming
      /\ TreeLives' => /\ TreeLives /\ SameLink("hash")
                       /\ (Between' <=> Between) /\ (Filling' <=> Filling)
      /\ Streaming' /\ ~sync'.hash.needStart /\ pc'.bt # "wait" => SameLink("hash") /\ pc.bt # "wait"
      /\ Streaming' /\ pc'.main # "wait" /\ (pc'.main = "get" \/ ~sync'.bt.needStart)
           => SameLink("bt") /\ pc.main # "wait"
  BY <1>1, <1>2, <1>3 DEF Streaming, TreeLives, SameLink, Between, Filling
<1>5. /\ pc'.hash \in {"free", "fill"} => ~NeedMove
      /\ pc'.hash \in {"enterBt", "enterHash", "move"} => NeedMove
  BY <1>1, <1>2, <1>3 DEF IInv, WindowRight
<1>6. pc'.main \notin {"wait", "stopped"} => pc.main \notin {"wait", "stopped"} \/ ~Streaming'
  BY <1>1, <1>2, <1>3 DEF Streaming
<1> QED
  BY <1>1, <1>2, <1>3, <1>4, <1>5, <1>6, SameData
-----------------------------------------------------------------------------
(* Steps of the encoder from block to block.                               *)

LEMMA EncoderSide ==
  ASSUME IInv, UNCHANGED <<mf, buf, bt>>, sync'.hash = sync.hash, pc'.bt = pc.bt, pc'.hash = pc.hash,
         main'.len = main.len, main'.lzPos \in Nat, main'.lzPos >= main.lzPos,
         Streaming, Streaming', pc.main \notin {"wait", "stopped"}, pc'.main \notin {"wait", "stopped"}
  PROVE  /\ WindowRight' /\ HashRing' /\ TreeRight' /\ FillRight' /\ Reach'
         /\ (TreeLives' <=> TreeLives) /\ TreeStart' = TreeStart /\ (AtEnd' <=> AtEnd)
         /\ \A n : /\ MainAt(n)' = MainAt(n) /\ (Matches(n)' <=> Matches(n))
                   /\ MatchesOf(n)' = MatchesOf(n) /\ StartOf(MatchesOf(n))' = StartOf(MatchesOf(n))
<1>1. (Between' <=> Between) /\ (Filling' <=> Filling) /\ (TreeLives' <=> TreeLives)
  BY DEF Between, Filling, TreeLives
<1>2. /\ HeldHeads' = HeldHeads /\ TreeAt' = TreeAt /\ (TreeAtEnd' <=> TreeAtEnd)
      /\ TreeStart' = TreeStart
      /\ \A n : MainAt(n)' = MainAt(n) /\ (Matches(n)' <=> Matches(n))
  BY <1>1, SameTree
<1>3. WindowRight'
  BY DEF IInv, WindowRight, NeedMove
<1>4. HashRing'
  <2> SUFFICES ASSUME Streaming', ~sync'.hash.needStart, pc'.bt # "wait",
                      NEW n \in (sync'.hash.numProcessed - 1)..(mf'.blocks - 1)
               PROVE  Heads(n)'
    BY DEF HashRing
  <2>1. Heads(n)
    BY DEF IInv, HashRing
  <2> QED
    BY <2>1, SameBlocks
<1>5. TreeRight'
  BY <1>1, <1>2 DEF IInv, TreeRight, InHeads, Fresh, NewWindow
<1>6. FillRight'
  BY <1>1, <1>2 DEF IInv, FillRight
<1>7. Reach'
  BY <1>1, Fields, Sizes DEF IInv, Reach
<1>8. \A n : MatchesOf(n)' = MatchesOf(n) /\ StartOf(MatchesOf(n))' = StartOf(MatchesOf(n))
  BY DEF MatchesOf, StartOf
<1> QED
  BY <1>1, <1>2, <1>3, <1>4, <1>5, <1>6, <1>7, <1>8 DEF AtEnd

LEMMA BtGetFirstData ==
  ASSUME IInv, GetFirst("bt")
  PROVE  Data'
<1>1. /\ pc.main = "get" /\ sync.bt.needStart /\ pc'.main = "started" /\ pc'.bt = pc.bt
      /\ pc'.hash = pc.hash /\ sync'.hash = sync.hash /\ UNCHANGED <<mf, buf, bt, main>>
      /\ sync'.bt.numProcessed = 1 /\ ~sync'.bt.needStart
  <2>1. /\ pc.main = "get" /\ sync.bt.needStart /\ Moved("main", "started")
        /\ LinkBecomes("bt", [sync.bt EXCEPT !.numProcessed = 1, !.needStart = FALSE,
              !.stopWriting = FALSE, !.exit = FALSE, !.wasStarted = FALSE, !.wasStopped = FALSE,
              !.canStart = TRUE])
        /\ UNCHANGED <<mf, buf, bt, main>>
    BY GetFirstEffect DEF Links, Consumer, IInv
  <2>2. sync.bt \in LinkType
    BY LinkFields DEF IInv, Links
  <2> QED
    BY <2>1, <2>2, SMTT(30), ZenonT(30) DEF Moved, LinkBecomes, LinkType
<1>2. Streaming /\ Streaming'
  BY <1>1 DEF Streaming
<1>3. pc.bt = "start" /\ bt.blocks = 0 /\ main.lzPos = 0
  BY <1>1, <1>2 DEF IInv, LinkRight, Resting, MainRight, NewTree
<1>4. /\ WindowRight' /\ HashRing' /\ TreeRight' /\ FillRight' /\ Reach'
      /\ \A n : MainAt(n)' = MainAt(n)
  BY <1>1, <1>2, EncoderSide, Fields DEF IInv
<1>5. BtRing'
  BY <1>1, <1>3 DEF BtRing
<1>6. MainAt(0) = 0
  <2>1. sync.hash.needStart
    BY <1>2, <1>3 DEF IInv, LinkRight, Handshake, BusyPcs, Consumer
  <2> QED
    BY <1>3, <2>1 DEF MainAt, TreeStart, TreeAt, Filling
<1>7. MainRight'
  <2>1. sync'.bt.numProcessed - 1 = 0
    BY <1>1
  <2>2. MainAt(0)' = 0
    BY <1>4, <1>6
  <2>3. MainAt(sync.bt.numProcessed - 1)' = 0
    BY <2>1, <2>2 DEF MainAt, MatchesOf
  <2> QED
    BY <1>1, <1>3, <2>3 DEF MainRight
<1> QED
  BY <1>4, <1>5, <1>7 DEF Data

LEMMA BtGetNextData ==
  ASSUME IInv, GetNext("bt")
  PROVE  Data'
<1>0. PICK n \in Int : n = sync.bt.numProcessed - 1 /\ sync.bt.numProcessed \in Nat
  BY LinkFields DEF IInv, Links
<1>1. /\ pc.main = "get" /\ ~sync.bt.needStart /\ pc'.main = "filled" /\ pc'.bt = pc.bt
      /\ pc'.hash = pc.hash /\ sync'.hash = sync.hash /\ UNCHANGED <<mf, buf, bt, main>>
      /\ sync'.bt.numProcessed = sync.bt.numProcessed + 1 /\ ~sync'.bt.needStart
  BY GetNextEffect, LinkFields DEF IInv, Moved, LinkBecomes, LinkType, Links, Consumer
<1>2. Streaming /\ Streaming'
  BY <1>1 DEF Streaming
<1>3. n \in Nat /\ n < bt.blocks /\ bt.blocks \in Nat
  BY <1>0, <1>1, <1>2, Taken DEF NotTaken, Consumer, Links, Blocks
<1>4. Matches(n)
  BY <1>0, <1>1, <1>2, <1>3 DEF IInv, BtRing
<1>5. /\ WindowRight' /\ HashRing' /\ TreeRight' /\ FillRight' /\ Reach'
      /\ \A m : MainAt(m)' = MainAt(m) /\ (Matches(m)' <=> Matches(m))
  BY <1>1, <1>2, EncoderSide, Fields DEF IInv
<1>6. BtRing'
  <2> SUFFICES ASSUME NEW m \in (sync'.bt.numProcessed - 1)..(bt'.blocks - 1)
               PROVE  Matches(m)'
    BY DEF BtRing
  <2>1. m \in n..(bt.blocks - 1)
    BY <1>0, <1>1, <1>3
  <2>2. Matches(m)
    BY <1>0, <1>1, <1>2, <2>1 DEF IInv, BtRing
  <2> QED
    BY <1>5, <2>2
<1>7. main.lzPos = MainAt(n + 1)
  <2>1. MainAt(n + 1) = StartOf(MatchesOf(n)) + MatchesOf(n).num
    BY <1>4 DEF Matches
  <2>2. main.left = 0 /\ main.lzPos = StartOf(MatchesOf(n)) + MatchesOf(n).num - main.left
    BY <1>0, <1>1, <1>2 DEF IInv, MainRight
  <2>3. MatchesOf(n).num \in Nat /\ StartOf(MatchesOf(n)) \in Int
    BY <1>4, Fields, Sizes DEF Matches, StartOf, IInv
  <2> QED
    BY <2>1, <2>2, <2>3
<1>8. MainRight'
  <2>1. sync'.bt.numProcessed - 1 = n + 1
    BY <1>0, <1>1, <1>3
  <2>2. MainAt(n + 1)' = MainAt(sync.bt.numProcessed - 1)'
    BY <2>1 DEF MainAt, MatchesOf
  <2> QED
    BY <1>1, <1>5, <1>7, <2>1, <2>2 DEF MainRight
<1> QED
  BY <1>5, <1>6, <1>8 DEF Data

LEMMA BtEnterCSData ==
  ASSUME IInv, EnterCS("bt")
  PROVE  Data'
<1>0. PICK n \in Nat : n = sync.bt.numProcessed - 1 /\ sync.bt.numProcessed \in Nat
  BY EncoderEnters, LinkFields DEF IInv, Links
<1>1. /\ pc.main = "enter" /\ ~sync.bt.needStart /\ pc'.main = "got" /\ pc'.bt = pc.bt
      /\ pc'.hash = pc.hash /\ sync'.hash = sync.hash /\ UNCHANGED <<mf, buf>>
      /\ sync'.bt.numProcessed = sync.bt.numProcessed /\ ~sync'.bt.needStart
  <2>1. /\ pc.main = "enter" /\ Moved("main", "got")
        /\ LinkBecomes("bt", [sync.bt EXCEPT !.cs = "main", !.csWasEntered = TRUE])
        /\ UNCHANGED <<mf, buf>>
    BY EnterCSEffect DEF Links, Consumer, IInv
  <2>2. sync.bt \in LinkType /\ ~sync.bt.needStart
    BY EncoderEnters, LinkFields DEF IInv, Links
  <2> QED
    BY <2>1, <2>2 DEF Moved, LinkBecomes, LinkType
<1>2. /\ Streaming /\ Streaming' /\ n < bt.blocks /\ Matches(n) /\ bt' = bt
      /\ main'.len = main.len /\ main'.lzPos = main.lzPos /\ main'.slot = n % BtNumBlocks
      /\ main'.left = MatchesOf(n).num /\ main'.avail = MatchesOf(n).avail
  BY <1>0, <1>1, EncoderEnters DEF Streaming
<1>3. /\ WindowRight' /\ HashRing' /\ TreeRight' /\ FillRight' /\ Reach'
      /\ \A m : MainAt(m)' = MainAt(m) /\ (Matches(m)' <=> Matches(m))
      /\ \A m : MatchesOf(m)' = MatchesOf(m) /\ StartOf(MatchesOf(m))' = StartOf(MatchesOf(m))
  BY <1>1, <1>2, EncoderSide, Fields DEF IInv
<1>4. BtRing'
  <2> SUFFICES ASSUME NEW m \in (sync'.bt.numProcessed - 1)..(bt'.blocks - 1)
               PROVE  Matches(m)'
    BY DEF BtRing
  <2>1. Matches(m)
    BY <1>1, <1>2 DEF IInv, BtRing
  <2> QED
    BY <1>3, <2>1
<1>5. main.lzPos = StartOf(MatchesOf(n))
  <2>1. main.lzPos = MainAt(n)
    BY <1>0, <1>1, <1>2 DEF IInv, MainRight
  <2> QED
    BY <1>2, <2>1 DEF MainAt
<1>6. StartOf(MatchesOf(n)) \in Int /\ MatchesOf(n).num \in Nat /\ MatchesOf(n).avail \in Nat
  BY <1>2, Fields, Sizes DEF Matches, StartOf, IInv
<1>7. MainRight'
  <2>1. sync'.bt.numProcessed - 1 = n
    BY <1>0, <1>1
  <2>2. /\ MatchesOf(n)' = MatchesOf(n) /\ StartOf(MatchesOf(n))' = StartOf(MatchesOf(n))
    BY <1>3
  <2>3. MatchesOf(sync.bt.numProcessed - 1)' = MatchesOf(n)
    BY <2>1, <2>2 DEF MatchesOf
  <2>4. StartOf(MatchesOf(sync.bt.numProcessed - 1))' = StartOf(MatchesOf(n))
    BY <2>2, <2>3 DEF StartOf
  <2>5. /\ main'.left <= MatchesOf(n).num
        /\ main'.lzPos = StartOf(MatchesOf(n)) + MatchesOf(n).num - main'.left
        /\ main'.avail = MatchesOf(n).avail - (MatchesOf(n).num - main'.left)
    BY <1>2, <1>5, <1>6
  <2> QED
    BY <1>1, <1>2, <2>1, <2>3, <2>4, <2>5 DEF MainRight
<1> QED
  BY <1>3, <1>4, <1>7 DEF Data

(* What the encoder sees of the block it is in.                            *)
LEMMA EncoderIn ==
  ASSUME IInv, pc.main \in {"got", "get", "stop"}, ~sync.bt.needStart
  PROVE  /\ Streaming /\ sync.bt.numProcessed - 1 \in Nat /\ sync.bt.numProcessed - 1 < bt.blocks
         /\ Matches(sync.bt.numProcessed - 1)
         /\ main.lzPos + main.avail = StartOf(MatchesOf(sync.bt.numProcessed - 1))
                                       + MatchesOf(sync.bt.numProcessed - 1).avail
         /\ main.left <= main.avail /\ main.lzPos + main.avail <= mf.streamPos
         /\ main.avail = 0 => AtEnd /\ main.lzPos = mf.streamPos
<1> DEFINE n == sync.bt.numProcessed - 1
           c == MatchesOf(n)
<1>1. Streaming
  BY DEF Streaming
<1>2. n \in Nat /\ n < bt.blocks /\ bt.blocks \in Nat
  BY <1>1, Taken DEF NotTaken, Consumer, Links, Blocks
<1>3. Matches(n)
  BY <1>1, <1>2 DEF IInv, BtRing
<1>4. /\ c.num \in 0..BtBlockSize /\ c.avail \in Nat /\ c.num <= c.avail /\ StartOf(c) \in Int
      /\ StartOf(c) + c.avail <= mf.streamPos
      /\ c.avail - c.num <= MatchMaxLen => AtEnd /\ StartOf(c) + c.avail = mf.streamPos
  BY <1>3, Fields, Sizes DEF Matches, StartOf, IInv
<1>5. /\ main.left <= c.num /\ main.lzPos = StartOf(c) + c.num - main.left
      /\ main.avail = c.avail - (c.num - main.left)
  BY <1>1 DEF IInv, MainRight
<1>6. main.left \in Nat /\ main.avail \in Nat /\ main.lzPos \in Nat /\ mf.streamPos \in Nat
  BY Fields DEF IInv
<1> HIDE DEF n, c
<1>7. main.lzPos + main.avail = StartOf(c) + c.avail /\ main.left <= main.avail
  BY <1>4, <1>5, <1>6, Sizes
<1>8. main.avail = 0 => c.avail - c.num <= MatchMaxLen
  BY <1>4, <1>5, <1>6, Sizes
<1> QED
  BY <1>1, <1>2, <1>3, <1>4, <1>6, <1>7, <1>8 DEF n, c

LEMMA GetMatchesData ==
  ASSUME IInv, GetMatches
  PROVE  Data' /\ main.avail > 0
<1>1. pc.main = "got" /\ main.left > 0 /\ ~sync.bt.needStart
  <2>1. pc.main = "got" /\ main.left > 0
    BY DEF GetMatches
  <2> QED
    BY <2>1, ConsumerActive DEF Consumer, Links
<1>2. Streaming /\ main.avail > 0
  BY <1>1, EncoderIn, Fields DEF IInv
<1>3. /\ main'.len = main.len /\ main'.slot = main.slot
      /\ main'.left = main.left - 1 /\ main'.avail = main.avail - 1 /\ main'.lzPos = main.lzPos + 1
      /\ UNCHANGED <<pc, sync, mf, buf, bt>>
  BY <1>2, GetMatchesEffect DEF IInv
<1>4. main.left \in Nat /\ main.avail \in Nat /\ main.lzPos \in Nat
  BY Fields DEF IInv
<1>5. /\ WindowRight' /\ HashRing' /\ TreeRight' /\ FillRight' /\ Reach'
      /\ \A m : MainAt(m)' = MainAt(m) /\ (Matches(m)' <=> Matches(m))
  BY <1>1, <1>2, <1>3, <1>4, EncoderSide DEF Streaming
<1>6. BtRing'
  BY <1>3, <1>5 DEF BtRing, IInv, Streaming
<1>7. MainRight'
  <2> DEFINE c == MatchesOf(sync.bt.numProcessed - 1)
  <2>1. c' = c /\ StartOf(c)' = StartOf(c)
    BY <1>3 DEF MatchesOf, StartOf
  <2>2. /\ main.slot = (sync.bt.numProcessed - 1) % BtNumBlocks
        /\ main.left <= c.num /\ main.lzPos = StartOf(c) + c.num - main.left
        /\ main.avail = c.avail - (c.num - main.left)
    BY <1>1, <1>2 DEF IInv, MainRight
  <2>3. c.num \in Nat /\ c.avail \in Nat /\ StartOf(c) \in Int
    BY <1>1, EncoderIn, Fields, Sizes DEF Matches, StartOf, IInv
  <2> HIDE DEF c
  <2>4. /\ main'.left <= c.num /\ main'.lzPos = StartOf(c) + c.num - main'.left
        /\ main'.avail = c.avail - (c.num - main'.left)
    BY <1>3, <1>4, <2>2, <2>3
  <2> QED
    BY <1>1, <1>3, <2>1, <2>2, <2>4 DEF MainRight, c
<1> QED
  BY <1>2, <1>5, <1>6, <1>7 DEF Data

LEMMA GetNumAvailableBytesData ==
  ASSUME IInv, GetNumAvailableBytes
  PROVE  Data'
<1>1. /\ pc.main = "got" /\ main.left = 0 /\ pc'.main = "get" /\ pc'.bt = pc.bt /\ pc'.hash = pc.hash
      /\ UNCHANGED <<sync, mf, buf, bt, main>>
  BY MainMoves DEF IInv, Moved
<1>2. Streaming /\ Streaming' /\ ~sync.bt.needStart
  BY <1>1, ConsumerActive DEF Consumer, Links, Streaming
<1>3. /\ WindowRight' /\ HashRing' /\ TreeRight' /\ FillRight' /\ Reach'
      /\ \A m : MainAt(m)' = MainAt(m) /\ (Matches(m)' <=> Matches(m))
  BY <1>1, <1>2, EncoderSide, Fields DEF IInv
<1>4. BtRing'
  BY <1>1, <1>2, <1>3 DEF BtRing, IInv
<1>5. MainRight'
  BY <1>1, <1>2 DEF MainRight, IInv, MatchesOf, StartOf
<1> QED
  BY <1>3, <1>4, <1>5 DEF Data

-----------------------------------------------------------------------------
(* Steps of the tree thread in its stream.                                 *)

LEMMA TreeSide ==
  ASSUME IInv, UNCHANGED <<mf, main>>, sync'.bt = sync.bt, pc'.main = pc.main, pc'.hash = pc.hash,
         bt'.blocks = bt.blocks, Streaming, pc.bt # "start", TreeLives, TreeStart' = TreeStart,
         pc.main # "wait" => \A n \in (sync.bt.numProcessed - 1)..(bt.blocks - 1) :
                                MatchesOf(n)' = MatchesOf(n)
  PROVE  WindowRight' /\ BtRing' /\ MainRight'
<1>1. ~sync.bt.needStart /\ Streaming'
  BY DEF IInv, LinkRight, Resting, Links, Streaming
<1>2. PICK k \in Int : k = sync.bt.numProcessed - 1 /\ sync.bt.numProcessed \in Nat
  BY LinkFields DEF IInv, Links
<1>3. WindowRight'
  BY DEF IInv, WindowRight, NeedMove
<1>4. CASE pc.main = "wait"
  BY <1>1, <1>3, <1>4 DEF BtRing, MainRight
<1>5. CASE pc.main # "wait"
  <2>1. k \in Nat /\ bt.blocks \in Nat /\ k <= bt.blocks /\ (NotTaken("bt") = 0 => k < bt.blocks)
    BY <1>1, <1>2, <1>5, Taken DEF Links, Consumer, Blocks
  <2>2. \A n \in k..(bt.blocks - 1) : /\ MatchesOf(n)' = MatchesOf(n)
                                      /\ StartOf(MatchesOf(n))' = StartOf(MatchesOf(n))
    BY <1>2, <1>5 DEF StartOf
  <2>3. \A n \in k..bt.blocks : MainAt(n)' = MainAt(n)
    <3> SUFFICES ASSUME NEW n \in k..bt.blocks PROVE MainAt(n)' = MainAt(n)
      OBVIOUS
    <3>1. CASE n < bt.blocks
      <4>1. n \in k..(bt.blocks - 1)
        BY <2>1, <3>1
      <4> QED
        BY <2>2, <3>1, <4>1 DEF MainAt
    <3>2. CASE ~(n < bt.blocks)
      BY <3>2 DEF MainAt
    <3> QED
      BY <3>1, <3>2
  <2>4. BtRing'
    <3> SUFFICES ASSUME NEW n \in k..(bt.blocks - 1) PROVE Matches(n)'
      BY <1>2 DEF BtRing
    <3>1. Matches(n)
      BY <1>1, <1>2, <1>5 DEF IInv, BtRing
    <3>2. n + 1 \in k..bt.blocks
      BY <2>1
    <3>3. MainAt(n + 1)' = MainAt(n + 1)
      BY <2>3, <3>2
    <3>4. /\ MatchesOf(n)' = MatchesOf(n) /\ StartOf(MatchesOf(n))' = StartOf(MatchesOf(n))
      BY <2>2
    <3> QED
      BY <3>1, <3>3, <3>4 DEF Matches, AtEnd
  <2>5. CASE pc.main \in {"started", "filled", "enter"}
    <3>1. main.lzPos = MainAt(k)
      BY <1>1, <1>2, <2>5, Streaming DEF IInv, MainRight
    <3>2. MainAt(k)' = MainAt(k)
      BY <2>1, <2>3
    <3>3. MainAt(sync.bt.numProcessed - 1)' = MainAt(k)'
      BY <1>2 DEF MainAt, MatchesOf
    <3>4. MainRight'
      BY <1>1, <2>5, <3>1, <3>2, <3>3 DEF MainRight
    <3> QED
      BY <1>3, <2>4, <3>4
  <2>6. CASE pc.main \in {"got", "get", "stop"}
    <3>1. k \in k..(bt.blocks - 1)
      BY <2>1, <2>6 DEF NotTaken, Consumer
    <3>2. MatchesOf(k)' = MatchesOf(k) /\ StartOf(MatchesOf(k))' = StartOf(MatchesOf(k))
      BY <2>2, <3>1
    <3>3. MatchesOf(sync.bt.numProcessed - 1)' = MatchesOf(k) /\ MatchesOf(sync.bt.numProcessed - 1) = MatchesOf(k)
      BY <1>2, <3>2 DEF MatchesOf
    <3>4. StartOf(MatchesOf(sync.bt.numProcessed - 1))' = StartOf(MatchesOf(k))
      BY <3>2, <3>3 DEF StartOf
    <3>5. LET c == MatchesOf(k) IN
          /\ main.slot = k % BtNumBlocks
          /\ main.left <= c.num /\ main.lzPos = StartOf(c) + c.num - main.left
          /\ main.avail = c.avail - (c.num - main.left)
          /\ pc.main = "get" => main.left = 0
      BY <1>1, <1>2, <2>6, <3>3 DEF IInv, MainRight
    <3>6. MainRight'
      BY <1>1, <1>2, <2>6, <3>3, <3>4, <3>5 DEF MainRight
    <3> QED
      BY <1>3, <2>4, <3>6
  <2>7. CASE pc.main = "stopped"
    BY <1>3, <2>4, <2>7 DEF MainRight
  <2> QED
    BY <1>5, <2>5, <2>6, <2>7 DEF Streaming
<1> QED
  BY <1>4, <1>5

LEMMA HashGetFirstData ==
  ASSUME IInv, GetFirst("hash")
  PROVE  Data'
<1>1. /\ pc.bt = "get" /\ sync.hash.needStart /\ pc'.bt = "started" /\ pc'.main = pc.main
      /\ pc'.hash = pc.hash /\ sync'.bt = sync.bt /\ UNCHANGED <<mf, buf, bt, main>>
      /\ sync'.hash.numProcessed = 1 /\ ~sync'.hash.needStart
  <2>1. /\ pc.bt = "get" /\ sync.hash.needStart /\ Moved("bt", "started")
        /\ LinkBecomes("hash", [sync.hash EXCEPT !.numProcessed = 1, !.needStart = FALSE,
              !.stopWriting = FALSE, !.exit = FALSE, !.wasStarted = FALSE, !.wasStopped = FALSE,
              !.canStart = TRUE])
        /\ UNCHANGED <<mf, buf, bt, main>>
    BY GetFirstEffect DEF Links, Consumer, IInv
  <2>2. sync.hash \in LinkType
    BY LinkFields DEF IInv, Links
  <2> QED
    BY <2>1, <2>2, SMTT(30), ZenonT(30) DEF Moved, LinkBecomes, LinkType
<1>2. Streaming /\ Streaming' /\ TreeLives /\ TreeLives' /\ Filling /\ Filling' /\ Between' /\ ~Between
  BY <1>1, ProducerActive DEF Streaming, TreeLives, Filling, Between, Links
<1>3. Fresh /\ mf.blocks = 0 /\ mf.pos = 0
  BY <1>1, <1>2 DEF IInv, TreeRight, Fresh, NewWindow
<1>4. TreeAt = 0 /\ TreeAt' = 0 /\ TreeStart' = TreeStart
  BY <1>1, <1>2, <1>3 DEF TreeAt, HashAt, TreeStart
<1>5. WindowRight' /\ BtRing' /\ MainRight'
  BY <1>1, <1>2, <1>4, TreeSide DEF MatchesOf
<1>6. HashRing'
  BY <1>1, <1>3 DEF HashRing
<1>7. TreeRight'
  BY <1>1, <1>2, <1>3, <1>4 DEF TreeRight, Fresh
<1>8. FillRight'
  BY <1>1, <1>2, <1>4 DEF IInv, FillRight, TreeAtEnd, AtEnd
<1>9. Reach'
  BY <1>1, <1>2 DEF IInv, Reach
<1> QED
  BY <1>5, <1>6, <1>7, <1>8, <1>9 DEF Data

LEMMA HashGetNextData ==
  ASSUME IInv, GetNext("hash")
  PROVE  Data'
<1>0. PICK n \in Int : n = sync.hash.numProcessed - 1 /\ sync.hash.numProcessed \in Nat
  BY LinkFields DEF IInv, Links
<1>1. /\ pc.bt = "get" /\ ~sync.hash.needStart /\ pc'.bt = "filled" /\ pc'.main = pc.main
      /\ pc'.hash = pc.hash /\ sync'.bt = sync.bt /\ UNCHANGED <<mf, buf, bt, main>>
      /\ sync'.hash.numProcessed = sync.hash.numProcessed + 1 /\ ~sync'.hash.needStart
  BY GetNextEffect, LinkFields DEF IInv, Moved, LinkBecomes, LinkType, Links, Consumer
<1>2. Streaming /\ Streaming' /\ TreeLives /\ TreeLives' /\ Filling /\ Filling' /\ Between' /\ ~Between
  BY <1>1, ConsumerStarted DEF Streaming, TreeLives, Filling, Between, Links, Consumer
<1>3. /\ n \in Nat /\ Heads(n) /\ InHeads /\ n < mf.blocks /\ bt.left = 0 /\ bt.avail \in Nat
      /\ TreeAt = HeldHeads.from + HeldHeads.avail - bt.avail
  BY <1>0, <1>1, <1>2, TreeInHeads, Fields DEF IInv, TreeRight
<1>4. HeldHeads = HeadsOf(n)
  BY <1>0 DEF HeldHeads
<1>5. HashAt(n + 1) = TreeAt
  <2> DEFINE b == HeadsOf(n)
  <2>1. /\ HashAt(n + 1) = b.from + Passed(b) /\ b.from \in Nat /\ b.avail \in Nat
        /\ b.num = NumHeads(b.avail)
    BY <1>3 DEF Heads
  <2>2. b.num \in Nat
    BY <2>1, HeadsInBlock, Sizes
  <2>3. /\ b.avail >= NumHashBytes => b.avail - bt.avail = b.num
        /\ b.avail < NumHashBytes => bt.avail = 0
    BY <1>1, <1>3, <1>4, <2>2 DEF InHeads
  <2>4. TreeAt = b.from + b.avail - bt.avail
    BY <1>3, <1>4
  <2> HIDE DEF b
  <2>5. b.from + Passed(b) = b.from + b.avail - bt.avail
    BY <1>3, <2>1, <2>2, <2>3, Sizes DEF Passed
  <2> QED
    BY <2>1, <2>4, <2>5 DEF b
<1>6. TreeAt' = TreeAt
  <2>1. sync'.hash.numProcessed - 1 = n + 1
    BY <1>0, <1>1
  <2>2. TreeAt' = HashAt(n + 1)
    BY <1>1, <1>2, <2>1 DEF TreeAt, HashAt, HeadsOf
  <2> QED
    BY <1>5, <2>2
<1>7. TreeStart' = TreeStart /\ (TreeAtEnd' <=> TreeAtEnd)
  BY <1>1, <1>2, <1>6 DEF TreeStart, TreeAtEnd, AtEnd
<1>8. WindowRight' /\ BtRing' /\ MainRight'
  BY <1>1, <1>2, <1>7, TreeSide DEF MatchesOf
<1>9. HashRing'
  <2> SUFFICES ASSUME NEW m \in (sync'.hash.numProcessed - 1)..(mf'.blocks - 1)
               PROVE  Heads(m)'
    BY DEF HashRing
  <2>1. m \in (sync.hash.numProcessed - 1)..(mf.blocks - 1)
    BY <1>0, <1>1, <1>3, Fields DEF IInv
  <2>2. Heads(m)
    BY <1>1, <1>2, <2>1 DEF IInv, HashRing
  <2> QED
    BY <1>1, <2>2, SameBlocks
<1>10. TreeRight'
  BY <1>1, <1>2, <1>3, <1>6, <1>7 DEF IInv, TreeRight
<1>11. FillRight'
  BY <1>1, <1>2, <1>6, <1>7 DEF IInv, FillRight
<1>12. Reach'
  BY <1>1, <1>2 DEF IInv, Reach
<1> QED
  BY <1>8, <1>9, <1>10, <1>11, <1>12 DEF Data

LEMMA HashEnterCSData ==
  ASSUME IInv, EnterCS("hash")
  PROVE  Data'
<1>0. PICK n \in Nat : n = sync.hash.numProcessed - 1 /\ sync.hash.numProcessed \in Nat
  BY TreeEnters, LinkFields DEF IInv, Links
<1>1. /\ pc.bt = "enter" /\ ~sync.hash.needStart /\ pc'.bt = "got" /\ pc'.main = pc.main
      /\ pc'.hash = pc.hash /\ sync'.bt = sync.bt /\ UNCHANGED <<mf, buf, main>>
      /\ sync'.hash.numProcessed = sync.hash.numProcessed /\ ~sync'.hash.needStart
  <2>1. /\ pc.bt = "enter" /\ Moved("bt", "got")
        /\ LinkBecomes("hash", [sync.hash EXCEPT !.cs = "bt", !.csWasEntered = TRUE])
        /\ UNCHANGED <<mf, buf>>
    BY EnterCSEffect DEF Links, Consumer, IInv
  <2>2. sync.hash \in LinkType /\ ~sync.hash.needStart /\ main' = main
    BY TreeEnters, LinkFields DEF IInv, Links
  <2> QED
    BY <2>1, <2>2 DEF Moved, LinkBecomes, LinkType
<1>2. /\ Streaming /\ TreeLives /\ Heads(n) /\ n < mf.blocks
      /\ bt'.blocks = bt.blocks /\ bt'.pos = bt.pos /\ bt'.slot = n % HashNumBlocks
      /\ bt'.left = HeadsOf(n).num /\ bt'.avail = HeadsOf(n).avail /\ bt'.first = bt.first
      /\ bt'.count = bt.count /\ bt'.availOut = bt.count + HeadsOf(n).avail
  BY <1>0, TreeEnters DEF HeldHeads
<1>3. Streaming' /\ TreeLives' /\ Filling /\ Filling' /\ Between /\ ~Between'
  BY <1>1, <1>2 DEF Streaming, TreeLives, Filling, Between
<1>4. /\ HeldHeads' = HeadsOf(n) /\ HeadsOf(n).from \in Nat /\ HeadsOf(n).avail \in Nat
      /\ HeadsOf(n).num = NumHeads(HeadsOf(n).avail) /\ HeadsOf(n).num \in Nat
      /\ HeadsOf(n).from + HeadsOf(n).avail <= mf.streamPos
      /\ HeadsOf(n).num <= HeadsOf(n).avail
      /\ HeadsOf(n).avail < NumHashBytes => HeadsOf(n).num = 0
  BY <1>0, <1>1, <1>2, HeadsInBlock, Sizes DEF HeldHeads, HeadsOf, Heads
<1>5. TreeAt = HeadsOf(n).from /\ TreeAt' = TreeAt
  <2>1. TreeAt = HeadsOf(n).from
    BY <1>0, <1>1, <1>2, <1>3 DEF TreeAt, HashAt
  <2>2. TreeAt' = HeadsOf(n).from + HeadsOf(n).avail - HeadsOf(n).avail
    BY <1>1, <1>2, <1>3, <1>4 DEF TreeAt
  <2> QED
    BY <1>4, <2>1, <2>2
<1>6. TreeStart' = TreeStart
  BY <1>2, <1>3, <1>5 DEF TreeStart
<1>7. TreeAtEnd => TreeAtEnd'
  <2> SUFFICES ASSUME TreeAtEnd PROVE TreeAtEnd'
    OBVIOUS
  <2>1. HeadsOf(n).avail = 0 /\ HeadsOf(n).num = 0 /\ AtEnd /\ TreeAt = mf.streamPos
    BY <1>4, <1>5, Fields DEF TreeAtEnd, IInv
  <2> QED
    BY <1>1, <1>2, <1>5, <2>1 DEF TreeAtEnd, AtEnd
<1>8. WindowRight' /\ BtRing' /\ MainRight'
  BY <1>1, <1>2, <1>6, TreeSide DEF MatchesOf
<1>9. HashRing'
  <2> SUFFICES ASSUME NEW m \in (sync'.hash.numProcessed - 1)..(mf'.blocks - 1)
               PROVE  Heads(m)'
    BY DEF HashRing
  <2>1. Heads(m)
    BY <1>1, <1>2 DEF IInv, HashRing
  <2> QED
    BY <1>1, <2>1, SameBlocks
<1>10. InHeads'
  <2>1. bt'.slot = (sync'.hash.numProcessed - 1) % HashNumBlocks
    BY <1>0, <1>1, <1>2
  <2>2. HeadsOf(n).avail >= NumHashBytes =>
          HeadsOf(n).avail - HeadsOf(n).avail = HeadsOf(n).num - HeadsOf(n).num
    BY <1>4
  <2>3. HeadsOf(n).num <= HeadsOf(n).num
    BY <1>4
  <2> QED
    BY <1>1, <1>2, <1>4, <2>1, <2>2, <2>3 DEF InHeads
<1>11. TreeRight'
  BY <1>1, <1>2, <1>3, <1>5, <1>7, <1>10 DEF IInv, TreeRight
<1>12. FillRight'
  BY <1>1, <1>2, <1>3, <1>5, <1>7 DEF IInv, FillRight
<1>13. Reach'
  BY <1>1, <1>2, <1>3 DEF IInv, Reach
<1> QED
  BY <1>8, <1>9, <1>11, <1>12, <1>13 DEF Data

-----------------------------------------------------------------------------
(* A thread that starts, in a stream or to end.                            *)

LEMMA UnstreamedData ==
  ASSUME ~Streaming', WindowRight'
  PROVE  Data'
BY DEF Data, Streaming, HashRing, TreeRight, TreeLives, FillRight, BtRing, MainRight, Reach

LEMMA BtThreadStartData ==
  ASSUME IInv, ThreadStart("bt")
  PROVE  Data'
<1>1. /\ pc.bt = "start" /\ sync.bt.canStart /\ pc'.bt = "check" /\ pc'.main = pc.main
      /\ pc'.hash = pc.hash /\ sync'.hash = sync.hash /\ UNCHANGED <<mf, buf, main>>
      /\ bt' = [bt EXCEPT !.blocks = 0]
      /\ sync'.bt.needStart = sync.bt.needStart /\ sync'.bt.numProcessed = sync.bt.numProcessed
  <2>1. /\ pc.bt = "start" /\ sync.bt.canStart /\ Moved("bt", "check")
        /\ LinkBecomes("bt", [sync.bt EXCEPT !.canStart = FALSE, !.wasStarted = TRUE])
        /\ bt' = [bt EXCEPT !.blocks = 0] /\ UNCHANGED <<mf, buf, main>>
    BY ThreadStartEffect DEF Links, IInv
  <2>2. sync.bt \in LinkType
    BY LinkFields DEF IInv, Links
  <2> QED
    BY <2>1, <2>2 DEF Moved, LinkBecomes, LinkType
<1>2. Control'
  BY BtThreadStartControl
<1>3. CASE ~Streaming
  <2>1. ~Streaming'
    BY <1>1, <1>3 DEF Streaming
  <2>2. WindowRight'
    BY <1>1 DEF IInv, WindowRight, NeedMove
  <2> QED
    BY <2>1, <2>2, UnstreamedData
<1>4. CASE Streaming
  <2>1. pc.main = "started" /\ bt.blocks = 0 /\ ~sync.bt.needStart
    BY <1>1, <1>4 DEF IInv, LinkRight, Resting, AtRest, Handshake, Consumer, Blocks
  <2>2. bt' = bt
    BY <1>1, <2>1 DEF IInv, Shapes, TreeType
  <2>3. /\ TreeLives' => /\ TreeLives /\ SameLink("hash")
                         /\ (Between' <=> Between) /\ (Filling' <=> Filling)
        /\ SameLink("bt") /\ SameLink("hash")
    BY <1>1, <1>4, <2>1 DEF TreeLives, SameLink, Between, Filling, Streaming
  <2>4. /\ pc'.hash \in {"free", "fill"} => ~NeedMove
        /\ pc'.hash \in {"enterBt", "enterHash", "move"} => NeedMove
    BY <1>1 DEF IInv, WindowRight
  <2> QED
    BY <1>1, <1>2, <1>4, <2>1, <2>2, <2>3, <2>4, SameData
<1> QED
  BY <1>3, <1>4

LEMMA HashThreadStartData ==
  ASSUME IInv, ThreadStart("hash")
  PROVE  Data'
<1>1. /\ pc.hash = "start" /\ sync.hash.canStart /\ pc'.hash = "check" /\ pc'.main = pc.main
      /\ pc'.bt = pc.bt /\ sync'.bt = sync.bt /\ UNCHANGED <<bt, buf, main>>
      /\ mf' = [mf EXCEPT !.blocks = 0]
      /\ sync'.hash.needStart = sync.hash.needStart
      /\ sync'.hash.numProcessed = sync.hash.numProcessed
  <2>1. /\ pc.hash = "start" /\ sync.hash.canStart /\ Moved("hash", "check")
        /\ LinkBecomes("hash", [sync.hash EXCEPT !.canStart = FALSE, !.wasStarted = TRUE])
        /\ mf' = [mf EXCEPT !.blocks = 0] /\ UNCHANGED <<bt, buf, main>>
    BY ThreadStartEffect DEF Links, IInv
  <2>2. sync.hash \in LinkType
    BY LinkFields DEF IInv, Links
  <2> QED
    BY <2>1, <2>2 DEF Moved, LinkBecomes, LinkType
<1>2. Control'
  BY HashThreadStartControl
<1>3. CASE ~Streaming
  <2>1. ~Streaming'
    BY <1>1, <1>3 DEF Streaming
  <2>2. mf'.base = mf.base /\ mf'.pos = mf.pos /\ mf'.streamPos = mf.streamPos /\ mf'.ended = mf.ended
    BY <1>1 DEF IInv, Shapes, WindowType
  <2>3. WindowRight'
    BY <1>1, <2>2 DEF IInv, WindowRight, NeedMove
  <2> QED
    BY <2>1, <2>3, UnstreamedData
<1>4. CASE Streaming
  <2>1. pc.bt = "started" /\ mf.blocks = 0 /\ ~sync.hash.needStart
    BY <1>1, <1>4 DEF IInv, LinkRight, Resting, AtRest, Handshake, Consumer, Blocks
  <2>2. mf' = mf
    BY <1>1, <2>1 DEF IInv, Shapes, WindowType
  <2>3. /\ TreeLives' => /\ TreeLives /\ SameLink("hash")
                         /\ (Between' <=> Between) /\ (Filling' <=> Filling)
        /\ SameLink("bt") /\ SameLink("hash")
    BY <1>1, <1>4, <2>1 DEF TreeLives, SameLink, Between, Filling, Streaming
  <2>4. /\ pc'.hash \in {"free", "fill"} => ~NeedMove
        /\ pc'.hash \in {"enterBt", "enterHash", "move"} => NeedMove
    BY <1>1 DEF IInv, WindowRight
  <2> QED
    BY <1>1, <1>2, <1>4, <2>1, <2>2, <2>3, <2>4, SameData
<1> QED
  BY <1>3, <1>4

-----------------------------------------------------------------------------
(* The tree thread makes a block.                                          *)

LEMMA HashSide ==
  ASSUME IInv, mf' = mf, buf'.hash = buf.hash, SameLink("hash"), Streaming, pc.bt # "wait"
  PROVE  HashRing' /\ HeldHeads' = HeldHeads /\ (AtEnd' <=> AtEnd)
<1>1. /\ sync'.hash.needStart = sync.hash.needStart
      /\ sync'.hash.numProcessed = sync.hash.numProcessed
  BY DEF SameLink
<1>2. HashRing'
  <2> SUFFICES ASSUME ~sync'.hash.needStart, NEW n \in (sync'.hash.numProcessed - 1)..(mf'.blocks - 1)
               PROVE  Heads(n)'
    BY DEF HashRing
  <2>1. Heads(n)
    BY <1>1 DEF IInv, HashRing
  <2> QED
    BY <2>1 DEF HeadsOf, HashAt, Heads, AtEnd, Passed
<1> QED
  BY <1>1, <1>2 DEF HeldHeads, HeadsOf, AtEnd

(* The slot to be filled is none of those that main may use.               *)
LEMMA TreeSlot ==
  ASSUME IInv, Streaming, ~sync.bt.needStart, pc.main # "wait", Holding("bt"),
         NEW n \in (sync.bt.numProcessed - 1)..(bt.blocks - 1)
  PROVE  /\ n \in Nat /\ n % BtNumBlocks # bt.blocks % BtNumBlocks
         /\ n % BtNumBlocks \in 0..(BtNumBlocks - 1) /\ bt.blocks % BtNumBlocks \in 0..(BtNumBlocks - 1)
<1>1. /\ sync.bt.numProcessed \in Nat /\ sync.bt.numProcessed >= 1 /\ bt.blocks \in Nat
      /\ bt.blocks + 1 - (sync.bt.numProcessed - 1) <= BtNumBlocks
  BY Taken DEF Links, Consumer, Blocks, Held, RingSize
<1>2. n \in Nat /\ n < bt.blocks /\ bt.blocks - n < BtNumBlocks
  BY <1>1, Sizes
<1> QED
  BY <1>1, <1>2, SlotsDiffer, Division, Sizes

LEMMA BtFillBlockData ==
  ASSUME IInv, BtFillBlock
  PROVE  Data'
<1>1. /\ pc.bt = "fill" /\ pc'.bt = IF bt.left = 0 THEN "get" ELSE "matches"
      /\ pc'.main = pc.main /\ pc'.hash = pc.hash /\ sync'.bt = sync.bt /\ SameLink("hash")
      /\ bt'.blocks = bt.blocks /\ bt'.pos = bt.pos /\ bt'.slot = bt.slot
      /\ bt'.left = bt.left /\ bt'.avail = bt.avail
      /\ bt'.first = bt.pos /\ bt'.count = 0 /\ bt'.availOut = bt.avail
      /\ buf' = [buf EXCEPT !["bt"] = [buf["bt"] EXCEPT ![bt.blocks % BtNumBlocks] = Garbage]]
      /\ UNCHANGED <<mf, main>>
  <2>1. /\ pc.bt = "fill" /\ Moved("bt", IF bt.left = 0 THEN "get" ELSE "matches")
        /\ IF sync.hash.needStart THEN UNCHANGED sync
           ELSE LinkBecomes("hash", [sync.hash EXCEPT !.cs = "bt", !.csWasEntered = TRUE])
    BY BtFillBlockEffect DEF IInv
  <2>2. sync'.bt = sync.bt /\ SameLink("hash")
    <3>1. sync.hash \in LinkType
      BY LinkFields DEF IInv, Links
    <3> QED
      BY <2>1, <3>1 DEF LinkBecomes, LinkType, SameLink
  <2> QED
    BY <2>1, <2>2, BtFillBlockEffect DEF IInv, Moved
<1>2. Streaming /\ ~sync.bt.needStart /\ Streaming'
  BY <1>1, ProducerActive DEF Links, Streaming
<1>3. TreeLives /\ TreeLives' /\ ~Filling /\ Filling' /\ ~Between /\ ~Between'
  BY <1>1, <1>2 DEF TreeLives, Filling, Between
<1>4. bt.blocks % BtNumBlocks \in 0..(BtNumBlocks - 1)
  BY Fields, Division, Sizes DEF IInv
<1>5. /\ buf'.hash = buf.hash
      /\ \A j \in 0..(BtNumBlocks - 1) : j # bt.blocks % BtNumBlocks => buf'["bt"][j] = buf["bt"][j]
  <2>1. Garbage \in BlockType
    BY DEF Garbage, BlockType
  <2>2. Rings /\ "bt" \in Links /\ "hash" \in Links /\ RingSize("bt") = BtNumBlocks
    BY DEF IInv, Shapes, Links, RingSize
  <2> QED
    BY <1>1, <1>4, <2>1, <2>2, OneBlock
<1>6. HashRing' /\ HeldHeads' = HeldHeads /\ (AtEnd' <=> AtEnd)
  BY <1>1, <1>2, <1>5, HashSide
<1>7. TreeAt' = TreeAt
  BY <1>1, <1>3, <1>6 DEF TreeAt, SameLink
<1>8. TreeStart' = TreeStart /\ (TreeAtEnd' <=> TreeAtEnd)
  <2>1. TreeAt \in Int
    BY <1>3, TreeBounds
  <2> QED
    BY <1>1, <1>3, <1>6, <1>7, <2>1 DEF TreeStart, TreeAtEnd
<1>9. pc.main # "wait" => \A n \in (sync.bt.numProcessed - 1)..(bt.blocks - 1) :
                             MatchesOf(n)' = MatchesOf(n)
  BY <1>1, <1>2, <1>5, TreeSlot DEF MatchesOf, Holding
<1>10. WindowRight' /\ BtRing' /\ MainRight'
  BY <1>1, <1>2, <1>3, <1>8, <1>9, TreeSide
<1>11. Fresh => Fresh'
  BY <1>1 DEF Fresh
<1>12. InHeads => InHeads'
  BY <1>1, <1>6 DEF InHeads, SameLink
<1>13. bt.left \in Nat
  BY Fields DEF IInv
<1>14. TreeRight'
  BY <1>1, <1>3, <1>7, <1>8, <1>11, <1>12, <1>13 DEF IInv, TreeRight, SameLink
<1>15. FillRight'
  <2>1. bt.pos = TreeAt \/ TreeAtEnd
    BY <1>3 DEF IInv, TreeRight
  <2>2. bt.pos \in Nat /\ bt.avail \in Nat
    BY Fields DEF IInv
  <2> QED
    BY <1>1, <1>7, <1>8, <2>1, <2>2, Sizes DEF FillRight
<1>16. Reach'
  BY <1>1, <1>2, <1>3 DEF IInv, Reach
<1> QED
  BY <1>6, <1>10, <1>14, <1>15, <1>16 DEF Data

LEMMA FindMatchesData ==
  ASSUME IInv, FindMatches
  PROVE  Data'
<1>0. /\ TreeLives /\ ~sync.hash.needStart /\ ~Between /\ Filling /\ Streaming /\ pc.bt = "matches"
      /\ bt.availOut = bt.count + bt.avail
      /\ bt.first + bt.count = TreeAt \/ (TreeAtEnd /\ bt.count = 0)
  BY TreeFills, FindMatchesEffect DEF IInv
<1>1. bt.left > 0 /\ bt.pos = TreeAt /\ bt.first + bt.count = TreeAt
  BY <1>0 DEF IInv, TreeRight, TreeAtEnd
<1>2. PICK m \in Nat :
        /\ m > 0 /\ m <= bt.left /\ m <= BtLimit - bt.count
        /\ bt' = [bt EXCEPT !.pos = bt.pos + m, !.left = bt.left - m, !.avail = bt.avail - m,
                            !.count = bt.count + m]
        /\ \/ Moved("bt", "leave")
           \/ m = bt.left /\ bt.count + m < BtLimit /\ Moved("bt", "get")
  BY FindMatchesEffect DEF IInv
<1>3. /\ pc'.main = pc.main /\ pc'.hash = pc.hash /\ pc'.bt \in {"leave", "get"}
      /\ pc'.bt = "get" => m = bt.left /\ bt.count + m < BtLimit
      /\ UNCHANGED <<sync, mf, buf, main>>
  BY <1>2, FindMatchesEffect DEF IInv, Moved
<1>4. PICK p \in Int, l \in Int, a \in Int, c \in Int :
        p = bt.pos + m /\ l = bt.left - m /\ a = bt.avail - m /\ c = bt.count + m
  BY Fields, SMTT(30) DEF IInv
<1>5. bt' = [bt EXCEPT !.pos = p, !.left = l, !.avail = a, !.count = c]
  BY <1>2, <1>4
<1>6. /\ bt'.pos = p /\ bt'.left = l /\ bt'.avail = a /\ bt'.count = c /\ bt'.blocks = bt.blocks
      /\ bt'.slot = bt.slot /\ bt'.first = bt.first /\ bt'.availOut = bt.availOut
  BY <1>5 DEF IInv, Shapes, TreeType
<1>7. Streaming' /\ TreeLives' /\ Filling' /\ ~Between'
  BY <1>0, <1>3 DEF Streaming, TreeLives, Filling, Between
<1>8. HashRing' /\ HeldHeads' = HeldHeads /\ (AtEnd' <=> AtEnd)
  BY <1>0, <1>3, HashSide DEF SameLink
<1>9. /\ TreeAt = HeldHeads.from + HeldHeads.avail - bt.avail /\ InHeads /\ TreeAt \in Nat
      /\ HeldHeads.from \in Nat /\ HeldHeads.avail \in Nat /\ HeldHeads.num \in Nat
  <2>1. /\ TreeAt = HeldHeads.from + HeldHeads.avail - bt.avail /\ InHeads /\ TreeAt \in Nat
        /\ Heads(sync.hash.numProcessed - 1)
    BY <1>0, TreeInHeads
  <2>2. HeldHeads.from \in Nat /\ HeldHeads.avail \in Nat /\ HeldHeads.num = NumHeads(HeldHeads.avail)
    BY <2>1 DEF Heads, HeldHeads
  <2>3. HeldHeads.num \in Nat
    BY <2>2, HeadsInBlock, Sizes
  <2> QED
    BY <2>1, <2>2, <2>3
<1>10. /\ bt.pos \in Nat /\ bt.left \in Nat /\ bt.avail \in Nat /\ bt.count \in Nat /\ bt.first \in Nat
       /\ bt.availOut \in Nat
  BY Fields DEF IInv
<1>11. TreeAt' = TreeAt + m
  <2>1. TreeAt' = HeldHeads.from + HeldHeads.avail - a
    BY <1>0, <1>3, <1>6, <1>7, <1>8 DEF TreeAt
  <2> QED
    BY <1>4, <1>9, <1>10, <2>1
<1>12. TreeStart' = TreeStart
  <2>1. TreeStart = TreeAt - bt.count /\ TreeStart' = TreeAt' - c
    BY <1>0, <1>6, <1>7 DEF TreeStart
  <2> QED
    BY <1>4, <1>9, <1>10, <1>11, <2>1
<1>13. WindowRight' /\ BtRing' /\ MainRight'
  BY <1>0, <1>3, <1>6, <1>12, TreeSide DEF MatchesOf
<1>14. InHeads'
  <2>1. /\ HeldHeads.avail >= NumHashBytes /\ HeldHeads.avail - bt.avail = HeldHeads.num - bt.left
        /\ bt.left <= HeldHeads.num /\ bt.slot = (sync.hash.numProcessed - 1) % HashNumBlocks
    BY <1>1, <1>9, <1>10, Sizes DEF InHeads
  <2>2. HeldHeads.avail - a = HeldHeads.num - l /\ l <= HeldHeads.num
    BY <1>4, <1>9, <1>10, <2>1
  <2> QED
    BY <1>3, <1>6, <1>8, <1>9, <2>1, <2>2, Sizes DEF InHeads
<1>15. bt'.pos = TreeAt' /\ bt'.first + bt'.count = TreeAt' /\ bt'.availOut = bt'.count + bt'.avail
  BY <1>0, <1>1, <1>4, <1>6, <1>9, <1>10, <1>11
<1>16. pc'.bt = "get" => bt'.left = 0 /\ bt'.count < BtLimit
  BY <1>3, <1>4, <1>6, <1>10
<1>17. TreeRight'
  BY <1>0, <1>3, <1>7, <1>14, <1>15, <1>16 DEF TreeRight
<1>18. FillRight'
  BY <1>3, <1>15, <1>16 DEF FillRight
<1>19. Reach'
  <2> SUFFICES ASSUME mf.base > 0 PROVE Reach'
    BY <1>3 DEF Reach
  <2>1. mf.base <= bt.pos - HistorySize
    BY <1>0 DEF IInv, Reach
  <2>2. mf.base \in Nat
    BY Fields DEF IInv
  <2>3. mf.base <= bt'.pos - HistorySize
    BY <1>4, <1>6, <1>10, <2>1, <2>2, Sizes
  <2> QED
    BY <1>0, <1>3, <1>7, <2>3 DEF IInv, Reach
<1> QED
  BY <1>8, <1>13, <1>17, <1>18, <1>19 DEF Data

LEMMA GotHashBlockData ==
  ASSUME IInv, GotHashBlock
  PROVE  Data'
<1>0. /\ TreeLives /\ ~sync.hash.needStart /\ ~Between /\ Filling /\ Streaming /\ pc.bt = "got"
      /\ bt.availOut = bt.count + bt.avail
      /\ bt.first + bt.count = TreeAt \/ (TreeAtEnd /\ bt.count = 0)
      /\ bt.avail <= MatchMaxLen => AtEnd /\ TreeAt + bt.avail = mf.streamPos
      /\ bt.count < BtLimit
  BY TreeFills, GotHashBlockEffect DEF IInv
<1>1. /\ TreeAt = HeldHeads.from + HeldHeads.avail - bt.avail /\ InHeads /\ TreeAt \in Nat
      /\ HeldHeads.from \in Nat /\ HeldHeads.avail \in Nat
      /\ HeldHeads.num = NumHeads(HeldHeads.avail) /\ HeldHeads.num \in Nat
      /\ HeldHeads.avail >= NumHashBytes => HeldHeads.num > 0
      /\ HeldHeads.avail < NumHashBytes => HeldHeads.num = 0
  <2>1. /\ TreeAt = HeldHeads.from + HeldHeads.avail - bt.avail /\ InHeads /\ TreeAt \in Nat
        /\ Heads(sync.hash.numProcessed - 1)
    BY <1>0, TreeInHeads
  <2>2. HeldHeads.from \in Nat /\ HeldHeads.avail \in Nat /\ HeldHeads.num = NumHeads(HeldHeads.avail)
    BY <2>1 DEF Heads, HeldHeads
  <2> QED
    BY <2>1, <2>2, HeadsInBlock, Sizes
<1>2. bt.left = HeldHeads.num /\ bt.avail = HeldHeads.avail
  BY <1>0, <1>1 DEF InHeads
<1>3. /\ bt.pos \in Nat /\ bt.left \in Nat /\ bt.avail \in Nat /\ bt.count \in Nat /\ bt.first \in Nat
      /\ bt.availOut \in Nat /\ mf.streamPos \in Nat
  BY Fields DEF IInv
<1>4. /\ IF bt.avail >= NumHashBytes
         THEN Moved("bt", "matches") /\ UNCHANGED bt
         ELSE /\ bt' = [bt EXCEPT !.count = bt.count + bt.avail, !.avail = 0]
              /\ Moved("bt", "leave")
      /\ UNCHANGED <<sync, mf, buf, main>>
  BY GotHashBlockEffect DEF IInv
<1>5. pc'.main = pc.main /\ pc'.hash = pc.hash /\ pc'.bt \in {"matches", "leave"}
  BY <1>4 DEF Moved
<1>6. Streaming' /\ TreeLives' /\ Filling' /\ ~Between'
  BY <1>0, <1>5 DEF Streaming, TreeLives, Filling, Between
<1>7. HashRing' /\ HeldHeads' = HeldHeads /\ (AtEnd' <=> AtEnd)
  BY <1>0, <1>4, HashSide DEF SameLink
<1>8. CASE bt.avail >= NumHashBytes
  <2>1. bt' = bt /\ pc'.bt = "matches"
    BY <1>4, <1>8 DEF Moved
  <2>2. TreeAt' = TreeAt /\ TreeStart' = TreeStart /\ (TreeAtEnd' <=> TreeAtEnd)
    BY <1>0, <1>4, <1>6, <1>7, <2>1 DEF TreeAt, TreeStart, TreeAtEnd
  <2>3. WindowRight' /\ BtRing' /\ MainRight'
    BY <1>0, <1>4, <1>5, <2>1, <2>2, TreeSide DEF MatchesOf
  <2>4. InHeads' /\ bt.left > 0
    BY <1>1, <1>2, <1>4, <1>7, <1>8, <2>1, Sizes DEF InHeads
  <2>5. TreeRight'
    BY <1>0, <1>4, <1>6, <2>1, <2>2, <2>4 DEF IInv, TreeRight
  <2>6. FillRight'
    BY <1>0, <2>1, <2>2 DEF FillRight
  <2>7. Reach'
    BY <1>0, <1>4, <1>5, <1>6, <2>1 DEF IInv, Reach
  <2> QED
    BY <1>7, <2>3, <2>5, <2>6, <2>7 DEF Data
<1>9. CASE ~(bt.avail >= NumHashBytes)
  <2>1. PICK c \in Nat : c = bt.count + bt.avail
    BY <1>3
  <2>2. bt' = [bt EXCEPT !.count = c, !.avail = 0] /\ pc'.bt = "leave"
    BY <1>4, <1>9, <2>1 DEF Moved
  <2>3. /\ bt'.pos = bt.pos /\ bt'.left = bt.left /\ bt'.avail = 0 /\ bt'.count = c
        /\ bt'.blocks = bt.blocks
        /\ bt'.slot = bt.slot /\ bt'.first = bt.first /\ bt'.availOut = bt.availOut
    BY <2>2 DEF IInv, Shapes, TreeType
  <2>4. bt.left = 0 /\ bt.avail < NumHashBytes /\ AtEnd /\ TreeAt + bt.avail = mf.streamPos
    BY <1>0, <1>1, <1>2, <1>3, <1>9, Sizes
  <2>5. TreeAt' = TreeAt + bt.avail
    <3>1. TreeAt' = HeldHeads.from + HeldHeads.avail - 0
      BY <1>0, <1>4, <1>6, <1>7, <2>3 DEF TreeAt
    <3> QED
      BY <1>1, <1>3, <3>1
  <2>6. TreeStart' = TreeStart
    <3>1. TreeStart = TreeAt - bt.count /\ TreeStart' = TreeAt' - c
      BY <1>0, <1>6, <2>3 DEF TreeStart
    <3> QED
      BY <1>1, <1>3, <2>1, <2>5, <3>1
  <2>7. TreeAtEnd'
    BY <1>4, <1>7, <2>3, <2>4, <2>5 DEF TreeAtEnd
  <2>8. WindowRight' /\ BtRing' /\ MainRight'
    BY <1>0, <1>4, <1>5, <2>3, <2>6, TreeSide DEF MatchesOf
  <2>9. InHeads'
    BY <1>1, <1>2, <1>4, <1>7, <2>2, <2>3, <2>4 DEF InHeads
  <2>10. bt'.pos <= TreeAt' /\ TreeAt' < bt'.pos + NumHashBytes
    <3>1. bt.pos = TreeAt \/ (bt.avail = 0 /\ bt.pos <= TreeAt /\ TreeAt < bt.pos + NumHashBytes)
      BY <1>0 DEF IInv, TreeRight, TreeAtEnd
    <3> QED
      BY <1>1, <1>3, <2>3, <2>4, <2>5, <3>1, Sizes
  <2>11. TreeRight'
    BY <1>0, <1>4, <1>6, <2>2, <2>7, <2>9, <2>10 DEF TreeRight
  <2>12. bt'.availOut = bt'.count + bt'.avail
    BY <1>0, <1>3, <2>1, <2>3
  <2>13. bt'.first + bt'.count = TreeAt' \/ bt'.count = 0
    <3>1. bt.first + bt.count = TreeAt \/ (bt.avail = 0 /\ bt.count = 0)
      BY <1>0 DEF TreeAtEnd
    <3> QED
      BY <1>1, <1>3, <2>1, <2>3, <2>5, <3>1
  <2>14. FillRight'
    BY <2>2, <2>7, <2>12, <2>13 DEF FillRight
  <2>15. Reach'
    BY <1>0, <1>4, <1>5, <1>6, <2>3 DEF IInv, Reach
  <2> QED
    BY <1>7, <2>8, <2>11, <2>14, <2>15 DEF Data
<1> QED
  BY <1>8, <1>9

LEMMA BtBlockDoneData ==
  ASSUME IInv, BtBlockDone
  PROVE  Data'
<1> DEFINE new == [from |-> bt.first, num |-> bt.count, avail |-> bt.availOut]
           R == BtNumBlocks
<1>0. /\ TreeLives /\ ~sync.hash.needStart /\ ~Between /\ Filling /\ Streaming /\ pc.bt = "leave"
      /\ bt.left <= bt.avail /\ TreeAt \in Nat /\ TreeAt + bt.avail <= mf.streamPos
      /\ bt.avail <= MatchMaxLen => AtEnd /\ TreeAt + bt.avail = mf.streamPos
      /\ bt.availOut = bt.count + bt.avail
      /\ bt.first + bt.count = TreeAt \/ (TreeAtEnd /\ bt.count = 0)
  BY TreeFills, BtBlockDoneEffect DEF IInv
<1>1. /\ pc'.bt = "check" /\ pc'.main = pc.main /\ pc'.hash = pc.hash
      /\ sync'.bt.needStart = sync.bt.needStart /\ sync'.bt.numProcessed = sync.bt.numProcessed
      /\ sync'.hash.needStart = sync.hash.needStart
      /\ sync'.hash.numProcessed = sync.hash.numProcessed
      /\ bt'.blocks = bt.blocks + 1 /\ bt'.pos = bt.pos /\ bt'.slot = bt.slot
      /\ bt'.left = bt.left /\ bt'.avail = bt.avail
      /\ bt'.first = bt.first /\ bt'.count = bt.count /\ bt'.availOut = bt.availOut
      /\ buf' = [buf EXCEPT !["bt"] = [buf["bt"] EXCEPT ![bt.blocks % R] = new]]
      /\ UNCHANGED <<mf, main>>
  <2>1. /\ Moved("bt", "check")
        /\ sync'.bt = [sync.bt EXCEPT !.filled = sync.bt.filled + 1]
        /\ sync'.hash = [sync.hash EXCEPT !.cs = "nobody", !.csWasEntered = FALSE]
    BY <1>0, BtBlockDoneEffect DEF IInv
  <2>2. sync.bt \in LinkType /\ sync.hash \in LinkType
    BY LinkFields DEF IInv, Links
  <2>3. PICK f \in Int : f = sync.bt.filled + 1
    BY <2>2 DEF LinkType
  <2>4. sync'.bt = [sync.bt EXCEPT !.filled = f]
    BY <2>1, <2>3
  <2>5. /\ sync'.bt.needStart = sync.bt.needStart /\ sync'.bt.numProcessed = sync.bt.numProcessed
        /\ sync'.hash.needStart = sync.hash.needStart
        /\ sync'.hash.numProcessed = sync.hash.numProcessed
    BY <2>1, <2>2, <2>4 DEF LinkType
  <2> QED
    BY <2>1, <2>5, BtBlockDoneEffect DEF IInv, Moved
<1>2. Streaming' /\ TreeLives' /\ ~Filling' /\ ~Between' /\ ~sync.bt.needStart
  BY <1>0, <1>1, ProducerActive DEF Streaming, TreeLives, Filling, Between, Links
<1>3. /\ bt.pos \in Nat /\ bt.left \in Nat /\ bt.avail \in Nat /\ bt.count \in Nat /\ bt.first \in Nat
      /\ bt.availOut \in Nat /\ mf.streamPos \in Nat /\ bt.blocks \in Nat /\ bt.count <= BtBlockSize
      /\ sync.bt.numProcessed \in Nat
  BY Fields, LinkFields DEF IInv, Links
<1>4. bt.blocks % R \in 0..(R - 1)
  BY <1>3, Division, Sizes
<1>5. /\ buf'.hash = buf.hash /\ buf'["bt"][bt.blocks % R] = new
      /\ \A j \in 0..(R - 1) : j # bt.blocks % R => buf'["bt"][j] = buf["bt"][j]
  <2>0. new \in BlockType
    BY <1>3 DEF BlockType
  <2>1. PICK b \in BlockType : b = new
    BY <2>0
  <2>2. Rings /\ "bt" \in Links /\ "hash" \in Links /\ RingSize("bt") = R
    BY DEF IInv, Shapes, Links, RingSize
  <2>3. buf' = [buf EXCEPT !["bt"] = [buf["bt"] EXCEPT ![bt.blocks % R] = b]]
    BY <1>1, <2>1
  <2>4. PICK k \in 0..(RingSize("bt") - 1) : k = bt.blocks % R
    BY <1>4, <2>2
  <2>5. buf' = [buf EXCEPT !["bt"] = [buf["bt"] EXCEPT ![k] = b]]
    BY <2>3, <2>4
  <2>6. /\ buf'["bt"][k] = b /\ \A r \in Links : r # "bt" => buf'[r] = buf[r]
        /\ \A j \in 0..(RingSize("bt") - 1) : j # k => buf'["bt"][j] = buf["bt"][j]
    BY <2>2, <2>5, OneBlock, SMTT(30), ZenonT(30)
  <2> QED
    BY <2>1, <2>2, <2>4, <2>6
<1>6. HashRing' /\ HeldHeads' = HeldHeads /\ (AtEnd' <=> AtEnd)
  BY <1>0, <1>1, <1>5, HashSide DEF SameLink
<1>7. TreeAt' = TreeAt /\ (TreeAtEnd' <=> TreeAtEnd)
  <2>1. TreeAt' = TreeAt
    BY <1>0, <1>1, <1>2, <1>6 DEF TreeAt
  <2> QED
    BY <1>1, <1>6, <2>1 DEF TreeAtEnd
<1>8. TreeStart = TreeAt - bt.count /\ TreeStart' = TreeAt
  BY <1>0, <1>2, <1>7 DEF TreeStart
(* The new block.                                                          *)
<1>9. PICK o \in Nat : o = bt.blocks /\ bt'.blocks = o + 1
  BY <1>1, <1>3
<1>10. /\ MatchesOf(o)' = new /\ new.from = bt.first /\ new.num = bt.count /\ new.avail = bt.availOut
  BY <1>5, <1>9 DEF MatchesOf
<1> HIDE DEF new
<1>11. StartOf(new) = TreeStart /\ TreeStart \in Int
  <2>1. CASE bt.availOut = 0
    <3>1. bt.count = 0 /\ bt.avail = 0
      BY <1>0, <1>3, <2>1
    <3>2. TreeAt = mf.streamPos
      BY <1>0, <1>3, <3>1, Sizes
    <3> QED
      BY <1>0, <1>3, <1>8, <1>10, <2>1, <3>1, <3>2 DEF StartOf
  <2>2. CASE bt.availOut # 0
    <3>1. bt.first + bt.count = TreeAt
      BY <1>0, <1>3, <2>2 DEF TreeAtEnd
    <3> QED
      BY <1>0, <1>3, <1>8, <1>10, <2>2, <3>1 DEF StartOf
  <2> QED
    BY <2>1, <2>2
<1>12. StartOf(MatchesOf(o))' = TreeStart /\ MainAt(o)' = TreeStart /\ MainAt(o + 1)' = TreeAt
       /\ MainAt(o) = TreeStart
  <2>1. StartOf(MatchesOf(o))' = StartOf(new)
    BY <1>1, <1>10 DEF StartOf
  <2> QED
    BY <1>8, <1>9, <1>11, <2>1 DEF MainAt
<1>13. Matches(o)'
  <2>1. new.num <= new.avail /\ new.avail - new.num = bt.avail
    BY <1>0, <1>3, <1>10
  <2>2. TreeStart + new.avail = TreeAt + bt.avail /\ TreeAt = TreeStart + new.num
    BY <1>0, <1>3, <1>8, <1>10
  <2>3. TreeStart' - TreeStart = bt.count /\ BtBlockSize * (bt'.blocks - o) = BtBlockSize
    <3>1. bt'.blocks - o = 1
      BY <1>9
    <3>2. BtBlockSize * 1 = BtBlockSize
      BY Sizes
    <3> QED
      BY <1>0, <1>3, <1>8, <3>1, <3>2
  <2>4. new.from \in Nat /\ new.num \in 0..BtBlockSize /\ new.avail \in Nat
    BY <1>3, <1>10, Sizes
  <2>5. new.avail - new.num <= MatchMaxLen => AtEnd' /\ TreeStart + new.avail = mf.streamPos
    BY <1>0, <1>6, <2>1, <2>2
  <2>6. TreeStart + new.avail <= mf.streamPos
    BY <1>0, <2>2
  <2>7. MainAt(o + 1)' = TreeStart + new.num
    BY <1>12, <2>2
  <2>8. TreeStart' - TreeStart <= BtBlockSize * (bt'.blocks - o)
    BY <1>3, <2>3
  <2>9. MatchesOf(o)' = new /\ StartOf(MatchesOf(o))' = TreeStart /\ mf' = mf
    BY <1>1, <1>10, <1>12
  <2> QED
    BY <2>1, <2>4, <2>5, <2>6, <2>7, <2>8, <2>9 DEF Matches
(* The blocks before it.                                                   *)
<1>14. WindowRight'
  BY <1>1 DEF IInv, WindowRight, NeedMove
<1>15. pc.main = "wait" => BtRing' /\ MainRight'
  BY <1>1, <1>2 DEF BtRing, MainRight
<1>16. pc.main # "wait" => BtRing' /\ MainRight'
  <2>0. SUFFICES ASSUME pc.main # "wait" PROVE BtRing' /\ MainRight'
    OBVIOUS
  <2>1. PICK k \in Int : k = sync.bt.numProcessed - 1
    BY <1>3
  <2>2. k \in Nat /\ k <= o /\ (NotTaken("bt") = 0 => k < o)
    BY <1>0, <1>2, <1>3, <1>9, <2>0, <2>1, Taken DEF Links, Consumer, Blocks
  <2>3. \A n \in k..(o - 1) : MatchesOf(n)' = MatchesOf(n) /\ n \in Nat /\ n < o
    <3> SUFFICES ASSUME NEW n \in k..(o - 1) PROVE MatchesOf(n)' = MatchesOf(n) /\ n \in Nat /\ n < o
      OBVIOUS
    <3>1. n % R # bt.blocks % R /\ n % R \in 0..(R - 1)
      BY <1>0, <1>2, <1>9, <2>0, <2>1, TreeSlot DEF Holding
    <3> QED
      BY <1>5, <2>2, <3>1 DEF MatchesOf
  <2>4. \A n \in k..(o - 1) : StartOf(MatchesOf(n))' = StartOf(MatchesOf(n)) /\ MainAt(n)' = MainAt(n)
    <3> SUFFICES ASSUME NEW n \in k..(o - 1)
                 PROVE  StartOf(MatchesOf(n))' = StartOf(MatchesOf(n)) /\ MainAt(n)' = MainAt(n)
      OBVIOUS
    <3>1. MatchesOf(n)' = MatchesOf(n) /\ n < o /\ n < o + 1 /\ n \in Nat
      BY <2>3
    <3>2. StartOf(MatchesOf(n))' = StartOf(MatchesOf(n))
      BY <1>1, <3>1 DEF StartOf
    <3> QED
      BY <1>9, <3>1, <3>2 DEF MainAt
  <2>5. \A n \in k..o : MainAt(n)' = MainAt(n)
    <3> SUFFICES ASSUME NEW n \in k..o PROVE MainAt(n)' = MainAt(n)
      OBVIOUS
    <3>1. n = o \/ n \in k..(o - 1)
      BY <2>2
    <3> QED
      BY <1>12, <2>4, <3>1
  <2>6. \A n \in k..(o - 1) : Matches(n)'
    <3> SUFFICES ASSUME NEW n \in k..(o - 1) PROVE Matches(n)'
      OBVIOUS
    <3>1. Matches(n)
      BY <1>0, <1>2, <1>9, <2>0, <2>1 DEF IInv, BtRing
    <3>2. MainAt(n + 1)' = MainAt(n + 1)
      <4>1. n + 1 \in k..o
        BY <2>2
      <4> QED
        BY <2>5, <4>1
    <3>3. StartOf(MatchesOf(n)) \in Int
      BY <1>3, <3>1 DEF Matches, StartOf
    <3>4. TreeStart' - StartOf(MatchesOf(n)) <= BtBlockSize * (bt'.blocks - n)
      <4>1. TreeStart - StartOf(MatchesOf(n)) <= BtBlockSize * (o - n)
        BY <1>9, <3>1 DEF Matches
      <4>2. n \in Nat /\ o - n \in Int /\ bt'.blocks - n = (o - n) + 1
        BY <1>9, <2>3
      <4>3. PICK x \in Int : x = o - n
        BY <4>2
      <4>4. BtBlockSize * (x + 1) = BtBlockSize * x + BtBlockSize /\ BtBlockSize * x \in Int
        BY Times, Sizes
      <4>5. TreeStart' = TreeStart + bt.count
        BY <1>0, <1>3, <1>8
      <4> QED
        BY <1>3, <1>11, <3>3, <4>1, <4>2, <4>3, <4>4, <4>5, Sizes
    <3>5. MatchesOf(n)' = MatchesOf(n) /\ StartOf(MatchesOf(n))' = StartOf(MatchesOf(n)) /\ mf' = mf
      BY <1>1, <2>3, <2>4
    <3> QED
      BY <1>6, <3>1, <3>2, <3>4, <3>5 DEF Matches
  <2>7. BtRing'
    <3> SUFFICES ASSUME NEW n \in (sync'.bt.numProcessed - 1)..(bt'.blocks - 1) PROVE Matches(n)'
      BY DEF BtRing
    <3>1. n \in k..(o - 1) \/ n = o
      BY <1>1, <1>9, <2>1, <2>2
    <3> QED
      BY <1>13, <2>6, <3>1
  <2>8. MainRight'
    <3>1. CASE pc.main \in {"started", "filled", "enter"}
      <4>1. main.lzPos = MainAt(k)
        BY <1>0, <1>2, <2>1, <3>1 DEF IInv, MainRight
      <4>2. MainAt(k)' = MainAt(k)
        BY <2>2, <2>5
      <4>3. MainAt(sync.bt.numProcessed - 1)' = MainAt(k)'
        BY <1>1, <2>1 DEF MainAt, MatchesOf
      <4> QED
        BY <1>1, <1>2, <3>1, <4>1, <4>2, <4>3 DEF MainRight
    <3>2. CASE pc.main \in {"got", "get", "stop"}
      <4>1. k \in k..(o - 1)
        BY <2>2, <3>2 DEF NotTaken, Consumer
      <4>2. MatchesOf(k)' = MatchesOf(k) /\ StartOf(MatchesOf(k))' = StartOf(MatchesOf(k))
        BY <2>3, <2>4, <4>1
      <4>3. MatchesOf(sync.bt.numProcessed - 1)' = MatchesOf(k) /\ MatchesOf(sync.bt.numProcessed - 1) = MatchesOf(k)
        BY <1>1, <2>1, <4>2 DEF MatchesOf
      <4>4. StartOf(MatchesOf(sync.bt.numProcessed - 1))' = StartOf(MatchesOf(k))
        BY <4>2, <4>3 DEF StartOf
      <4>5. LET c == MatchesOf(k) IN
            /\ main.slot = k % BtNumBlocks
            /\ main.left <= c.num /\ main.lzPos = StartOf(c) + c.num - main.left
            /\ main.avail = c.avail - (c.num - main.left)
            /\ pc.main = "get" => main.left = 0
        BY <1>0, <1>2, <2>1, <3>2, <4>3 DEF IInv, MainRight
      <4> QED
        BY <1>1, <1>2, <2>1, <3>2, <4>3, <4>4, <4>5 DEF MainRight
    <3>3. CASE pc.main = "stopped"
      BY <1>1, <3>3 DEF MainRight
    <3> QED
      BY <1>0, <2>0, <3>1, <3>2, <3>3 DEF Streaming
  <2> QED
    BY <2>7, <2>8
<1>17. BtRing' /\ MainRight'
  BY <1>15, <1>16
<1>18. InHeads'
  <2>1. InHeads
    BY <1>0 DEF IInv, TreeRight
  <2> QED
    BY <1>0, <1>1, <1>6, <2>1 DEF InHeads
<1>19. TreeRight'
  <2>1. bt.pos = TreeAt \/ (TreeAtEnd /\ bt.pos <= TreeAt /\ TreeAt < bt.pos + NumHashBytes)
    BY <1>0 DEF IInv, TreeRight
  <2> QED
    BY <1>0, <1>1, <1>2, <1>7, <1>18, <2>1 DEF TreeRight
<1>20. FillRight'
  BY <1>2 DEF FillRight
<1>21. Reach'
  BY <1>0, <1>1, <1>2 DEF IInv, Reach
<1> QED
  BY <1>6, <1>14, <1>17, <1>19, <1>20, <1>21 DEF Data

-----------------------------------------------------------------------------
(* The window is moved.                                                    *)

LEMMA TreeReach ==
  ASSUME IInv, TreeLives, ~sync.hash.needStart
  PROVE  mf.pos - TreeAt <= HashBlockSize * HashNumBlocks
<1>1. Streaming /\ pc.bt # "wait"
  BY DEF TreeLives
<1>2. PICK n \in Nat : n = sync.hash.numProcessed - 1
  BY <1>1, Taken DEF Links, Consumer
<1>3. /\ mf.blocks \in Nat /\ n <= mf.blocks /\ mf.blocks - n <= HashNumBlocks /\ mf.pos \in Nat
      /\ mf.pos <= mf.streamPos /\ mf.streamPos \in Nat
  <2>1. /\ sync.hash.numProcessed \in Nat /\ mf.blocks \in Nat /\ Held("hash") \in {0, 1}
        /\ mf.blocks >= sync.hash.numProcessed - 1
        /\ mf.blocks + Held("hash") - (sync.hash.numProcessed - 1) <= HashNumBlocks
    BY <1>1, Taken DEF Links, Consumer, Blocks, RingSize
  <2>2. mf.pos \in Nat /\ mf.pos <= mf.streamPos /\ mf.streamPos \in Nat
    BY Fields DEF IInv, WindowRight
  <2>3. mf.blocks - n <= HashNumBlocks
    BY <1>2, <2>1, Sizes
  <2> QED
    BY <1>2, <2>1, <2>2, <2>3
<1>4. HashBlockSize * (mf.blocks - n) <= HashBlockSize * HashNumBlocks
  BY <1>2, <1>3, Sizes, TimesLess
<1>5. HashBlockSize * (mf.blocks - n) \in Int /\ HashBlockSize * HashNumBlocks \in Int
  BY <1>3, Sizes, Times, WindowSizes
<1>6. CASE Between
  <2>1. HashAt(n) \in Nat /\ mf.pos - HashAt(n) <= HashBlockSize * (mf.blocks - n)
    BY <1>1, <1>2, <1>3, HashAtRight
  <2>2. TreeAt = HashAt(n)
    BY <1>2, <1>6 DEF TreeAt
  <2> QED
    BY <1>3, <1>4, <1>5, <2>1, <2>2
<1>7. CASE ~Between
  <2>1. /\ Heads(n) /\ bt.avail <= HeldHeads.avail
        /\ TreeAt = HeldHeads.from + HeldHeads.avail - bt.avail /\ TreeAt \in Nat /\ HeldHeads = HeadsOf(n)
    BY <1>2, <1>7, TreeInHeads DEF HeldHeads
  <2>2. /\ HeldHeads.from \in Nat /\ HeldHeads.avail \in Nat
        /\ mf.pos - HeldHeads.from <= HashBlockSize * (mf.blocks - n)
    BY <2>1 DEF Heads
  <2>3. bt.avail \in Nat
    BY Fields DEF IInv
  <2>4. TreeAt >= HeldHeads.from
    BY <2>1, <2>2, <2>3
  <2> QED
    BY <1>3, <1>4, <1>5, <2>1, <2>2, <2>4
<1> QED
  BY <1>6, <1>7

(* How far the encoder may be behind the tree thread.                      *)
LEMMA EncoderReach ==
  ASSUME IInv, TreeLives, ~sync.bt.needStart, pc.main \in {"started", "filled", "enter"},
         pc.bt \notin {"got", "get", "matches", "leave"}
  PROVE  TreeAt - main.lzPos <= BtBlockSize * BtNumBlocks
<1>1. Streaming
  BY DEF TreeLives
<1>2. PICK n \in Nat : n = sync.bt.numProcessed - 1
  BY <1>1, Taken DEF Links, Consumer
<1>3. /\ bt.blocks \in Nat /\ n <= bt.blocks /\ bt.blocks + Held("bt") - n <= BtNumBlocks
      /\ Held("bt") \in {0, 1} /\ bt.count \in Nat /\ main.lzPos \in Nat /\ mf.streamPos \in Nat
      /\ TreeAt \in Nat
  BY <1>1, <1>2, Taken, Fields, TreeBounds DEF Links, Consumer, Blocks, RingSize, IInv
<1>4. /\ Filling => Held("bt") = 1 /\ TreeAt - TreeStart <= BtBlockSize
      /\ ~Filling => TreeAt = TreeStart
      /\ TreeStart \in Int
  <2>1. Filling => bt.count < BtLimit
    BY <1>1 DEF IInv, FillRight, Filling
  <2> QED
    BY <1>3, <2>1, Sizes DEF TreeStart, Held, Holding
<1>5. main.lzPos = MainAt(n)
  BY <1>1, <1>2 DEF IInv, MainRight
<1>6. TreeStart - main.lzPos <= BtBlockSize * (bt.blocks - n)
  <2>1. CASE n < bt.blocks
    <3>1. n \in (sync.bt.numProcessed - 1)..(bt.blocks - 1)
      BY <1>2, <1>3, <2>1
    <3>2. Matches(n)
      BY <1>1, <3>1 DEF IInv, BtRing
    <3> QED
      BY <1>5, <2>1, <3>2 DEF Matches, MainAt
  <2>2. CASE n = bt.blocks
    <3>1. bt.blocks - n = 0
      BY <1>3, <2>2
    <3>2. BtBlockSize * (bt.blocks - n) = 0
      BY <3>1, Sizes
    <3>3. main.lzPos = TreeStart
      BY <1>3, <1>5, <2>2 DEF MainAt
    <3> QED
      BY <1>3, <3>2, <3>3
  <2> QED
    BY <1>3, <2>1, <2>2
<1>7. PICK x \in Int : x = bt.blocks - n
  BY <1>3
<1>8. BtBlockSize * x \in Int /\ BtBlockSize * (x + 1) = BtBlockSize * x + BtBlockSize /\ BtBlockSize * BtNumBlocks \in Int
  BY Sizes, Times, WindowSizes
<1>9. CASE Filling
  <2>1. x + 1 <= BtNumBlocks
    BY <1>3, <1>4, <1>7, <1>9
  <2>2. BtBlockSize * (x + 1) <= BtBlockSize * BtNumBlocks
    BY <2>1, Sizes, TimesLess
  <2> QED
    BY <1>3, <1>4, <1>6, <1>7, <1>8, <1>9, <2>2, Sizes
<1>10. CASE ~Filling
  <2>1. x <= BtNumBlocks
    BY <1>3, <1>7, Sizes
  <2>2. BtBlockSize * x <= BtBlockSize * BtNumBlocks
    BY <2>1, Sizes, TimesLess
  <2> QED
    BY <1>3, <1>4, <1>6, <1>7, <1>8, <1>10, <2>2
<1> QED
  BY <1>9, <1>10

LEMMA MoveBlockData ==
  ASSUME IInv, MoveBlock
  PROVE  Data'
<1>1. /\ pc.hash = "move" /\ pc'.hash = "check" /\ pc'.main = pc.main /\ pc'.bt = pc.bt
      /\ SameLink("bt") /\ SameLink("hash") /\ UNCHANGED <<buf, bt, main>>
      /\ mf' = [mf EXCEPT !.base = mf.pos - KeepSizeBefore]
  <2>1. /\ pc.hash = "move" /\ Moved("hash", "check")
        /\ sync'.bt = [sync.bt EXCEPT !.cs = "nobody"]
        /\ sync'.hash = [sync.hash EXCEPT !.cs = "nobody"]
        /\ mf' = [mf EXCEPT !.base = mf.pos - KeepSizeBefore] /\ UNCHANGED <<buf, bt, main>>
    BY MoveBlockEffect DEF IInv
  <2>2. sync.bt \in LinkType /\ sync.hash \in LinkType
    BY LinkFields DEF IInv, Links
  <2> QED
    BY <2>1, <2>2 DEF Moved, LinkType, SameLink
<1>2. PICK z \in Int : z = mf.pos - KeepSizeBefore
  BY Fields, WindowSizes DEF IInv
<1>3. mf' = [mf EXCEPT !.base = z]
  BY <1>1, <1>2
<1>4. /\ mf'.base = z /\ mf'.pos = mf.pos /\ mf'.streamPos = mf.streamPos /\ mf'.ended = mf.ended
      /\ mf'.result = mf.result /\ mf'.blocks = mf.blocks
  BY <1>3 DEF IInv, Shapes, WindowType
<1>5. /\ Streaming /\ Streaming' /\ ~sync.hash.needStart /\ pc.bt # "start" /\ ~sync.bt.needStart
  <2>1. Streaming /\ ~sync.hash.needStart /\ Handshake("hash")
    BY <1>1, ProducerActive DEF Links
  <2>2. pc.bt # "start"
    BY <2>1 DEF Handshake, BusyPcs, Consumer
  <2> QED
    BY <1>1, <2>1, <2>2 DEF IInv, LinkRight, Resting, Streaming
<1>6. (TreeLives' <=> TreeLives) /\ (Between' <=> Between) /\ (Filling' <=> Filling) /\ (AtEnd' <=> AtEnd)
  BY <1>1, <1>4, <1>5 DEF TreeLives, Between, Filling, AtEnd
<1>7. /\ mf.base \in Nat /\ mf.pos \in Nat /\ mf.streamPos \in Nat /\ main.lzPos \in Nat /\ bt.pos \in Nat
      /\ NeedMove
  BY <1>1, Fields DEF IInv, WindowRight
<1>8. WindowRight'
  BY <1>1, <1>2, <1>4, <1>7, WindowSizes DEF IInv, WindowRight, NeedMove
<1>9. \A n : /\ HeadsOf(n)' = HeadsOf(n) /\ HashAt(n)' = HashAt(n) /\ (Heads(n)' <=> Heads(n))
  BY <1>1, <1>4, <1>6 DEF HeadsOf, HashAt, Heads, Passed
<1>10. HashRing'
  <2> SUFFICES ASSUME pc'.bt # "wait", NEW n \in (sync'.hash.numProcessed - 1)..(mf'.blocks - 1)
               PROVE  Heads(n)'
    BY DEF HashRing
  <2>1. Heads(n)
    BY <1>1, <1>4, <1>5 DEF IInv, HashRing, SameLink
  <2> QED
    BY <1>9, <2>1
<1>11. HeldHeads' = HeldHeads
  BY <1>1 DEF HeldHeads, HeadsOf, SameLink
<1>12. TreeAt' = TreeAt
  BY <1>1, <1>4, <1>6, <1>11 DEF TreeAt, HashAt, HeadsOf, SameLink
<1>13. TreeStart' = TreeStart /\ (TreeAtEnd' <=> TreeAtEnd)
  BY <1>1, <1>4, <1>6, <1>12 DEF TreeStart, TreeAtEnd
<1>14. \A n : /\ MainAt(n)' = MainAt(n) /\ (Matches(n)' <=> Matches(n))
              /\ StartOf(MatchesOf(n))' = StartOf(MatchesOf(n)) /\ MatchesOf(n)' = MatchesOf(n)
  <2>1. \A n : StartOf(MatchesOf(n))' = StartOf(MatchesOf(n)) /\ MatchesOf(n)' = MatchesOf(n)
    BY <1>1, <1>4 DEF MatchesOf, StartOf
  <2>2. \A n : MainAt(n)' = MainAt(n)
    BY <1>1, <1>13, <2>1 DEF MainAt
  <2> QED
    BY <1>1, <1>4, <1>6, <1>13, <2>1, <2>2 DEF Matches
<1>15. TreeRight'
  <2>1. InHeads => InHeads'
    BY <1>1, <1>11 DEF InHeads, SameLink
  <2> QED
    BY <1>1, <1>5, <1>6, <1>12, <1>13, <2>1 DEF IInv, TreeRight, SameLink
<1>16. FillRight'
  BY <1>1, <1>6, <1>12, <1>13 DEF IInv, FillRight
<1>17. BtRing'
  <2> SUFFICES ASSUME pc'.main # "wait", NEW n \in (sync'.bt.numProcessed - 1)..(bt'.blocks - 1)
               PROVE  Matches(n)'
    BY DEF BtRing
  <2>1. Matches(n)
    BY <1>1, <1>5 DEF IInv, BtRing, SameLink
  <2> QED
    BY <1>14, <2>1
<1>18. MainRight'
  <2>1. pc.main \in {"started", "filled", "enter"} => main.lzPos = MainAt(sync.bt.numProcessed - 1)'
    <3>1. PICK k \in Int : k = sync.bt.numProcessed - 1
      BY LinkFields DEF IInv, Links
    <3>2. pc.main \in {"started", "filled", "enter"} => main.lzPos = MainAt(k)
      BY <1>5, <3>1 DEF IInv, MainRight
    <3>3. MainAt(sync.bt.numProcessed - 1)' = MainAt(k)'
      BY <1>1, <3>1 DEF MainAt, MatchesOf, SameLink
    <3> QED
      BY <1>14, <3>2, <3>3
  <2>2. pc.main \in {"got", "get", "stop"} =>
          /\ MatchesOf(sync.bt.numProcessed - 1)' = MatchesOf(sync.bt.numProcessed - 1)
          /\ StartOf(MatchesOf(sync.bt.numProcessed - 1))' = StartOf(MatchesOf(sync.bt.numProcessed - 1))
    BY <1>1, <1>4 DEF MatchesOf, StartOf, SameLink
  <2> QED
    BY <1>1, <1>5, <2>1, <2>2 DEF IInv, MainRight, SameLink
<1>19. pc.main \notin {"got", "get", "stop"} /\ pc.bt \notin {"got", "get", "matches", "leave"}
  BY <1>1, <1>5 DEF IInv, Sections
<1>20. Reach'
  <2> DEFINE H == HashBlockSize * HashNumBlocks
             B == BtBlockSize * BtNumBlocks
  <2>1. H \in Nat /\ B \in Nat /\ B >= BtBlockSize /\ z = mf.pos - (HistorySize + H + B + 1)
    <3>1. BtBlockSize * 1 <= BtBlockSize * BtNumBlocks
      BY Sizes, TimesLess
    <3> QED
      BY <1>2, <3>1, WindowSizes, Sizes
  <2> HIDE DEF H, B
  <2>2. TreeLives => mf.pos - TreeAt <= H /\ TreeAt \in Nat /\ TreeAt < bt.pos + NumHashBytes
    BY <1>5, TreeReach, TreeBounds DEF H
  <2>3. TreeLives => z <= bt.pos - HistorySize
    BY <1>7, <2>1, <2>2, Sizes
  <2>4. pc.main \notin {"wait", "stopped"} => z <= main.lzPos - HistorySize
    <3> SUFFICES ASSUME pc.main \notin {"wait", "stopped"} PROVE z <= main.lzPos - HistorySize
      OBVIOUS
    <3>1. TreeLives
      BY <1>5, ReadsLive DEF IInv, Control
    <3>2. pc.main \in {"started", "filled", "enter"}
      BY <1>5, <1>19 DEF Streaming
    <3>3. TreeAt - main.lzPos <= B
      BY <1>5, <1>19, <3>1, <3>2, EncoderReach DEF B
    <3> QED
      BY <1>7, <2>1, <2>2, <3>1, <3>3, Sizes
  <2> QED
    BY <1>1, <1>4, <1>6, <2>3, <2>4 DEF Reach
<1> QED
  BY <1>8, <1>10, <1>15, <1>16, <1>17, <1>18, <1>20 DEF Data

-----------------------------------------------------------------------------
(* The hash thread makes a block.                                          *)

LEMMA PassedBounds ==
  ASSUME NEW b, b.avail \in Nat, b.num = NumHeads(b.avail)
  PROVE  Passed(b) \in Nat /\ Passed(b) <= b.avail /\ Passed(b) <= HashBlockSize
BY HeadsInBlock, Sizes DEF Passed

LEMMA FillHashBlockData ==
  ASSUME IInv, FillHashBlock
  PROVE  Data'
<1>1. /\ pc.hash = "fill" /\ pc'.hash = "check" /\ pc'.main = pc.main /\ pc'.bt = pc.bt
      /\ SameLink("bt") /\ SameLink("hash") /\ UNCHANGED <<bt, main>>
      /\ mf' \in WindowType /\ mf'.base = mf.base /\ mf'.blocks = mf.blocks + 1
      /\ mf'.streamPos >= mf.streamPos /\ mf'.streamPos <= main.len
      /\ mf'.streamPos <= mf.base + BlockSize
      /\ mf'.ended => mf'.streamPos = main.len
      /\ AtEnd => AtEnd' /\ mf'.streamPos = mf.streamPos
      /\ mf'.streamPos - mf.pos <= KeepSizeAfter => AtEnd'
      /\ mf'.pos = mf.pos + Passed(NewHeads)
      /\ buf' = [buf EXCEPT !["hash"] = [buf["hash"] EXCEPT ![mf.blocks % HashNumBlocks] = NewHeads]]
  <2>1. Shapes /\ WindowRight
    BY DEF IInv
  <2>2. Moved("hash", "check") /\ LinkBecomes("hash", [sync.hash EXCEPT !.filled = sync.hash.filled + 1])
    BY <2>1, FillHashBlockEffect
  <2>3. SameLink("bt") /\ SameLink("hash")
    <3>1. sync.hash \in LinkType
      BY LinkFields DEF IInv, Links
    <3>2. PICK f \in Int : f = sync.hash.filled + 1
      BY <3>1 DEF LinkType
    <3>3. LinkBecomes("hash", [sync.hash EXCEPT !.filled = f])
      BY <2>2, <3>2
    <3> QED
      BY <3>1, <3>3 DEF LinkBecomes, LinkType, SameLink
  <2>4. pc'.hash = "check" /\ pc'.main = pc.main /\ pc'.bt = pc.bt
    BY <2>2 DEF Moved
  <2> QED
    BY <2>1, <2>3, <2>4, FillHashBlockEffect
<1>2. /\ mf.base \in Nat /\ mf.pos \in Nat /\ mf.streamPos \in Nat /\ mf'.streamPos \in Nat
      /\ mf.blocks \in Nat /\ mf'.pos \in Nat /\ mf.pos <= mf.streamPos /\ mf.base <= mf.pos
  BY <1>1, Fields DEF IInv, WindowRight, WindowType
<1>3. PICK num \in Nat : num = mf'.streamPos - mf.pos
  BY <1>1, <1>2
<1>4. PICK new \in BlockType :
        /\ new = NewHeads /\ new.from = mf.pos /\ new.avail = num /\ new.num = NumHeads(num)
  <2>1. NumHeads(num) \in Int
    BY HeadsInBlock, Sizes
  <2>2. NewHeads = [from |-> mf.pos, num |-> NumHeads(num), avail |-> num]
    BY <1>3 DEF NewHeads
  <2>3. NewHeads \in BlockType
    BY <1>2, <2>1, <2>2 DEF BlockType
  <2> QED
    BY <2>2, <2>3
<1>5. Passed(new) \in Nat /\ Passed(new) <= num /\ Passed(new) <= HashBlockSize /\ mf'.pos = mf.pos + Passed(new)
  BY <1>1, <1>3, <1>4, PassedBounds
<1>6. WindowRight'
  <2>1. mf'.base <= mf'.pos /\ mf'.pos <= mf'.streamPos
    BY <1>1, <1>2, <1>3, <1>5
  <2> QED
    BY <1>1, <2>1 DEF WindowRight
<1>7. /\ Streaming /\ Streaming' /\ ~sync.hash.needStart /\ ~sync.bt.needStart
      /\ (pc.bt = "wait" => pc.main = "wait")
  <2>1. Streaming /\ ~sync.hash.needStart /\ Handshake("hash")
    BY <1>1, ProducerActive DEF Links
  <2>2. pc.bt # "start"
    BY <2>1 DEF Handshake, BusyPcs, Consumer
  <2> QED
    BY <1>1, <2>1, <2>2 DEF IInv, LinkRight, Resting, Places, Streaming
<1>8. (TreeLives' <=> TreeLives) /\ (Between' <=> Between) /\ (Filling' <=> Filling)
  BY <1>1, <1>7 DEF TreeLives, Between, Filling
<1>9. Reach'
  BY <1>1, <1>7, <1>8 DEF IInv, Reach
<1>10. CASE pc.bt = "wait"
  <2>1. pc.main = "wait" /\ ~TreeLives'
    BY <1>7, <1>8, <1>10 DEF TreeLives
  <2> QED
    BY <1>1, <1>6, <1>7, <1>9, <1>10, <2>1 DEF Data, HashRing, TreeRight, FillRight, BtRing, MainRight, SameLink
<1>11. CASE pc.bt # "wait"
  <2>1. PICK k \in Int, o \in Nat : k = sync.hash.numProcessed - 1 /\ o = mf.blocks /\ mf'.blocks = o + 1
    BY <1>1, <1>2, LinkFields DEF IInv, Links
  <2>2. k \in Nat /\ k <= o /\ o + 1 - k <= HashNumBlocks
    BY <1>1, <1>7, <1>11, <2>1, Taken DEF Links, Consumer, Blocks, Held, Holding, RingSize
  <2>3. /\ \A n \in k..(o - 1) : HeadsOf(n)' = HeadsOf(n) /\ n \in Nat /\ n < o
        /\ HeadsOf(o)' = new /\ buf'.bt = buf.bt
    <3>1. o % HashNumBlocks \in 0..(HashNumBlocks - 1)
      BY Division, Sizes
    <3>2. Rings /\ "bt" \in Links /\ "hash" \in Links /\ RingSize("hash") = HashNumBlocks
      BY DEF IInv, Shapes, Links, RingSize
    <3>3. PICK j \in 0..(RingSize("hash") - 1) : j = o % HashNumBlocks
      BY <3>1, <3>2
    <3>4. buf' = [buf EXCEPT !["hash"] = [buf["hash"] EXCEPT ![j] = new]]
      BY <1>1, <1>4, <2>1, <3>3
    <3>5. /\ buf'["hash"][j] = new /\ \A r \in Links : r # "hash" => buf'[r] = buf[r]
          /\ \A i \in 0..(RingSize("hash") - 1) : i # j => buf'["hash"][i] = buf["hash"][i]
      <4>1. new \in BlockType
        BY <1>4
      <4>2. PICK s \in Links : s = "hash"
        BY <3>2
      <4>3. buf' = [buf EXCEPT ![s] = [buf[s] EXCEPT ![j] = new]] /\ j \in 0..(RingSize(s) - 1)
        BY <3>4, <4>2
      <4>4. /\ Rings' /\ buf'[s][j] = new
            /\ \A i \in 0..(RingSize(s) - 1) : i # j => buf'[s][i] = buf[s][i]
            /\ \A r \in Links : r # s => buf'[r] = buf[r]
        <5>1. Rings
          BY <3>2
        <5> QED
          BY <4>1, <4>3, <5>1, OneBlock, Zenon
      <4> QED
        BY <4>2, <4>4
    <3>6. \A n \in k..(o - 1) : HeadsOf(n)' = HeadsOf(n) /\ n \in Nat /\ n < o
      <4> SUFFICES ASSUME NEW n \in k..(o - 1) PROVE HeadsOf(n)' = HeadsOf(n) /\ n \in Nat /\ n < o
        OBVIOUS
      <4>1. n \in Nat /\ n < o /\ o - n < HashNumBlocks
        BY <2>1, <2>2, Sizes
      <4>2. n % HashNumBlocks # o % HashNumBlocks /\ n % HashNumBlocks \in 0..(HashNumBlocks - 1)
        BY <4>1, SlotsDiffer, Division, Sizes
      <4> QED
        BY <3>2, <3>3, <3>5, <4>1, <4>2 DEF HeadsOf
    <3> QED
      BY <3>2, <3>3, <3>5, <3>6 DEF HeadsOf
  <2>4. \A n \in k..o : HashAt(n)' = HashAt(n)
    <3> SUFFICES ASSUME NEW n \in k..o PROVE HashAt(n)' = HashAt(n)
      OBVIOUS
    <3>1. CASE n = o
      <4>1. HashAt(n)' = new.from
        BY <2>1, <2>3, <3>1 DEF HashAt
      <4>2. HashAt(n) = mf.pos
        BY <2>1, <3>1 DEF HashAt
      <4> QED
        BY <1>4, <4>1, <4>2
    <3>2. CASE n # o
      <4>1. n \in k..(o - 1) /\ n < o /\ n < o + 1
        BY <2>2, <3>2
      <4> QED
        BY <2>1, <2>3, <4>1 DEF HashAt
    <3> QED
      BY <3>1, <3>2
  <2>5. Heads(o)'
    <3>1. HashAt(o + 1)' = mf'.pos
      BY <2>1 DEF HashAt
    <3>2. HashBlockSize * (mf'.blocks - o) = HashBlockSize
      <4>1. mf'.blocks - o = 1
        BY <2>1
      <4> QED
        BY <4>1, Sizes
    <3>3. /\ new.from + new.avail = mf'.streamPos /\ mf'.pos = new.from + Passed(new)
          /\ mf'.pos - new.from <= HashBlockSize
      BY <1>2, <1>3, <1>4, <1>5, Sizes
    <3>4. new.avail <= KeepSizeAfter => AtEnd'
      BY <1>1, <1>3, <1>4
    <3>5. Passed(HeadsOf(o))' = Passed(new)
      BY <2>3 DEF Passed
    <3> QED
      BY <1>2, <1>4, <2>3, <3>1, <3>2, <3>3, <3>4, <3>5 DEF Heads
  <2>6. \A n \in k..(o - 1) : Heads(n) /\ Heads(n)'
    <3> SUFFICES ASSUME NEW n \in k..(o - 1) PROVE Heads(n) /\ Heads(n)'
      OBVIOUS
    <3>1. Heads(n)
      BY <1>7, <1>11, <2>1 DEF IInv, HashRing
    <3>2. HashAt(n + 1)' = HashAt(n + 1)
      <4>1. n + 1 \in k..o
        BY <2>2
      <4> QED
        BY <2>4, <4>1
    <3>3. HeadsOf(n)' = HeadsOf(n) /\ Passed(HeadsOf(n))' = Passed(HeadsOf(n)) /\ n \in Nat
      BY <2>3 DEF Passed
    <3>4. mf'.pos - HeadsOf(n).from <= HashBlockSize * (mf'.blocks - n)
      <4>1. mf.pos - HeadsOf(n).from <= HashBlockSize * (o - n) /\ HeadsOf(n).from \in Nat
        BY <2>1, <3>1 DEF Heads
      <4>2. PICK x \in Int : x = o - n /\ mf'.blocks - n = x + 1
        BY <2>1, <3>3
      <4>3. HashBlockSize * (x + 1) = HashBlockSize * x + HashBlockSize /\ HashBlockSize * x \in Int
        BY Sizes, Times
      <4> QED
        BY <1>2, <1>5, <4>1, <4>2, <4>3, Sizes
    <3>5. HeadsOf(n).from + HeadsOf(n).avail <= mf'.streamPos
      BY <1>1, <1>2, <3>1 DEF Heads
    <3>6. HeadsOf(n).avail <= KeepSizeAfter => AtEnd' /\ HeadsOf(n).from + HeadsOf(n).avail = mf'.streamPos
      BY <1>1, <3>1 DEF Heads
    <3> QED
      BY <3>1, <3>2, <3>3, <3>4, <3>5, <3>6 DEF Heads
  <2>7. HashRing'
    <3> SUFFICES ASSUME NEW n \in (sync'.hash.numProcessed - 1)..(mf'.blocks - 1) PROVE Heads(n)'
      BY DEF HashRing
    <3>1. n \in k..(o - 1) \/ n = o
      BY <1>1, <2>1, <2>2 DEF SameLink
    <3> QED
      BY <2>5, <2>6, <3>1
  <2>8. TreeLives /\ ~Between => HeldHeads' = HeldHeads /\ k < o
    <3> SUFFICES ASSUME TreeLives, ~Between PROVE HeldHeads' = HeldHeads /\ k < o
      OBVIOUS
    <3>1. k < o
      <4>1. sync.hash.numProcessed <= mf.blocks /\ sync.hash.numProcessed \in Nat
        BY <1>7, TreeInHeads, LinkFields DEF IInv, Links
      <4> QED
        BY <2>1, <4>1
    <3>2. HeadsOf(k)' = HeadsOf(k)
      BY <2>2, <2>3, <3>1
    <3> QED
      BY <1>1, <2>1, <3>1, <3>2 DEF HeldHeads, HeadsOf, SameLink
  <2>9. TreeLives => TreeAt' = TreeAt /\ TreeStart' = TreeStart /\ (TreeAtEnd => TreeAtEnd')
    <3> SUFFICES ASSUME TreeLives PROVE TreeAt' = TreeAt /\ TreeStart' = TreeStart /\ (TreeAtEnd => TreeAtEnd')
      OBVIOUS
    <3>1. CASE Between
      <4>1. HashAt(k)' = HashAt(k)
        BY <2>2, <2>4
      <4>2. TreeAt' = HashAt(k)' /\ TreeAt = HashAt(k)
        BY <1>1, <1>7, <1>8, <2>1, <3>1 DEF TreeAt, HashAt, HeadsOf, SameLink
      <4>3. TreeAt' = TreeAt
        BY <4>1, <4>2
      <4> QED
        BY <1>1, <1>8, <4>3 DEF TreeStart, TreeAtEnd
    <3>2. CASE ~Between
      <4>1. TreeAt' = TreeAt
        BY <1>1, <1>7, <1>8, <2>8, <3>2 DEF TreeAt, SameLink
      <4> QED
        BY <1>1, <1>8, <4>1 DEF TreeStart, TreeAtEnd
    <3> QED
      BY <3>1, <3>2
  <2>10. TreeRight'
    <3>1. TreeLives /\ ~Between /\ InHeads => InHeads'
      BY <1>1, <2>8 DEF InHeads, SameLink
    <3> QED
      BY <1>1, <1>7, <1>8, <2>9, <3>1 DEF IInv, TreeRight, SameLink
  <2>11. FillRight'
    BY <1>1, <1>8, <2>9 DEF IInv, FillRight
  <2>12. pc.main # "wait" => BtRing' /\ MainRight'
    <3>0. SUFFICES ASSUME pc.main # "wait" PROVE BtRing' /\ MainRight'
      OBVIOUS
    <3>1. TreeLives /\ TreeStart' = TreeStart
      BY <1>7, <2>9, <3>0, ReadsLive DEF IInv, Control
    <3>2. PICK p \in Int : p = sync.bt.numProcessed - 1 /\ sync'.bt.numProcessed - 1 = p
      BY <1>1, LinkFields DEF IInv, Links, SameLink
    <3>3. p \in Nat /\ bt.blocks \in Nat /\ p <= bt.blocks /\ (NotTaken("bt") = 0 => p < bt.blocks)
      BY <1>7, <3>0, <3>2, Taken DEF Links, Consumer, Blocks
    <3>4. \A n : MatchesOf(n)' = MatchesOf(n)
      BY <2>3 DEF MatchesOf
    <3>5. \A n \in p..(bt.blocks - 1) :
            Matches(n) /\ StartOf(MatchesOf(n))' = StartOf(MatchesOf(n)) /\ n < bt.blocks
      <4> SUFFICES ASSUME NEW n \in p..(bt.blocks - 1)
                   PROVE  Matches(n) /\ StartOf(MatchesOf(n))' = StartOf(MatchesOf(n)) /\ n < bt.blocks
        OBVIOUS
      <4>1. Matches(n) /\ n < bt.blocks
        BY <1>7, <3>0, <3>2, <3>3 DEF IInv, BtRing
      <4>2. MatchesOf(n).avail = 0 => AtEnd
        BY <4>1, Sizes DEF Matches
      <4> QED
        BY <1>1, <3>4, <4>1, <4>2 DEF StartOf
    <3>6. \A n \in p..bt.blocks : MainAt(n)' = MainAt(n)
      <4> SUFFICES ASSUME NEW n \in p..bt.blocks PROVE MainAt(n)' = MainAt(n)
        OBVIOUS
      <4>1. CASE n < bt.blocks
        <5>1. n \in p..(bt.blocks - 1)
          BY <3>3, <4>1
        <5> QED
          BY <1>1, <3>5, <4>1, <5>1 DEF MainAt
      <4>2. CASE ~(n < bt.blocks)
        BY <1>1, <3>1, <4>2 DEF MainAt
      <4> QED
        BY <4>1, <4>2
    <3>7. BtRing'
      <4> SUFFICES ASSUME NEW n \in p..(bt.blocks - 1) PROVE Matches(n)'
        BY <1>1, <3>2 DEF BtRing
      <4>1. n + 1 \in p..bt.blocks
        BY <3>3
      <4>2. MainAt(n + 1)' = MainAt(n + 1)
        BY <3>6, <4>1
      <4>3. /\ Matches(n) /\ MatchesOf(n)' = MatchesOf(n) /\ StartOf(MatchesOf(n))' = StartOf(MatchesOf(n))
        BY <3>4, <3>5
      <4>4. StartOf(MatchesOf(n)) \in Int /\ MatchesOf(n).avail \in Nat
        BY <1>2, <4>3 DEF Matches, StartOf
      <4>5. StartOf(MatchesOf(n)) + MatchesOf(n).avail <= mf'.streamPos
        BY <1>1, <1>2, <4>3, <4>4 DEF Matches
      <4>6. MatchesOf(n).avail - MatchesOf(n).num <= MatchMaxLen =>
              AtEnd' /\ StartOf(MatchesOf(n)) + MatchesOf(n).avail = mf'.streamPos
        BY <1>1, <4>3 DEF Matches
      <4> QED
        BY <1>1, <3>1, <4>2, <4>3, <4>5, <4>6 DEF Matches
    <3>8. CASE pc.main \in {"started", "filled", "enter"}
      <4>1. main.lzPos = MainAt(p)
        BY <1>7, <3>2, <3>8 DEF IInv, MainRight
      <4>2. MainAt(p)' = MainAt(p)
        BY <3>3, <3>6
      <4>3. MainAt(sync.bt.numProcessed - 1)' = MainAt(p)'
        BY <3>2 DEF MainAt, MatchesOf
      <4>4. MainRight'
        BY <1>1, <1>7, <3>8, <4>1, <4>2, <4>3 DEF MainRight, SameLink
      <4> QED
        BY <3>7, <4>4
    <3>9. CASE pc.main \in {"got", "get", "stop"}
      <4>1. p \in p..(bt.blocks - 1)
        BY <3>3, <3>9 DEF NotTaken, Consumer
      <4>2. MatchesOf(p)' = MatchesOf(p) /\ StartOf(MatchesOf(p))' = StartOf(MatchesOf(p))
        BY <3>4, <3>5, <4>1
      <4>3. MatchesOf(sync.bt.numProcessed - 1)' = MatchesOf(p) /\ MatchesOf(sync.bt.numProcessed - 1) = MatchesOf(p)
        BY <3>2, <4>2 DEF MatchesOf
      <4>4. StartOf(MatchesOf(sync.bt.numProcessed - 1))' = StartOf(MatchesOf(p))
        BY <4>2, <4>3 DEF StartOf
      <4>5. LET c == MatchesOf(p) IN
            /\ main.slot = p % BtNumBlocks
            /\ main.left <= c.num /\ main.lzPos = StartOf(c) + c.num - main.left
            /\ main.avail = c.avail - (c.num - main.left)
            /\ pc.main = "get" => main.left = 0
        BY <1>7, <3>2, <3>9, <4>3 DEF IInv, MainRight
      <4>6. MainRight'
        BY <1>1, <1>7, <3>2, <3>9, <4>3, <4>4, <4>5 DEF MainRight, SameLink
      <4> QED
        BY <3>7, <4>6
    <3>10. CASE pc.main = "stopped"
      BY <1>1, <3>7, <3>10 DEF MainRight
    <3> QED
      BY <1>7, <3>0, <3>8, <3>9, <3>10 DEF Streaming
  <2>13. BtRing' /\ MainRight'
    <3>1. pc.main = "wait" => BtRing' /\ MainRight'
      BY <1>1, <1>7 DEF BtRing, MainRight, SameLink
    <3> QED
      BY <2>12, <3>1
  <2> QED
    BY <1>6, <1>9, <2>7, <2>10, <2>11, <2>13 DEF Data
<1> QED
  BY <1>10, <1>11

-----------------------------------------------------------------------------
(* A new input.                                                            *)

LEMMA CreateData ==
  ASSUME IInv, Create
  PROVE  Data'
<1>1. /\ pc.main = "idle" /\ pc'.main \in {"init", "idle"} /\ pc'.hash \in {"none", "start"}
      /\ UNCHANGED <<mf, main>>
  BY CreateEffect DEF IInv, Places
<1>2. ~Streaming' /\ WindowRight'
  BY <1>1 DEF Streaming, IInv, WindowRight, NeedMove
<1> QED
  BY <1>2, UnstreamedData

LEMMA InitStreamData ==
  ASSUME IInv, InitStream
  PROVE  Data'
<1>1. pc.main = "init" /\ pc.bt = "start" /\ pc.hash = "start" /\ pc.round >= 1
      /\ sync.bt.needStart /\ sync.hash.needStart
  BY DEF InitStream, IInv, Places, AtRest
<1>2. /\ pc'.main = "get" /\ pc'.bt = "start" /\ pc'.hash = "start"
      /\ mf' = NewWindow /\ bt' = NewTree /\ UNCHANGED sync
      /\ \E len \in Nat : main' = NewMain(len)
  BY <1>1, InitStreamEffect DEF IInv, Moved
<1>3. WindowRight'
  BY <1>2, WindowSizes DEF WindowRight, NewWindow, NewMain
<1>4. Fresh' /\ bt' = NewTree /\ main'.lzPos = 0
  BY <1>2 DEF Fresh, NewTree, NewMain
<1>5. HashRing' /\ FillRight' /\ BtRing' /\ Reach'
  BY <1>1, <1>2 DEF HashRing, FillRight, Filling, BtRing, Reach, NewWindow
<1>6. TreeAt' = 0 /\ bt'.pos = 0
  BY <1>1, <1>2 DEF TreeAt, NewTree
<1>7. TreeRight'
  BY <1>1, <1>2, <1>4, <1>6 DEF TreeRight, Between
<1>8. MainRight'
  BY <1>1, <1>2, <1>4 DEF MainRight
<1> QED
  BY <1>3, <1>5, <1>7, <1>8 DEF Data

-----------------------------------------------------------------------------
(* Every step keeps the invariant.                                         *)

LEMMA Together ==
  Shapes /\ Control /\ Data => IInv
BY DEF Control, Data, IInv

LEMMA EncoderSteps ==
  ASSUME IInv, MainSteps
  PROVE  IInv'
<1>1. GetMatches => main.avail > 0
  BY GetMatchesData
<1>2. Shapes'
  BY <1>1, MainShapes
<1>3. Control' /\ Data'
  <2>1. CASE Create
    BY <2>1, CreateControl, CreateData
  <2>2. CASE InitStream
    BY <2>2, InitStreamControl, InitStreamData
  <2>3. CASE GetMatches
    BY <1>1, <2>3, GetMatchesControl, GetMatchesData
  <2>4. CASE GetNumAvailableBytes
    BY <2>4, GetNumAvailableBytesControl, GetNumAvailableBytesData
  <2>5. CASE Finish
    BY <2>5, FinishControl, FinishData
  <2>6. CASE Finished
    BY <2>6, FinishedControl, FinishedData
  <2>7. CASE Destruct
    BY <2>7, DestructControl, DestructData
  <2> QED
    BY <2>1, <2>2, <2>3, <2>4, <2>5, <2>6, <2>7 DEF MainSteps
<1> QED
  BY <1>2, <1>3, Together DEF Control, Data, IInv

LEMMA DestructorSteps ==
  ASSUME IInv, EndSteps
  PROVE  IInv'
<1>0. GetMatches => main.avail > 0
  BY GetMatchesData
<1>1. Shapes'
  BY <1>0, MainShapes
<1>2. Control' /\ Data'
  <2>1. CASE EndThread("hash", "endHash", "joinHash", "endBt")
    <3>1. CASE pc.hash = "none"
      BY <2>1, <3>1, HashNoEndControl, HashNoEndData
    <3>2. CASE pc.hash # "none"
      BY <2>1, <3>2, HashEndControl, HashEndData
    <3> QED
      BY <3>1, <3>2
  <2>2. CASE JoinThread("hash", "joinHash", "endBt")
    BY <2>2, HashJoinControl, HashJoinData
  <2>3. CASE EndThread("bt", "endBt", "joinBt", "done")
    <3>1. CASE pc.bt = "none"
      BY <2>3, <3>1, BtNoEndControl, BtNoEndData
    <3>2. CASE pc.bt # "none"
      BY <2>3, <3>2, BtEndControl, BtEndData
    <3> QED
      BY <3>1, <3>2
  <2>4. CASE JoinThread("bt", "joinBt", "done")
    BY <2>4, BtJoinControl, BtJoinData
  <2> QED
    BY <2>1, <2>2, <2>3, <2>4 DEF EndSteps
<1> QED
  BY <1>1, <1>2 DEF Control, Data, IInv

LEMMA EncoderLinkSteps ==
  ASSUME IInv, LinkStep("bt")
  PROVE  IInv'
<1>1. Shapes'
  BY LinkShapes, EncoderEnters DEF Links
<1>2. Control' /\ Data'
  <2>1. CASE GetFirst("bt")
    BY <2>1, BtGetFirstControl, BtGetFirstData
  <2>2. CASE AwaitStarted("bt")
    BY <2>2, BtAwaitStartedControl, BtAwaitStartedData
  <2>3. CASE GetNext("bt")
    BY <2>3, BtGetNextControl, BtGetNextData
  <2>4. CASE TakeFilled("bt")
    BY <2>4, BtTakeFilledControl, BtTakeFilledData
  <2>5. CASE EnterCS("bt")
    BY <2>5, BtEnterCSControl, BtEnterCSData
  <2>6. CASE StopWriting("bt")
    BY <2>6, BtStopWritingControl, BtStopWritingData
  <2>7. CASE AwaitStopped("bt")
    BY <2>7, BtAwaitStoppedControl, BtAwaitStoppedData
  <2> QED
    BY <2>1, <2>2, <2>3, <2>4, <2>5, <2>6, <2>7 DEF LinkStep
<1> QED
  BY <1>1, <1>2 DEF Control, Data, IInv

LEMMA TreeLinkSteps ==
  ASSUME IInv, LinkStep("hash")
  PROVE  IInv'
<1>1. Shapes'
  BY LinkShapes, TreeEnters DEF Links
<1>2. Control' /\ Data'
  <2>1. CASE GetFirst("hash")
    BY <2>1, HashGetFirstControl, HashGetFirstData
  <2>2. CASE AwaitStarted("hash")
    BY <2>2, HashAwaitStartedControl, HashAwaitStartedData
  <2>3. CASE GetNext("hash")
    BY <2>3, HashGetNextControl, HashGetNextData
  <2>4. CASE TakeFilled("hash")
    BY <2>4, HashTakeFilledControl, HashTakeFilledData
  <2>5. CASE EnterCS("hash")
    BY <2>5, HashEnterCSControl, HashEnterCSData
  <2>6. CASE StopWriting("hash")
    <3>1. CASE sync.hash.needStart
      BY <2>6, <3>1, HashStopUnstartedControl, HashStopUnstartedData
    <3>2. CASE ~sync.hash.needStart
      BY <2>6, <3>2, HashStopWritingControl, HashStopWritingData
    <3> QED
      BY <3>1, <3>2
  <2>7. CASE AwaitStopped("hash")
    BY <2>7, HashAwaitStoppedControl, HashAwaitStoppedData
  <2> QED
    BY <2>1, <2>2, <2>3, <2>4, <2>5, <2>6, <2>7 DEF LinkStep
<1> QED
  BY <1>1, <1>2 DEF Control, Data, IInv

LEMMA ProducerSteps ==
  ASSUME IInv, ProducerStep("bt") \/ ProducerStep("hash")
  PROVE  IInv'
<1>1. Shapes'
  BY ProducerShapes DEF Links
<1>2. Control' /\ Data'
  <2>1. CASE ThreadStart("bt")
    BY <2>1, BtThreadStartControl, BtThreadStartData
  <2>2. CASE ThreadExit("bt")
    BY <2>2, BtThreadExitControl, BtThreadExitData
  <2>3. CASE TakeFree("bt")
    BY <2>3, BtTakeFreeControl, BtTakeFreeData
  <2>4. CASE ThreadStart("hash")
    BY <2>4, HashThreadStartControl, HashThreadStartData
  <2>5. CASE ThreadExit("hash")
    BY <2>5, HashThreadExitControl, HashThreadExitData
  <2>6. CASE TakeFree("hash")
    BY <2>6, HashTakeFreeControl, HashTakeFreeData
  <2> QED
    BY <2>1, <2>2, <2>3, <2>4, <2>5, <2>6 DEF ProducerStep
<1> QED
  BY <1>1, <1>2 DEF Control, Data, IInv

LEMMA TreeSteps ==
  ASSUME IInv, BtStep
  PROVE  IInv'
<1>1. Shapes'
  BY BtShapes
<1>2. Control' /\ Data'
  <2>1. CASE BtStop
    BY <2>1, BtStopControl, BtStopData
  <2>2. CASE BtStopped
    BY <2>2, BtStoppedControl, BtStoppedData
  <2>3. CASE BtCheck
    BY <2>3, BtCheckControl, BtCheckData
  <2>4. CASE BtFillBlock
    <3>1. CASE sync.hash.needStart
      BY <2>4, <3>1, BtFillFirstControl, BtFillBlockData
    <3>2. CASE ~sync.hash.needStart
      BY <2>4, <3>2, BtFillBlockControl, BtFillBlockData
    <3> QED
      BY <3>1, <3>2
  <2>5. CASE FindMatches
    BY <2>5, FindMatchesControl, FindMatchesData
  <2>6. CASE GotHashBlock
    BY <2>6, GotHashBlockControl, GotHashBlockData
  <2>7. CASE BtBlockDone
    BY <2>7, BtBlockDoneControl, BtBlockDoneData
  <2> QED
    BY <2>1, <2>2, <2>3, <2>4, <2>5, <2>6, <2>7 DEF BtStep
<1> QED
  BY <1>1, <1>2 DEF Control, Data, IInv

LEMMA HashSteps ==
  ASSUME IInv, HashStep
  PROVE  IInv'
<1>1. Shapes'
  BY HashShapes
<1>2. Control' /\ Data'
  <2>1. CASE HashStop
    BY <2>1, HashStopControl, HashStopData
  <2>2. CASE HashCheck
    BY <2>2, HashCheckControl, HashCheckData
  <2>3. CASE EnterBtCS
    BY <2>3, EnterBtCSControl, EnterBtCSData
  <2>4. CASE EnterHashCS
    BY <2>4, EnterHashCSControl, EnterHashCSData
  <2>5. CASE MoveBlock
    BY <2>5, MoveBlockControl, MoveBlockData
  <2>6. CASE FillHashBlock
    BY <2>6, FillHashBlockControl, FillHashBlockData
  <2> QED
    BY <2>1, <2>2, <2>3, <2>4, <2>5, <2>6 DEF HashStep
<1> QED
  BY <1>1, <1>2 DEF Control, Data, IInv

LEMMA Unmoved ==
  ASSUME IInv, UNCHANGED vars
  PROVE  IInv'
<1>0. UNCHANGED <<pc, sync, mf, buf, bt, main>>
  BY DEF vars
<1>1. Shapes' /\ Places' /\ Sections'
  BY <1>0 DEF IInv, Shapes, Rings, Places, Streaming, AtRest, Sections
<1>2. LinkRight("bt")' /\ LinkRight("hash")'
  BY <1>0 DEF IInv, LinkRight, Streaming, Resting, AtRest, Handshake, Counting, Blocks, Held,
    Holding, Filling, NotTaken
<1>3. Control'
  BY <1>1, <1>2 DEF Control
<1>4. Data'
  BY <1>0, <1>3, SameData DEF IInv, WindowRight, Streaming, TreeLives, SameLink, Between, Filling
<1> QED
  BY <1>1, <1>3, <1>4 DEF Control, Data, IInv

LEMMA Inductive ==
  IInv /\ [Next]_vars => IInv'
BY Steps, EncoderSteps, DestructorSteps, EncoderLinkSteps, TreeLinkSteps, ProducerSteps, TreeSteps,
   HashSteps, Unmoved

LEMMA Invariance ==
  Spec => []IInv
BY Initial, Inductive, PTL DEF Spec

-----------------------------------------------------------------------------
(* The theorems.                                                           *)

(* A link whose flags are all t or f, and the same with one flag changed.  *)
Link(t, f, w, n, z, c) ==
  [needStart |-> t, exit |-> f, stopWriting |-> w, canStart |-> f, wasStarted |-> f,
   wasStopped |-> f, free |-> n, filled |-> z, cs |-> c, csWasEntered |-> f,
   numProcessed |-> z, mine |-> z]

LEMMA OneField ==
  ASSUME NEW t, NEW f, NEW w, NEW n, NEW z, NEW c
  PROVE  [Link(t, f, f, n, z, c) EXCEPT !.stopWriting = w] = Link(t, f, w, n, z, c)
BY DEF Link

LEMMA RestOfLink ==
  ASSUME Shapes, NEW s \in Links, AtRest(s)
  PROVE  sync[s] = [Rested(s) EXCEPT !.stopWriting = sync[s].stopWriting]
<1>1. sync[s] \in LinkType
  BY DEF Shapes
<1>2. PICK w, n, t, f, z, c : /\ w = sync[s].stopWriting /\ n = RingSize(s)
                             /\ t = TRUE /\ f = FALSE /\ z = 0 /\ c = "nobody"
  OBVIOUS
<1>3. PICK l : l = sync[s]
  OBVIOUS
<1>4. /\ l.needStart = t /\ l.exit = f /\ l.stopWriting = w /\ l.canStart = f /\ l.wasStarted = f
      /\ l.wasStopped = f /\ l.free = n /\ l.filled = z /\ l.cs = c
      /\ l.csWasEntered = f /\ l.numProcessed = z /\ l.mine = z
  BY <1>1, <1>2, <1>3 DEF LinkType, AtRest
<1>5. l = [needStart |-> l.needStart, exit |-> l.exit, stopWriting |-> l.stopWriting,
           canStart |-> l.canStart, wasStarted |-> l.wasStarted, wasStopped |-> l.wasStopped,
           free |-> l.free, filled |-> l.filled, cs |-> l.cs, csWasEntered |-> l.csWasEntered,
           numProcessed |-> l.numProcessed, mine |-> l.mine]
  BY <1>1, <1>3 DEF LinkType
<1>6. l = Link(t, f, w, n, z, c)
  BY <1>4, <1>5 DEF Link
<1>7. Rested(s) = Link(t, f, f, n, z, c)
  BY <1>2 DEF Rested, Link
<1>8. [Rested(s) EXCEPT !.stopWriting = w] = Link(t, f, w, n, z, c)
  BY <1>7, OneField
<1> QED
  BY <1>2, <1>3, <1>6, <1>8

(* Between two inputs, and when the encoder is destroyed, both threads are *)
(* at their start and both CMtSync are as they were at first, whatever was *)
(* interrupted before: MatchFinderMt_Init and MatchFinderMt_Destruct may   *)
(* touch everything without a lock.                                        *)
THEOREM ThreadsRest ==
  FairSpec => []ThreadsAtRest
<1>1. IInv => ThreadsAtRest
  BY RestOfLink DEF IInv, Places, ThreadsAtRest, Links
<1> QED
  BY <1>1, Invariance, PTL DEF FairSpec

LEMMA LinkCounts ==
  ASSUME IInv, NEW s \in Links
  PROVE  sync[s].free \in 0..RingSize(s) /\ sync[s].filled \in 0..RingSize(s)
<1>1. sync[s].free \in Nat /\ sync[s].filled \in Nat /\ RingSize(s) \in Nat
  BY LinkFields, Sizes DEF IInv
<1>2. CASE ~Streaming
  BY <1>1, <1>2, Sizes DEF IInv, Places
<1>3. CASE Streaming /\ sync[s].needStart
  BY <1>1, <1>3, Sizes DEF IInv, LinkRight, Resting, AtRest, Links
<1>4. CASE Streaming /\ ~sync[s].needStart
  <2>1. Counting(s)
    BY <1>4 DEF IInv, LinkRight, Links
  <2>2. /\ Blocks(s) \in Nat /\ Held(s) \in {0, 1} /\ NotTaken(s) \in {0, 1}
        /\ sync[s].numProcessed \in Nat /\ sync[s].mine \in Nat
    BY Fields, LinkFields DEF IInv, Blocks, Held, NotTaken
  <2>3. CASE pc[Consumer(s)] = "wait"
    BY <1>1, <2>1, <2>2, <2>3, Sizes DEF Counting
  <2>4. CASE pc[Consumer(s)] # "wait"
    BY <1>1, <2>1, <2>2, <2>4, Sizes DEF Counting
  <2> QED
    BY <2>3, <2>4
<1> QED
  BY <1>2, <1>3, <1>4

LEMMA Typed ==
  ASSUME IInv
  PROVE  TypeOK
<1>1. pc.round \in 0..MaxRounds
  BY DEF IInv, Shapes, PcType
<1>2. ASSUME NEW s \in Links
      PROVE  sync[s] \in [needStart : BOOLEAN, exit : BOOLEAN, stopWriting : BOOLEAN,
                    canStart : BOOLEAN, wasStarted : BOOLEAN, wasStopped : BOOLEAN,
                    free : 0..RingSize(s), filled : 0..RingSize(s),
                    cs : {"nobody", "hash", Consumer(s)}, csWasEntered : BOOLEAN,
                    numProcessed : Nat, mine : Nat]
  <2>1. sync[s] \in LinkType
    BY DEF IInv, Shapes
  <2>2. sync[s].free \in 0..RingSize(s) /\ sync[s].filled \in 0..RingSize(s)
    BY LinkCounts
  <2>3. sync[s].cs \in {"nobody", "hash", Consumer(s)}
    BY DEF IInv, Sections, Links, Consumer
  <2> QED
    BY <2>1, <2>2, <2>3 DEF LinkType
<1>3. mf \in [base : 0..main.len, pos : 0..main.len, streamPos : 0..main.len, ended : BOOLEAN,
             result : {"ok", "read"}, blocks : Nat]
  <2>1. mf \in WindowType /\ main.len \in Nat
    BY Fields DEF IInv, Shapes
  <2>2. mf.base \in 0..main.len /\ mf.pos \in 0..main.len /\ mf.streamPos \in 0..main.len
    BY <2>1, Fields DEF IInv, WindowRight
  <2> QED
    BY <2>1, <2>2 DEF WindowType
<1>4. /\ bt.left \in 0..HashBlockSize /\ bt.avail \in 0..main.len /\ bt.pos \in 0..main.len
      /\ bt.count \in 0..(BtBlockSize + NumHashBytes)
      /\ main.left \in 0..(BtBlockSize + NumHashBytes) /\ main.avail \in 0..main.len
  BY Sizes DEF IInv, Shapes, TreeType, EncoderType
<1> QED
  BY <1>1, <1>2, <1>3, <1>4 DEF TypeOK

(* The window is moved only while neither reader is in its critical        *)
(* section, and a move never drops what either may still refer to, however *)
(* far both lag behind: the bytes that MatchFinderMt_Create keeps behind   *)
(* pos are enough for any sizes of the two rings.  All counts are within   *)
(* their buffers.                                                          *)
THEOREM WindowKept ==
  FairSpec => []WindowIsKept
<1>1. IInv => WindowIsKept
  <2> SUFFICES ASSUME IInv PROVE WindowIsKept
    OBVIOUS
  <2>1. TypeOK
    BY Typed
  <2>2. SUFFICES ASSUME InStream
                 PROVE  /\ pc.hash = "move" => pc.main # "got" /\ pc.bt \notin {"got", "matches", "leave"}
                        /\ mf.base > 0 =>
                             /\ pc.main \notin {"wait", "stopped"} => mf.base <= main.lzPos - HistorySize
                             /\ pc.bt \notin {"start", "wait", "stopped"} => mf.base <= bt.pos - HistorySize
                        /\ mf.streamPos <= mf.base + BlockSize
    BY <2>1 DEF WindowIsKept
  <2>3. Streaming
    BY <2>2, Fields DEF IInv, InStream, Streaming, MainPcs
  <2>4. pc.hash = "move" => pc.main # "got" /\ pc.bt \notin {"got", "matches", "leave"}
    <3> SUFFICES ASSUME pc.hash = "move" PROVE pc.main # "got" /\ pc.bt \notin {"got", "matches", "leave"}
      OBVIOUS
    <3>1. ~sync.bt.csWasEntered /\ ~sync.hash.csWasEntered
      BY DEF IInv, Sections
    <3>2. /\ pc.main = "got" => ~sync.bt.needStart
          /\ pc.bt \in {"got", "matches", "leave"} => ~sync.hash.needStart
      BY ConsumerActive DEF Links, Consumer
    <3> QED
      BY <2>3, <3>1, <3>2 DEF IInv, Sections
  <2>5. pc.bt \notin {"start", "wait", "stopped"} => TreeLives
    BY <2>3 DEF TreeLives
  <2> QED
    BY <2>3, <2>4, <2>5 DEF IInv, Reach, WindowRight
<1> QED
  BY <1>1, Invariance, PTL DEF FairSpec

(* The tree thread and the encoder each read what was made for the         *)
(* position they are at, from a slot that is not being filled again; the   *)
(* encoder never believes in more bytes than were read, and is told that   *)
(* there are none only at the end of the input, or of what could be read.  *)
THEOREM StreamFollowed ==
  FairSpec => []StreamIsFollowed
<1>1. IInv => StreamIsFollowed
  <2> SUFFICES ASSUME IInv PROVE StreamIsFollowed
    OBVIOUS
  <2>1. pc.bt = "matches" =>
          buf.hash[bt.slot].from + buf.hash[bt.slot].num - bt.left = bt.pos
    <3> SUFFICES ASSUME pc.bt = "matches"
                 PROVE  buf.hash[bt.slot].from + buf.hash[bt.slot].num - bt.left = bt.pos
      OBVIOUS
    <3>1. TreeLives /\ ~sync.hash.needStart /\ ~Between
      BY TreeFills
    <3>2. /\ Heads(sync.hash.numProcessed - 1) /\ InHeads
          /\ TreeAt = HeldHeads.from + HeldHeads.avail - bt.avail
      BY <3>1, TreeInHeads
    <3>3. buf.hash[bt.slot] = HeldHeads
      BY <3>2 DEF InHeads, HeldHeads, HeadsOf
    <3>4. bt.left > 0 /\ bt.pos = TreeAt
      BY <3>1 DEF IInv, TreeRight, TreeAtEnd
    <3>5. HeldHeads.from \in Nat /\ HeldHeads.avail \in Nat /\ HeldHeads.num = NumHeads(HeldHeads.avail)
      BY <3>2 DEF Heads, HeldHeads
    <3>6. HeldHeads.num \in Nat /\ bt.avail \in Nat /\ bt.left \in Nat
      BY <3>5, HeadsInBlock, Sizes, Fields DEF IInv
    <3>7. HeldHeads.avail - bt.avail = HeldHeads.num - bt.left
      BY <3>2, <3>4, <3>5, Sizes DEF InHeads
    <3> QED
      BY <3>2, <3>3, <3>4, <3>5, <3>6, <3>7
  <2>2. pc.main = "got" =>
          LET b == buf.bt[main.slot] IN
          /\ main.left > 0 => b.from + b.num - main.left = main.lzPos
          /\ main.left <= main.avail /\ main.lzPos + main.avail <= mf.streamPos
          /\ main.avail = 0 =>
               main.lzPos = IF mf.result = "ok" THEN main.len ELSE mf.streamPos
    <3> SUFFICES ASSUME pc.main = "got"
                 PROVE  LET b == buf.bt[main.slot] IN
                        /\ main.left > 0 => b.from + b.num - main.left = main.lzPos
                        /\ main.left <= main.avail /\ main.lzPos + main.avail <= mf.streamPos
                        /\ main.avail = 0 =>
                             main.lzPos = IF mf.result = "ok" THEN main.len ELSE mf.streamPos
      OBVIOUS
    <3>1. ~sync.bt.needStart
      BY ConsumerActive DEF Links, Consumer
    <3> DEFINE c == MatchesOf(sync.bt.numProcessed - 1)
    <3>2. /\ Streaming /\ Matches(sync.bt.numProcessed - 1)
          /\ main.left <= main.avail /\ main.lzPos + main.avail <= mf.streamPos
          /\ main.avail = 0 => AtEnd /\ main.lzPos = mf.streamPos
      BY <3>1, EncoderIn
    <3>3. /\ main.slot = (sync.bt.numProcessed - 1) % BtNumBlocks
          /\ main.left <= c.num /\ main.lzPos = StartOf(c) + c.num - main.left
      BY <3>1, <3>2 DEF IInv, MainRight
    <3>4. buf.bt[main.slot] = c
      BY <3>3 DEF MatchesOf
    <3>5. c.from \in Nat /\ c.num \in Nat /\ c.avail \in Nat /\ c.num <= c.avail
      BY <3>2, Sizes DEF Matches
    <3>6. main.left \in Nat
      BY Fields DEF IInv
    <3> HIDE DEF c
    <3>7. main.left > 0 => c.from + c.num - main.left = main.lzPos
      BY <3>3, <3>5, <3>6 DEF StartOf
    <3>8. main.avail = 0 => main.lzPos = IF mf.result = "ok" THEN main.len ELSE mf.streamPos
      BY <3>2 DEF AtEnd, IInv, WindowRight
    <3> QED
      BY <3>2, <3>4, <3>7, <3>8
  <2> QED
    BY <2>1, <2>2 DEF StreamIsFollowed
<1> QED
  BY <1>1, Invariance, PTL DEF FairSpec
=============================================================================
