--------------------------- MODULE SevenZipUpdate ---------------------------
(***************************************************************************)
(* Update of a 7z archive (N7z::Update).  Solid folders of the old archive *)
(* are copied when all their files stay, and otherwise repacked: a second  *)
(* thread decodes the whole folder, drops what does not stay, and hands    *)
(* the rest through a stream binder to the encoder on the main thread.     *)
(* (With -mmf=off one thread does both.)  New files make new folders.  The *)
(* new database must tie files to folders as a reader will.                *)
(*                                                                         *)
(* A byte of data is named for where it came from.  Names, times, coders   *)
(* and the order within a group are left out: an item stands for its name. *)
(***************************************************************************)
EXTENDS SevenZipLinks, FiniteSetsExt, SequencesExt

CONSTANTS
  Updates,  \* what Update is called with, see UpdateType
  MaxSize,  \* bound: the longest a new file turns out to be
  Faults    \* callbacks, files and threads may fail

(* old is IndexInArchive, 0 if the file is new; mt is MultiThreadMixer and *)
(* password is PasswordIsDefined.                                          *)
FileType == [size : Nat, hasStream : BOOLEAN, crcDefined : BOOLEAN]
FolderType == [streams : Nat, filter : Nat, encrypted : BOOLEAN]
ItemType == [old : Nat, newData : BOOLEAN, size : Nat, filter : Nat]
UpdateType ==
  [files : Seq(FileType), folders : Seq(FolderType), items : Seq(ItemType),
   numSolidFiles : Nat \ {0}, useFilters : BOOLEAN, mt : BOOLEAN, password : BOOLEAN]

ASSUME ConstantsAssumption == MaxSize \in Nat /\ Faults \in BOOLEAN

VARIABLES
  u,        \* the arguments; never change
  damaged,  \* old files whose bytes do not decode to what their CRC says; never changes
  jobs,     \* filters and groups: the folders to make, in their order; never changes
  main,     \* main thread: pc, job, whether the threads of its encoder are still to be
            \*   created, whether its mixer holds on to the input, encodeRes, result
  worker,   \* threadDecoder: pc, the Write it is in (size, cur, what the stream said)
            \*   and Result; with one thread, Result of the FolderInStream2
  rp,       \* CRepackStreamBase
  binder,   \* sb: bytes on offer, which ends are closed, ProcessedSize
  fin,      \* CFolderInStream: index, whether a file is open, Sizes (Locked: not Processed)
  data,     \* what the encoder has read for the folder it makes
  newDatabase, \* Files, NumUnpackStreamsVector and, for Folders, what is in them
  given     \* history: how many bytes the callback gave for a new file, or Locked

vars == <<u, damaged, jobs, main, worker, rp, binder, fin, data, newDatabase, given>>

Constant == UNCHANGED <<u, damaged, jobs>>

Locked == -1

File(f) == u.files[f]
Items == DOMAIN u.items

(* fileIndexToUpdateIndexMap, and -1 also for what gets new data.          *)
KeptBy(f) == {i \in Items : u.items[i].old = f /\ ~u.items[i].newData}
Kept(f) == KeptBy(f) # {}

HasStream(i) == u.items[i].newData /\ u.items[i].size # 0

Sorted(S) == SelectSeq([i \in 1..(IF S = {} THEN 0 ELSE Max(S)) |-> i], LAMBDA i : i \in S)

-----------------------------------------------------------------------------
(* Groups: folders and files of one filter, encrypted or not.              *)

Streams(k) == {f \in LinkedFiles(u, k) : File(f).hasStream}
NumCopyFiles(k) == Cardinality({f \in Streams(k) : Kept(f)})
NeedCopy(k) == NumCopyFiles(k) = u.folders[k].streams

FolderGroup(k) ==
  [encrypted |-> u.folders[k].encrypted,
   filter |-> IF u.useFilters \/ NeedCopy(k) THEN u.folders[k].filter ELSE 0]

ItemGroup(i) ==
  [encrypted |-> u.password, filter |-> IF u.useFilters THEN u.items[i].filter ELSE 0]

FilterBefore(g, h) ==
  IF g.encrypted = h.encrypted THEN g.filter < h.filter ELSE h.encrypted

FolderJob(k) == [kind |-> IF NeedCopy(k) THEN "copy" ELSE "repack", folder |-> k,
                 files |-> Sorted(LinkedFiles(u, k)), items |-> <<>>, group |-> FolderGroup(k)]

(* New files in solid blocks.  (A limit on bytes, or one extension to a    *)
(* block, only makes blocks shorter.)                                      *)
BlockJobs(g) ==
  LET q == Sorted({i \in Items : HasStream(i) /\ ItemGroup(i) = g})
      n == u.numSolidFiles IN
  [b \in 1..((Len(q) + n - 1) \div n) |->
     [kind |-> "block", folder |-> NoFolder, files |-> <<>>, group |-> g,
      items |-> SubSeq(q, (b - 1) * n + 1, IF b * n < Len(q) THEN b * n ELSE Len(q))]]

Jobs ==
  LET folders == {k \in DOMAIN u.folders : NumCopyFiles(k) # 0}
      groups == {FolderGroup(k) : k \in folders} \cup
                {ItemGroup(i) : i \in {j \in Items : HasStream(j)}}
      Old(g) == Sorted({k \in folders : FolderGroup(k) = g})
      Of(g) == [n \in DOMAIN Old(g) |-> FolderJob(Old(g)[n])] \o BlockJobs(g)
      order == SetToSortSeq(groups, FilterBefore)
  IN FlattenSeq([n \in DOMAIN order |-> Of(order[n])])

ThereAreRepacks == \E n \in DOMAIN jobs : jobs[n].kind = "repack"

Job == jobs[main.job]
IsJob(kind) == main.job <= Len(jobs) /\ Job.kind = kind
RepackInThread == u.mt /\ IsJob("repack")

-----------------------------------------------------------------------------
NoRepack == [index |-> 0, open |-> FALSE, needWrite |-> FALSE, rem |-> 0]
NewBinder == [buf |-> <<>>, readClosed |-> FALSE, writeClosed |-> FALSE, processed |-> 0]
NoFile == [index |-> 1, open |-> FALSE, sizes |-> <<>>]

Init ==
  /\ u \in Updates
  /\ jobs = Jobs
  /\ damaged \in SUBSET {f \in DOMAIN u.files : File(f).size # 0}
  /\ main = [pc |-> "create", job |-> 1, fresh |-> TRUE, held |-> FALSE,
             encodeRes |-> "ok", result |-> "none"]
  /\ worker = [pc |-> "idle", size |-> 0, cur |-> 0, result |-> "ok"]
  /\ rp = NoRepack /\ binder = NewBinder /\ fin = NoFile /\ data = <<>>
  /\ newDatabase = [files |-> <<>>, streams |-> <<>>, folders |-> <<>>]
  /\ given = [i \in Items |-> Locked]

Return(r) == main' = [main EXCEPT !.pc = "join", !.result = r]

Coding == <<worker, rp, binder, fin, data>>

(* The thread is created if there is something to repack.  The callback    *)
(* is asked for passwords and, to choose filters, for the first bytes of   *)
(* files.                                                                  *)
CreateThread ==
  /\ main.pc = "create"
  /\ \/ main' = [main EXCEPT !.pc = "empty"]
     \/ Faults /\ ThereAreRepacks /\ u.mt /\ Return("thread")
     \/ Faults /\ Return("abort")
  /\ Constant /\ UNCHANGED <<newDatabase, given>> /\ UNCHANGED Coding

(* An entry of CFileItem.  Only the size and the flag say later which data *)
(* belongs to it.                                                          *)
OldEntry(i) ==
  LET f == File(u.items[i].old) IN [item |-> i, size |-> f.size, hasStream |-> f.hasStream]

WriteEmptyFiles ==
  LET Empty(i) == IF u.items[i].newData THEN ~HasStream(i) ELSE ~File(u.items[i].old).hasStream
      q == Sorted({i \in Items : Empty(i)}) IN
  /\ main.pc = "empty"
  /\ newDatabase' = [newDatabase EXCEPT !.files =
       [n \in DOMAIN q |-> [item |-> q[n], size |-> 0, hasStream |-> FALSE]]]
  /\ main' = [main EXCEPT !.pc = "next"]
  /\ Constant /\ UNCHANGED given /\ UNCHANGED Coding

(* AddFile for every file of a folder that stays.                          *)
OldEntries ==
  LET q == SelectSeq(Job.files, LAMBDA f : File(f).hasStream /\ Kept(f)) IN
  [n \in DOMAIN q |-> OldEntry(CHOOSE i \in KeptBy(q[n]) : TRUE)]

FolderDone(entries, streams, content, encrypted) ==
  /\ newDatabase' = [files |-> newDatabase.files \o entries,
                     streams |-> Append(newDatabase.streams, streams),
                     folders |-> Append(newDatabase.folders,
                                        [data |-> content, encrypted |-> encrypted])]
  /\ LET last == main.job = Len(jobs) IN
     main' = [main EXCEPT !.pc = "next", !.job = @ + 1,
                          !.fresh = IF last THEN @ ELSE @ \/ jobs[main.job + 1].group # Job.group]

OldBytes(f) == [k \in 1..File(f).size |-> <<"old", f, k>>]

CopyFolder ==
  /\ main.pc = "next" /\ IsJob("copy")
  /\ \/ FolderDone(OldEntries, NumCopyFiles(Job.folder),
                   FlattenSeq([n \in DOMAIN Job.files |-> OldBytes(Job.files[n])]),
                   u.folders[Job.folder].encrypted)
     \/ Faults /\ Return("abort") /\ UNCHANGED newDatabase
  /\ Constant /\ UNCHANGED given /\ UNCHANGED Coding
-----------------------------------------------------------------------------
(* Repacking: CRepackStreamBase.  Its index is a position in Job.files.    *)

OldSize(p) == File(Job.files[p]).size
NumFiles == Len(Job.files)

AfterEmptyFiles(p) ==
  CHOOSE n \in p..(NumFiles + 1) :
    /\ n = NumFiles + 1 \/ OldSize(n) # 0
    /\ \A m \in p..(n - 1) : OldSize(m) = 0

SumOfSizes(S) == MapThenSumSet(OldSize, S)

NeedExtract(f) == File(f).hasStream /\ Kept(f)
SizeToEncode == SumOfSizes({p \in DOMAIN Job.files : NeedExtract(Job.files[p])})

(* What the decoder has yet to deliver.                                    *)
Remaining ==
  IF rp.open THEN rp.rem + SumOfSizes((rp.index + 1)..NumFiles) ELSE SumOfSizes(rp.index..NumFiles)

OpenedFile ==
  [index |-> rp.index, open |-> TRUE, needWrite |-> NeedExtract(Job.files[rp.index]),
   rem |-> OldSize(rp.index)]

(* n bytes of the open file have been decoded.  At its end it is closed,   *)
(* and the empty files behind it are passed unless its CRC is wrong.       *)
CrcIsWrong(f) == File(f).crcDefined /\ f \in damaged

FileEnds(n) == n = rp.rem

Passed(n) ==
  IF ~FileEnds(n) THEN [rp EXCEPT !.rem = @ - n]
  ELSE [rp EXCEPT !.open = FALSE, !.rem = 0,
                  !.index = IF CrcIsWrong(Job.files[@]) THEN @ + 1 ELSE AfterEmptyFiles(@ + 1)]

(* Callbacks hear of a wrong CRC and of every file that is opened.         *)
CloseResults(n) ==
  IF ~FileEnds(n) THEN {"ok"}
  ELSE LET crc == CrcIsWrong(Job.files[rp.index])
           empty == rp.index < NumFiles /\ OldSize(rp.index + 1) = 0 IN
       {IF crc THEN "crc" ELSE "ok"} \cup (IF Faults /\ (crc \/ empty) THEN {"abort"} ELSE {})

Bytes(n) ==
  LET f == Job.files[rp.index] IN [k \in 1..n |-> <<"old", f, OldSize(rp.index) - rp.rem + k>>]

DamagedFolder == \E p \in DOMAIN Job.files : Job.files[p] \in damaged

(* How a decoder may end early.  A damaged folder may also just be short.  *)
DecoderErrors ==
  (IF DamagedFolder THEN {"data"} ELSE {}) \cup (IF Faults THEN {"read"} ELSE {})

Encoding(kind) == main.pc = "encode" /\ IsJob(kind)

(* With one thread the decoder is set up here, and may fail.               *)
StartRepack ==
  /\ main.pc = "next" /\ IsJob("repack")
  /\ \/ /\ main' = [main EXCEPT !.pc = "mixer"]
        /\ rp' = [NoRepack EXCEPT !.index = AfterEmptyFiles(1)]
        /\ data' = <<>> /\ binder' = NewBinder
        /\ worker' = [worker EXCEPT !.pc = IF u.mt THEN "decode" ELSE "idle", !.result = "ok"]
     \/ Faults /\ Return("abort") /\ UNCHANGED <<rp, data, binder, worker>>
     \/ Faults /\ ~u.mt /\ Return("read") /\ UNCHANGED <<rp, data, binder, worker>>
  /\ Constant /\ UNCHANGED <<fin, newDatabase, given>>

(* CMixerMT::Code of the encoder.  Its threads are created by the first    *)
(* call; when that fails, the mixer has taken the input stream before.     *)
CreateCoders ==
  LET threads == u.mt /\ (Job.group.filter # 0 \/ Job.group.encrypted) IN
  /\ main.pc = "mixer"
  /\ \/ main' = [main EXCEPT !.pc = "encode", !.fresh = FALSE, !.encodeRes = "ok"]
     \/ /\ Faults /\ main.fresh /\ threads
        /\ IF RepackInThread
           THEN main' = [main EXCEPT !.pc = "release", !.encodeRes = "thread", !.held = TRUE]
           ELSE Return("thread")
  /\ Constant /\ UNCHANGED <<newDatabase, given>> /\ UNCHANGED Coding

-----------------------------------------------------------------------------
(* Repacking, the encoder with a decoder on the other thread.              *)

(* Variant for a mutant: an error is returned at once.                     *)
AfterEncode_ReturnOnError(r) ==
  IF r = "ok" THEN main' = [main EXCEPT !.pc = "release", !.encodeRes = r] ELSE Return(r)

AfterEncode(r) == main' = [main EXCEPT !.pc = "release", !.encodeRes = r]

EncoderReads ==
  /\ Encoding("repack") /\ u.mt
  /\ \E n \in 1..Len(binder.buf) :
       /\ data' = data \o SubSeq(binder.buf, 1, n)
       /\ binder' = [binder EXCEPT !.buf = SubSeq(@, n + 1, Len(@)), !.processed = @ + n]
  /\ Constant /\ UNCHANGED <<main, worker, rp, fin, newDatabase, given>>

EncoderEnds ==
  /\ Encoding("repack") /\ u.mt
  /\ \/ binder.writeClosed /\ binder.buf = <<>> /\ AfterEncode("ok")
     \/ Faults /\ AfterEncode("write")
  /\ Constant /\ UNCHANGED <<newDatabase, given>> /\ UNCHANGED Coding

(* Variant for a mutant: the streams are released after the wait.          *)
CloseRead_Kept ==
  /\ main.pc = "release"
  /\ main' = [main EXCEPT !.pc = "await"]
  /\ Constant /\ UNCHANGED <<newDatabase, given>> /\ UNCHANGED Coding

CloseRead ==
  /\ main.pc = "release"
  /\ main' = [main EXCEPT !.pc = "await"]
  /\ binder' = [binder EXCEPT !.readClosed = ~main.held]
  /\ Constant /\ UNCHANGED <<worker, rp, fin, data, newDatabase, given>>

AwaitWorker ==
  /\ main.pc = "await" /\ worker.pc = "idle"
  /\ main' = [main EXCEPT !.pc = "verdict"]
  /\ Constant /\ UNCHANGED <<newDatabase, given>> /\ UNCHANGED Coding

RepackResult ==
  IF worker.result = "data" \/ (~u.mt /\ main.encodeRes = "crc") THEN "fail"
  ELSE IF worker.result # "ok" THEN worker.result
  ELSE IF u.mt /\ main.encodeRes = "ok" /\ binder.processed # SizeToEncode THEN "fail"
  ELSE IF main.encodeRes # "ok" THEN main.encodeRes
  ELSE IF rp.index # NumFiles + 1 \/ Len(data) # SizeToEncode THEN "fail"
  ELSE "ok"

Verdict ==
  /\ main.pc = "verdict"
  /\ \/ IF RepackResult = "ok"
        THEN FolderDone(OldEntries, NumCopyFiles(Job.folder), data, Job.group.encrypted)
        ELSE Return(RepackResult) /\ UNCHANGED newDatabase
     \/ Faults /\ worker.result = "data" /\ Return("abort") /\ UNCHANGED newDatabase
  /\ Constant /\ UNCHANGED given /\ UNCHANGED Coding

-----------------------------------------------------------------------------
(* Repacking, the thread that decodes: CFolderOutStream2::Write.           *)

(* The mixer of the decoder takes a cut stream for a success.              *)
WorkerReturns(r) ==
  /\ worker' = [worker EXCEPT !.pc = "idle", !.size = 0, !.cur = 0,
                              !.result = IF r = "cut" THEN "ok" ELSE r]
  /\ binder' = [binder EXCEPT !.buf = <<>>, !.writeClosed = TRUE]

DecodedBytes ==
  /\ worker.pc = "decode"
  /\ \E n \in 1..Remaining : worker' = [worker EXCEPT !.pc = "write", !.size = n]
  /\ Constant /\ UNCHANGED <<main, rp, binder, fin, data, newDatabase, given>>

DecoderEnds ==
  /\ worker.pc = "decode"
  /\ \E r \in DecoderErrors \cup (IF Remaining = 0 \/ DamagedFolder THEN {"ok"} ELSE {}) :
       WorkerReturns(r)
  /\ Constant /\ UNCHANGED <<main, rp, fin, data, newDatabase, given>>

OpenOldFile ==
  /\ worker.pc = "write" /\ ~rp.open
  /\ \/ rp' = OpenedFile /\ UNCHANGED <<worker, binder>>
     \/ Faults /\ WorkerReturns("abort") /\ UNCHANGED rp
  /\ Constant /\ UNCHANGED <<main, fin, data, newDatabase, given>>

(* The rest of a round: n bytes have been taken, result is what the stream *)
(* said.                                                                   *)
RoundEnds(n, result) ==
  /\ rp' = Passed(n)
  /\ \E r \in CloseResults(n) :
       LET all == IF r = "ok" THEN result ELSE r IN
       IF all # "ok" THEN WorkerReturns(all)
       ELSE /\ worker' = [worker EXCEPT !.size = @ - n, !.cur = 0,
                                        !.pc = IF worker.size = n THEN "decode" ELSE "write"]
            /\ binder' = [binder EXCEPT !.buf = <<>>]

Cur == IF worker.size < rp.rem THEN worker.size ELSE rp.rem

SkipOldBytes ==
  /\ worker.pc = "write" /\ rp.open /\ ~rp.needWrite
  /\ RoundEnds(Cur, "ok")
  /\ Constant /\ UNCHANGED <<main, fin, data, newDatabase, given>>

OfferOldBytes ==
  /\ worker.pc = "write" /\ rp.open /\ rp.needWrite
  /\ worker' = [worker EXCEPT !.pc = "offer", !.cur = Cur]
  /\ binder' = [binder EXCEPT !.buf = Bytes(Cur)]
  /\ Constant /\ UNCHANGED <<main, rp, fin, data, newDatabase, given>>

(* CBinderOutStream::Write returns when all is read, or when the reader is *)
(* gone: with what it took of it, or else with WritingWasCut.              *)
OfferTaken ==
  LET taken == worker.cur - Len(binder.buf) IN
  /\ worker.pc = "offer" /\ (binder.buf = <<>> \/ binder.readClosed)
  /\ RoundEnds(taken, IF taken = 0 THEN "cut" ELSE "ok")
  /\ Constant /\ UNCHANGED <<main, fin, data, newDatabase, given>>

-----------------------------------------------------------------------------
(* Repacking with one thread: CFolderInStream2::Read.                      *)

EncodeReturns(r) == main' = [main EXCEPT !.pc = "verdict", !.encodeRes = r]

OneThread == Encoding("repack") /\ ~u.mt

OpenOldFileHere ==
  /\ OneThread /\ ~rp.open /\ rp.index <= NumFiles
  /\ \/ rp' = OpenedFile /\ UNCHANGED main
     \/ Faults /\ EncodeReturns("abort") /\ UNCHANGED rp
  /\ Constant /\ UNCHANGED <<worker, binder, fin, data, newDatabase, given>>

DecodeHere ==
  /\ OneThread /\ rp.open
  /\ \E n \in 1..rp.rem :
       /\ rp' = Passed(n)
       /\ data' = IF rp.needWrite THEN data \o Bytes(n) ELSE data
       /\ \E r \in CloseResults(n) : IF r = "ok" THEN UNCHANGED main ELSE EncodeReturns(r)
  /\ Constant /\ UNCHANGED <<worker, binder, fin, newDatabase, given>>

DecodeFailsHere ==
  /\ OneThread /\ rp.open
  /\ \/ \E r \in DecoderErrors : EncodeReturns(r) /\ worker' = [worker EXCEPT !.result = r]
     \/ DamagedFolder /\ EncodeReturns("fail") /\ UNCHANGED worker
  /\ Constant /\ UNCHANGED <<rp, binder, fin, data, newDatabase, given>>

EncodeEndsHere ==
  /\ OneThread
  /\ \/ ~rp.open /\ rp.index = NumFiles + 1 /\ EncodeReturns("ok")
     \/ Faults /\ EncodeReturns("write")
  /\ Constant /\ UNCHANGED <<newDatabase, given>> /\ UNCHANGED Coding

-----------------------------------------------------------------------------
(* New files: CFolderInStream.  A file that cannot be opened is locked;    *)
(* one that can may be of another size by now.                             *)

StartBlock ==
  /\ main.pc = "next" /\ IsJob("block")
  /\ main' = [main EXCEPT !.pc = "mixer"]
  /\ fin' = NoFile /\ data' = <<>>
  /\ Constant /\ UNCHANGED <<worker, rp, binder, newDatabase, given>>

NewFile == Job.items[fin.index]
IsNext == Encoding("block") /\ fin.index <= Len(Job.items)

NextNewFile(size) == [index |-> fin.index + 1, open |-> FALSE, sizes |-> Append(fin.sizes, size)]

OpenStream ==
  /\ IsNext /\ ~fin.open
  /\ \/ /\ fin' = [fin EXCEPT !.open = TRUE]
        /\ given' = [given EXCEPT ![NewFile] = 0]
        /\ UNCHANGED main
     \/ fin' = NextNewFile(Locked) /\ UNCHANGED <<main, given>>
     \/ Faults /\ Return("abort") /\ UNCHANGED <<fin, given>>
  /\ Constant /\ UNCHANGED <<worker, rp, binder, data, newDatabase>>

ReadNewBytes ==
  /\ IsNext /\ fin.open /\ given[NewFile] < MaxSize
  /\ given' = [given EXCEPT ![NewFile] = @ + 1]
  /\ data' = Append(data, <<"new", NewFile, given'[NewFile]>>)
  /\ Constant /\ UNCHANGED <<main, worker, rp, binder, fin, newDatabase>>

(* With an error of Read or of SetOperationResult.                         *)
CloseStream ==
  /\ IsNext /\ fin.open
  /\ \/ fin' = NextNewFile(given[NewFile]) /\ UNCHANGED main
     \/ Faults /\ Return("abort") /\ UNCHANGED fin
  /\ Constant /\ UNCHANGED <<worker, rp, binder, data, newDatabase, given>>

Processed == SelectSeq([n \in DOMAIN fin.sizes |-> n], LAMBDA n : fin.sizes[n] # Locked)

BlockEntries ==
  [n \in DOMAIN Processed |-> [item |-> Job.items[Processed[n]], size |-> fin.sizes[Processed[n]],
                              hasStream |-> fin.sizes[Processed[n]] # 0]]

(* Variant for a mutant: a file that turned out empty is counted.          *)
NumUnpackStreams_CountEmpty == Len(Processed)

NumUnpackStreams == Cardinality({n \in DOMAIN BlockEntries : BlockEntries[n].hasStream})

EncodeBlockEnds ==
  /\ Encoding("block")
  /\ \/ /\ fin.index > Len(Job.items)
        /\ FolderDone(BlockEntries, NumUnpackStreams, data, Job.group.encrypted)
     \/ Faults /\ Return("write") /\ UNCHANGED newDatabase
  /\ Constant /\ UNCHANGED given /\ UNCHANGED Coding

Finish ==
  /\ main.pc = "next" /\ main.job > Len(jobs)
  /\ Return("ok") \/ (Faults /\ Return("abort"))
  /\ Constant /\ UNCHANGED <<newDatabase, given>> /\ UNCHANGED Coding

(* The destructor of threadDecoder: WaitThreadFinish.                      *)
Join ==
  /\ main.pc = "join" /\ worker.pc = "idle"
  /\ main' = [main EXCEPT !.pc = "returned"]
  /\ Constant /\ UNCHANGED <<newDatabase, given>> /\ UNCHANGED Coding

MainStep ==
  \/ CreateThread \/ WriteEmptyFiles \/ CopyFolder \/ StartRepack \/ CreateCoders
  \/ EncoderReads \/ EncoderEnds \/ CloseRead \/ AwaitWorker \/ Verdict
  \/ OpenOldFileHere \/ DecodeHere \/ DecodeFailsHere \/ EncodeEndsHere
  \/ StartBlock \/ OpenStream \/ ReadNewBytes \/ CloseStream \/ EncodeBlockEnds
  \/ Finish \/ Join

WorkerStep ==
  \/ DecodedBytes \/ DecoderEnds \/ OpenOldFile \/ SkipOldBytes \/ OfferOldBytes \/ OfferTaken

Next == MainStep \/ WorkerStep

Spec == Init /\ [][Next]_vars /\ WF_vars(MainStep) /\ WF_vars(WorkerStep)

-----------------------------------------------------------------------------
(* Properties.                                                             *)

Results == {"ok", "thread", "abort", "data", "read", "write", "crc", "fail"}

TypeOK ==
  /\ u \in UpdateType /\ damaged \subseteq DOMAIN u.files
  /\ main \in [pc : {"create", "empty", "next", "mixer", "encode", "release", "await", "verdict",
                     "join", "returned"},
               job : 1..(Len(jobs) + 1), fresh : BOOLEAN, held : BOOLEAN, encodeRes : Results,
               result : Results \cup {"none"}]
  /\ worker \in [pc : {"idle", "decode", "write", "offer"}, size : Nat, cur : Nat, result : Results]
  /\ rp \in [index : 0..(Len(u.files) + 1), open : BOOLEAN, needWrite : BOOLEAN, rem : Nat]
  /\ binder.processed \in Nat /\ {binder.readClosed, binder.writeClosed} \subseteq BOOLEAN
  /\ fin \in [index : 1..(Len(u.items) + 1), open : BOOLEAN, sizes : Seq(Nat \cup {Locked})]
  /\ given \in [Items -> Locked..MaxSize]

(* The new database as a reader sees it.                                   *)
Database ==
  [files |-> newDatabase.files,
   folders |-> [k \in DOMAIN newDatabase.folders |-> [streams |-> newDatabase.streams[k]]]]

StreamsIn(k) == {n \in LinkedFiles(Database, k) : newDatabase.files[n].hasStream}

TotalSize(S) == MapThenSumSet(LAMBDA n : newDatabase.files[n].size, S)

Content(n) ==
  LET e == newDatabase.files[n]
      k == LinkedFolder(Database, n)
      before == TotalSize({m \in StreamsIn(k) : m < n}) IN
  IF ~e.hasStream THEN <<>>
  ELSE SubSeq(newDatabase.folders[k].data, before + 1, before + e.size)

IsLocked(i) == HasStream(i) /\ given[i] = Locked

Expected(i) ==
  IF ~u.items[i].newData THEN OldBytes(u.items[i].old)
  ELSE [k \in 1..given[i] |-> <<"new", i, k>>]

IsEncrypted(i) ==
  IF u.items[i].newData THEN u.password
  ELSE u.folders[LinkedFolder(u, u.items[i].old)].encrypted

Repacked == {k \in DOMAIN u.folders : NumCopyFiles(k) # 0 /\ ~NeedCopy(k)}

(* When Update succeeds, the database it leaves has every item once, but   *)
(* for files that were locked, and a reader who ties files to folders by   *)
(* their order alone finds under each the bytes that belong to it, and     *)
(* nothing else in the folders.  What was encrypted stays so, and no file  *)
(* with a wrong CRC was repacked under a new one.  It fails for a damaged  *)
(* folder only if it had to repack one.                                    *)
NewArchiveIsRight ==
  /\ TypeOK
  /\ main.result = "ok" =>
       /\ \A i \in Items :
            Cardinality({n \in DOMAIN newDatabase.files : newDatabase.files[n].item = i}) =
              IF IsLocked(i) THEN 0 ELSE 1
       /\ \A n \in DOMAIN newDatabase.files :
            LET e == newDatabase.files[n]  k == LinkedFolder(Database, n) IN
            /\ e.hasStream => k # NoFolder /\ newDatabase.folders[k].encrypted = IsEncrypted(e.item)
            /\ Content(n) = Expected(e.item)
       /\ \A k \in DOMAIN newDatabase.folders :
            Len(newDatabase.folders[k].data) = TotalSize(StreamsIn(k))
       /\ \A k \in Repacked : \A f \in LinkedFiles(u, k) : ~CrcIsWrong(f)
  /\ main.result \in {"crc", "data", "fail"} =>
       \E k \in Repacked : LinkedFiles(u, k) \cap damaged # {}

(* The decoding thread, which works with local variables of Update and on  *)
(* the one binder there is, is at rest whenever Update does anything but   *)
(* encode for it or wait for it.                                           *)
WorkerAtRest ==
  worker.pc # "idle" => RepackInThread /\ main.pc \in {"mixer", "encode", "release", "await"}

(* Update returns, unless the mixer of the encoder held on to the input:   *)
(* then nobody closes the binder, and both threads may wait for ever.      *)
UpdateReturns == <>(main.pc = "returned" \/ main.held)
=============================================================================
