# p7zip-zhrebel: TLA+ models of the parts that run in threads or keep state

p7zip is the POSIX port of 7-Zip 16.02; this fork adds options that rewrite the
headers of ZIP archives. The modules here model the parts of it whose
correctness depends on order and on history: who runs first, who waits for
whom, what is left over from the last call, what an update must preserve for
the next one, and what is left undone when one step of several fails. TLC
checks each module on small instances, and TLAPS proves the safety properties for
every value of the constants; only that of the database a 7z update writes is left to
TLC alone.

Paths below are relative to `src/p7zip_16.02/`; `Zip/` stands for
`CPP/7zip/Archive/Zip/`, `7z/` for `CPP/7zip/Archive/7z/`.

## 1. Inventory

| Component | State it keeps | Operations | What makes it hard | What makes it correct |
|---|---|---|---|---|
| ZIP update with threads (`Zip/ZipUpdate.cpp` `Update2`, `Zip/ZipAddCommon.cpp`, `Common/OutMemStream`, `Common/MemBlocks`, `Common/ProgressMt`) | list of running threads, results kept in memory per item, pool of memory blocks with its semaphore, one position of the archive | dispatch a file, encode, allocate or free a block, grant the archive, await a thread, write headers, stop and join | files finish in any order; the pool may be used up by files that are not next; failures at every step | the archive is what one thread would write; one writer at a time; no block lost; the update ends |
| ZIP headers: writer, options of this fork, reader (`Zip/ZipOut`, `Zip/ZipHeaderRebel`, `Zip/ZipItem`, `Zip/ZipIn`, `Zip/ZipHandler*`, `Update2St`) | position, reserved extra size, entries with their extra fields | the commands u, rn, uh with `-ht`, `-htm/a/c`, `-hex`, `-hdd` and others; reading back | space is reserved before sizes are known; 16 and 32 bit fields; what one update writes the next one must find | entries are found again, open with their password, and keep what was not to be changed |
| Cached output stream (`Zip/ZipUpdate.cpp` `CCacheOutStream`) | ring of cached bytes, virtual and physical position and size | Write, Seek, SetSize, flush | wrap, gaps, overlap, cuts, failures of the file | the file is what it would be without the cache |
| 7z extraction (`7z/7zExtract.cpp`, `7z/7zDecode.cpp`, folder links of `7z/7zIn.cpp`) | a mixer kept from folder to folder with the bind info it was built for; two counters over the requested files | Extract, Decode, CFolderOutStream | returns in the middle of replacing the mixer; empty files, cut folders and flushes move the counters differently | each requested file is reported once and truthfully; a folder is decoded with a mixer built for it |
| 7z update (`7z/7zUpdate.cpp`, `7z/7zFolderInStream.cpp`) | groups of folders and new files, decoder thread and binder, the new database | copy a folder, repack it, make a solid block of new files, empty files | lists that run in parallel; a decoder thread that uses locals; files that are locked or change while they are read | every item has its bytes in the new database; the update returns with the thread at rest |
| Update by the user interface (`UI/Common/Update*`, `TempFiles`, `Windows/FileDir.cpp`) | pairs of files and items, temporary archive, files to delete | UpdateArchive, Compress, move, `-sdel` | system calls that fail, a process that is killed and run again | the old archive survives, or the new one is complete |
| Stream binder (`Common/StreamBinder`) | lent buffer, three events, two flags | Read, Write, CloseRead, CloseWrite, ReInit | no lock: the two ends own the fields in turn | it is a pipe; the buffer is touched only while it is lent; nobody waits for ever |
| Coder mixer (`Archive/Common/CoderMixer2`, `Common/VirtThread`) | a thread per coder, the binders, results | Create, Start, Code, wait, ReInit, destroy | an error in one coder makes the others fail too; mixers are used again | the cause is reported, success means whole streams, threads are at rest before anything is reused or destroyed |
| Events, semaphores, waits (`C/Threads.c`, `CPP/Windows/Synchronization*`) | flag or count, a mutex and a condition variable which may be shared | Set, Reset, Release, Wait, WaitForMultipleObjects | several objects on one condition variable, spurious wake-ups | atomic to the caller, no lost signal |
| BZip2 encoder and decoder with threads (`Compress/BZip2Encoder`, `Compress/BZip2Decoder`) | slots and their CanWriteEvent, flags of the stream, rendezvous events | ThreadFunc, CodeReal, DecodeFile, Free | blocks coded side by side, written in turn; threads reused for the next stream; errors of readers and of writers | blocks in order, the verdict of a single thread; threads at rest when Code returns |
| Ring of block coders (`C/MtCoder.c`) | canRead, canWrite, stopReading, stopWriting per thread; first error | ThreadFunc, MtCoder_Code, destructor | an error has to travel round the ring and must not overtake complete blocks | as above, and the error returned is one that happened |
| Match finder threads (`C/LzFindMt.c`, the window of `C/LzFind.c`) | two rings of blocks, locks handed back and forth, a sliding window | threads of hash and tree, GetNextBlock, StopWriting, ReleaseStream | two producers with a consumer that may stop early; the window moves beneath its readers | every position is served once; no one looks at bytes that were moved away |
| LZMA, LZMA2, PPMd, Deflate, XZ and other codecs, filters, ciphers | coder state | Code, SetProperties | arithmetic | output inverts the encoder |
| Readers of the other formats (RAR, TAR, CAB, NSIS and others) | database of items | Open, Extract | untrusted sizes and offsets | |
| Console, file manager, extraction callback, strings and the Windows emulation | | | input and output, names | |

How they interact. The console or the file manager calls `UpdateArchive` or
`Extract` of the user interface, which call an archive handler. The ZIP handler
calls `Update2` (or the one-thread `Update2St`), which starts encoder threads;
they write to a `COutMemStream`, which takes blocks of `CMemBlockManagerMt` until
its item is the next one, then writes to the archive through
`COffsetOutStream`; header and data go through `COutArchive` and
`CCacheOutStream` to the file. The 7z handler gives each folder to a coder
mixer, whose coders run on `CVirtThread`s joined by stream binders; a repack in
an update decodes a folder on one more `CVirtThread`, joined by one more
binder to the mixer that encodes it. A coder may itself be the BZip2 encoder,
for LZMA2 a user of the `MtCoder` ring, or for LZMA a consumer of the match
finder threads. All of them wait with the events and semaphores of
`Synchronization`.

## 2. Modules

| Code | Module | Abstract specification | Checked by | Proofs |
|---|---|---|---|---|
| stream binder | `StreamBinder` | `BytePipe` | `MCStreamBinder` | `Synchronization_proofs` |
| events and waits | `Synchronization` | `WaitObjects` | `MCSynchronization` | `Synchronization_proofs` |
| coder mixer | `CoderMixerMT` | (uses `BytePipe`) | `MCCoderMixerMT` | `CoderMixerMT_proofs` |
| ZIP update | `ZipUpdateMt` | `SequentialUpdate` | `MCZipUpdateMt` | `ZipUpdateMt_proofs` |
| cached output stream | `CacheOutStream` | `PlainFile` | `MCCacheOutStream` | `ZipArchive_proofs` |
| ZIP headers | `ZipHeaders` | | `MCZipHeaders` | `ZipArchive_proofs` |
| BZip2 encoder, BZip2 decoder, MtCoder ring | `BZip2EncoderMt`, `BZip2DecoderMt`, `MtCoder`, with the constants of `BlockCoderParams`, side by side in `BlockCoders` | `OrderedBlocks` | `MCBlockCoders` | `BlockCoders_proofs` |
| match finder threads | `LzFindMt` | | `MCLzFindMt` | `LzFindMt_proofs` |
| which file is in which folder | `SevenZipLinks` | | (in the next two) | (in `SevenZip_proofs`) |
| 7z extraction | `SevenZipExtract` | | `MCSevenZipExtract` | `SevenZip_proofs` |
| 7z update | `SevenZipUpdate` | | `MCSevenZipUpdate` | `SevenZip_proofs`, the threads |
| pairing of files and items | `UpdatePairs` | | (in the next) | (in the next) |
| update of an archive file | `UpdateArchive` | | `MCUpdateArchive` | `UpdateArchive_proofs` |

Composition. `WaitObjects` says what the events of the other modules are: one
step to set, one step to take. `Synchronization` shows that the emulation on
mutex and condition variable keeps this, so that the modules above it use
atomic events. `BytePipe` says what a binder is; `StreamBinder` implements it,
`CoderMixerMT` uses the pipe and shows in `UsesPipes` that it keeps the duties of
the two ends, and `SevenZipUpdate` uses it between its decoder and its encoder.
`OrderedBlocks` is shared by the block coders, which `BlockCoders` checks in one
run: a behaviour is one of a single coder. `SevenZipLinks` is how a reader ties
files to folders, by their order alone; extraction uses it, and `SevenZipUpdate`
uses it twice, for the old database and to say that the new one is right.
`UpdatePairs` is the algorithm of `UpdatePair.cpp` and `UpdateProduce.cpp` as
recursive functions; `UpdateArchive` runs it on what it found on disk.

Conventions. A thread is a `pc` per thread; one action is the code between two
points where another thread can interfere (a wait, a lock, an access to shared
fields outside a lock), and is named for the step of the code. In the modules
with one thread an action is the code up to the next call that can fail. Records
stand for the fields of a class, with the names of the source where that is
short. Operators with a suffix (`ReadReset_Dropped`, `Verdict_InOrder`) are
variants of the operator before the underscore with a plausible bug; they occur
in no specification, and `PROJECT.json` pairs each with the property that finds it.

### StreamBinder
`canRead`, `canWrite`, `closedEvent` are `_canRead_Event`, `_canWrite_Event`,
`_readingWasClosed_Event`; `closed2` is `_readingWasClosed2`. `Read` is
`ReadCall, ReadLock, ReadCopy, ReadAdvance, ReadReset, ReadSignal`, cut at every
access to a field that belongs to both; `Write` is `WriteCall, WriteSet,
WriteWait, WriteReturn`. Bytes are their numbers in the stream, so that a lost,
repeated or reordered byte shows. Reads and writes have any size up to
`MaxSize`.

### Synchronization
Each object has a `state` (flag or count) and a pair of mutex and condition
variable that it may share with others (`SynchroOf`). A call locks (`Enter`),
checks its objects in order (`Take` or `Sleep`), or changes one and broadcasts.
`Spurious` is a return of `pthread_cond_wait` without a signal.

### CoderMixerMT
A coder is any sequence of reads and writes on its streams followed by a result;
a decoder may stop early, an encoder reads to the end. `Release` is
`CCoderMT::CReleaser`. The calling thread is `main`: the loops `create`,
`start`, `await` of `CMixerMT::Code`, then `Verdict`, the order in which results
are looked at; then either the next folder (in extraction also after a data error
or `E_NOTIMPL`; `ReInit`, perhaps with another main coder,
as `SelectMainCoder` is called for each folder) or the destructor
(`StopWorker`, `JoinWorker`, `DestroyBinders`). A coder can fail on its own
account with each kind of error, can throw, and a thread may not be created.
`shape` is the bind info the mixer was made for; it is one that `CBondsChecks` lets pass
(`ShapesAssumption`). An exception on a worker is an
`E_FAIL`, so that the run needs one more kind of error only.

### ZipUpdateMt
`main` is the loop of `Update2` with its locals; `th` the encoder threads, each
with its `COutMemStream`; `refs` what was finished out of order; `pool` and `mem`
the blocks, their semaphore and contents; `arc` the file with its single
position. Data is counted in blocks (`Chunks`), tagged with the item, the attempt
and its number, so that data of an earlier attempt or of another file shows.
`Rewind` is the start of each method attempt. `WaitBlock` is the wait for three
objects in `COutMemStream::Write`. `MixerIsLocked` and `Report` are the progress
mixer, whose critical section `Update2` holds in `GetStream`. `StopThread`,
`JoinThread` and `FreeAll` are the destructors that run on every way out.
`MutexKinds` has the mutexes `CriticalSection_Init` may make: `"normal"` is the
build as shipped, with which a skipped file ends in `StickAtFile`;
`"errorcheck"` is the one of `DEBUG_SYNCHRO` in `C/Threads.c`, where locking
again returns an error and goes on. The run has both, so that the rest of the
path of a skipped file is explored as well. `arc.lost` is the first item whose write
from memory failed unnoticed: from then on `SequentialUpdate` promises nothing about
the data (`LostWrites`), still the order of the items and the result.

### CacheOutStream
The ring has `NumBlocks` blocks of `BlockSize` bytes; `s` has the six fields of
the class. `Write` is one action per access to the file (`FlushCache`,
`Contiguous`, `Evict`, `WriteZeros`, `Store`), so that each can fail, also after
a part of a piece was written; `filePos` is where the file really stands, which
after a failure is not where `_phyPos` says. `FinalFlush` and `FinalResize` are
the destructor. Calls go on after a failed one, as they do after
`Zip/ZipUpdate.cpp:1004`; `MaxShift` bounds how far the file gets ahead of `_phyPos`.

### ZipHeaders
`arc` is the archive as its central directory lists it, with the local and the
central extra fields of each entry, the length of its descriptor, how it is
encrypted and what its check byte was made from. An update chooses a command
(`Begin`), takes the entries one by one (`CopyEntry`, `RewriteHeader`, `AddFile`,
`SkipFile`) and writes the directory. `ReservedExtra` is
`PrepareWriteCompressedData2`, `NewExtra` with its helpers `CHeaderExtraStorage`,
`AdjustedTimes` `CHeaderRebel::ChangeLocalHeader`, `LocalFullSize` the lengths by
which `ZipIn` and the copying of old entries go, and `Opens` the test of the
password in `CZipDecoder::Decode`. The three formats of times are modelled by
what they keep: ticks for NTFS, half of them for Unix, a quarter for DOS.

### BZip2EncoderMt, BZip2DecoderMt, MtCoder, BlockCoders
Threads with the events of the code and the numbers of the blocks they hold;
`io` has the blocks read and those written. All three are used for two calls of
Code with the same threads, since what is left over from a failed call is the
danger. `MtCoder` also has threads that cannot be created, and its destructor. The
decoder reads an input in which each block, and the end, is good, damaged in one
of the ways the code tells apart, or makes a callback or the output fail.

### LzFindMt
`sync` is the `CMtSync` of each of the two links: its semaphores, its events, and
its critical section, of which `csWasEntered` remembers that the consumer holds
it from one block to the next. `mf` is the window, `buf` the slots of the two
rings. The hash thread makes heads (`HashStep`), moves the window with both
sections held, the tree thread makes matches of them, and the encoder takes them
position by position, fetches the empty block behind the last one when it asks
for available bytes at the end of the input (`MaxEnds` bounds how often), and may stop
the stream anywhere (`StopWriting`, which drains the ring). Bytes are their positions in the input.

### SevenZipExtract
`i`, `folder`, `outcome`, `finished` are the locals of `CHandler::Extract`,
`decoder` the mixer `CDecoder` keeps and `_bindInfoPrev`, `out` the
`CFolderOutStream`. `KeepMixer`, `ReplaceMixer`, `RefuseFolder` and `SetUpCoders`
are the parts of `CDecoder::Decode` between its returns, `WriteBytes`,
`OpenNextFile` and `CodeEnds` the coding, `FlushClose`, `FlushOpen` and `Flushed`
the `FlushCorrupted` that follows a failure. `results` records what the callback
was told and what had been delivered by then.

### SevenZipUpdate
`jobs` is what the filters and groups amount to: the folders to make and their
order. A copied folder is one action (`CopyFolder`). A repack is `StartRepack`,
`CreateCoders`, then the encoder on the main thread (`EncoderReads`,
`EncoderEnds`), the release of the stream (`CloseRead`), the wait (`AwaitWorker`) and
the `Verdict` on both results; beside it the worker decodes (`DecodedBytes`) through
`CFolderOutStream2` (`OpenOldFile`, `SkipOldBytes`, `OfferOldBytes`,
`OfferTaken`). With one thread `CFolderInStream2` does both (`OpenOldFileHere`,
`DecodeHere`). New files run through `CFolderInStream` (`OpenStream`,
`ReadNewBytes`, `CloseStream`) and `EncodeBlockEnds` builds the entries of the
block. A byte is named for the file it came from and its number. `main.held` is
true if a coder holds on to the input after its mixer failed to start.

### UpdatePairs and UpdateArchive
`UpdatePairs` merges the files and items by name, with the states and actions of
the commands add, update, freshen, sync and delete. `UpdateArchive` has one action
for each system call that changes the disk or can fail, from `OpenArchive` to
`DeleteSource`; `Cleanup` is `CTempFiles::Clear`, run on every return. `Crash`
kills the process anywhere, and `RunAgain` is the user, who repeats the command
over what the last run left. A file has items and is none, partial, whole
or cut: `CopyEnd` is `copy_fd`, for which a short write of the last buffer is a success.
`scene` is what the program finds and is told, chosen once.

## 3. Runs

| Run | Question | Bounds |
|---|---|---|
| `stream_binder` | Is a binder a pipe, with no data race on the buffer and no end that waits for ever? | 1 bond, 4 bytes, pieces up to 3, two folders |
| `synchronization` | Are the emulated objects atomic, and is no signal lost? | 3 threads; an auto-reset event and a semaphore on one condition variable, a manual event on its own |
| `zip_update` | Is the archive the one a single thread would write, also when encoders and the file fail and files cannot be opened, and does the update end with everything returned? | 3 files around a directory, 2 threads, 2 blocks, up to 2 blocks per file, 2 methods |
| `cache_stream` | Is the file what it would be without the cache, and what can a failure cost, with calls that go on after it? | ring of 2 bytes, file of up to 5, writes up to 3, file ahead of `_phyPos` by at most 1 |
| `zip_headers` | Do updates with any header options leave archives that read back, open, and keep what they had? | 26 archives of one or two entries of other programs, two commands, limits scaled to 240 and 1000 |
| `block_coders` | Blocks in order, the verdict of one thread, threads at rest, an answer from every call? | 3 threads, 4 blocks, two calls, nine kinds of input, all faults |
| `coder_mixer` | Does the result name the cause, does success mean whole streams, are threads at rest before binders are reused? | a chain of three decoders with either main coder, and an encoder with two outputs; 1 piece per bond, two folders |
| `lz_find_mt` | Is every position served once and in order while the window moves, and does stopping always succeed? | blocks of 1 and 2 positions, rings of 2, a reserve of 2 for the matches of a position, inputs of 1 or 10 bytes, then 2; 2 blocks fetched behind the end |
| `seven_zip_extract` | Is each requested file reported once and truthfully, with the right mixer? | 3 archives of 5 or 6 files, every selection of them, test and extract |
| `seven_zip_update` | Is the new database right for every choice of files to keep, drop or replace, and does the decoder thread rest and the update return? | 6 files in a solid and an encrypted folder, any damaged; new files up to 1 byte; one or two threads; solid blocks of 1 or 3 files |
| `update_archive` | Is there a complete archive at every moment, and does success mean what the command asks for? | 5 archives, 3 disks, all commands, two runs with faults and crashes |
| `update_sdel` | Finding, see below | one run without faults |

Why the bounds are enough. One bond suffices for a binder since bonds share no
field. Four bytes in pieces up to three give reads smaller than, equal to and
larger than a write, and writes left over when the reader closes. Two folders,
streams, calls, commands or runs show what survives into the next; nothing counts
them. Three files and two threads give one file that is finished out of order and
detached, and a further one that is dispatched to a reused thread; with two blocks
for files of two, a file that is not next can hold every block while the next one
needs one. Three threads in a ring are the fewest where a failing thread has a
distinct neighbour on each side, and four blocks make the slots wrap. The ring of
the cache is shorter than the file, so that it wraps and blocks are evicted in the
middle. In `lz_find_mt` ten bytes move the window several times, and one input is
shorter than a hash. The archives of `zip_headers` have
one entry for each way in which the formats of other programs differ, and their
limits are scaled so that two small entries stay below 32 bits and one field nearly
fills 16. Those of the two 7z runs have an empty file between the files of a folder,
an empty stream, and folders that follow one another with equal and different bind
infos. The scenes of `update_archive` have items that are newer, older, equal, of
unknown time, only on one side, twice, and a file and a directory of one name.

`CHECK_DEADLOCK FALSE` stands in the runs of systems that stop: an update, a
destructor, a bounded number of calls. `seven_zip_extract`, `update_archive` and
`zip_headers` stop in a state of their own with a step that changes nothing, so that
deadlock is checked there.

Fairness. Each thread that can take a step eventually takes one (weak fairness
of the whole step of a thread): the operating system schedules it, and within a
thread the choice is the program's. So it is in `ZipUpdateMt`, `CoderMixerMT`,
`BlockCoders`, `LzFindMt` and `SevenZipUpdate` (main thread and worker). Coders are
assumed to make finitely many calls and then to return, which `Chunks`, `MaxChunks`
and `NumBlocks` and the sizes of files make true in the model. In `StreamBinder`
closing has strong fairness: a coder may call again and again, but in the end
releases its streams, as `CReleaser` does. In `Synchronization` fairness is asked
only of a thread that holds the mutex; whether it starts a call at all, and spurious
wake-ups, are left open. `SevenZipExtract`, `UpdateArchive` and `ZipHeaders` are one
thread without waits; they have no fairness and no liveness property.

### What the properties say
- *Implementation of an abstract module*: `PipeSpec`, `WaitObjectsSpec`,
  `SequentialSpec`, `OrderedSpec`, `PlainFileSpec` (which also says that every write
  returns), `UsesPipes`: every step of the detailed model is a step of the abstract one
  or changes nothing there.
- *Ownership*: `BufferIsLent`, `OneWriterOfArchive` (with `FrontIsNext`, the order of
  the list of threads), `WindowIsKept`: shared memory, the archive and the window have
  one owner at a time, and are not moved beneath a reader.
- *Accounting*: `PoolIsBalanced`; `ThreadsAtRest` of `LzFindMt`, whose semaphores must
  be back at their start values.
- *Rest*: `ThreadsAtRest`, `WorkerAtRest`: when a call returns, or goes on to something
  else, no thread is still inside it. That of `BlockCoders` includes `OneTurn`: the turn
  to write is never there twice.
- *Results*: `StreamIsFollowed`, `ResultsFollowRequest`, `NewArchiveIsRight`,
  `SuccessMeansUpdated`, `ReadsBack`, `FieldsStay`, `StaysOpen`: what comes out is what
  was asked for, seen by a reader who knows nothing of how it was made.
- *Verdicts*: `SuccessIsWhole`, `RootCause`, `DecodesLikeOneThread`, `ResultsAreHonest`,
  `MixerIsForFolder`, `FailsOnlyIfTooLarge`, `DataIsWhole`: what a result may be taken to mean.
- *Failure*: `NothingIsLost`, `ErrorKeepsArchive`, `OnlyCacheIsLost`.
- *Progress*: `NoLostWakeup`, `NobodySleepsForever`, `SignalWakes`, `Termination`,
  `CodeReturns`, `CallsReturn`, `UpdateReturns`.

The type invariant of a module is a conjunct of one of the invariants of its run
(`IInv`, `OneWriterOfArchive`, `ThreadsAtRest`, `WindowIsKept`, `OnlyCacheIsLost`,
`ResultsFollowRequest`, `NewArchiveIsRight`, `SuccessMeansUpdated`, `ReadsBack`); that of
`Synchronization` is proved. `ReadsBack` asks that the central extra field fits 16 bits when
the local one left room for times and 64-bit sizes, and `FailsOnlyIfTooLarge` allows an
update to fail only over a file that outgrew 32 bits while it was read, or over old fields
that no header of the format could hold.

### Findings
A finding is a behaviour of the code that contradicts a sentence of its
documentation, or that no reading of the code makes sense of; `PROJECT.json` quotes
both. Most are behaviours of a passing run: its property names the case as its one
exception, holds for everything else, and fails without the exception.
`update_sdel` has a run of its own, which is violated.

1. `zip_update`, `Termination`: with threads, a file that cannot be opened makes the
   main thread lock a mutex it holds (`Zip/ZipUpdate.cpp:904` inside the lock of line
   898). The ChangeLog says that the file is skipped.
2. `zip_update`, `DataIsWhole`: the result of writing a file that was finished early is
   ignored (`Zip/ZipUpdate.cpp:1004`). What is written next goes through a cache that may
   not know the position of the file any more, so that other items can be damaged too.
3. `cache_stream`, `OnlyCacheIsLost`: the last bytes are written in a destructor, which
   ignores errors (`Zip/ZipUpdate.cpp:1195`); and calls that follow a failed one (finding 2)
   may write the cache to a wrong place, but never in front of what it holds.
4. `block_coders`, `CodeReturns`: an exception of the output stream leaves the turn to
   write with a thread that is gone, and the BZip2 encoder never returns
   (`Compress/BZip2Encoder.cpp:702`).
5. `block_coders`, `DecodesLikeOneThread`: with threads, the flag for a wrong CRC of a
   block is not set, so that a data error is reported (`Compress/BZip2Decoder.cpp:809`).
6. `seven_zip_extract`, `MixerIsForFolder`: a folder with a missing coder leaves its
   incomplete mixer under the bind info of the folder before it
   (`7z/7zDecode.cpp:275`); the next folder with that bind info uses it.
7. `seven_zip_update`, `UpdateReturns`: the release that closes the binder before the
   wait does not close it if the threads of the encoder could not be created
   (`7z/7zUpdate.cpp:2215`); decoder and update then wait for each other.
8. `update_sdel`, `DeletesArchivedFiles`: `-sdel` deletes empty files only, because the
   array of processed files never reaches the callback (`UI/Common/Update.cpp:1573`).
   `update_archive`, `SuccessMeansUpdated`: when the temporary archive is copied to another
   device, a short write of the last buffer counts as success (`Windows/FileDir.cpp:165`), the
   temporary archive is deleted, and the command succeeds with a cut one. This property,
   `NothingIsLost` and `ErrorKeepsArchive` except this case (`CutCopy`) and no other.
9. `zip_headers`, `ReadsBack`: the copy of an entry with a 24-byte descriptor is cut by
   8 bytes (`Zip/ZipIn.h:32`); and the length of a central extra field is cast to 16 bits
   (`Zip/ZipOut.cpp:238`), so that an entry of another program with nearly 64 KB of fields,
   which needs one more once it is moved beyond 4 GB, gives S_OK and an archive that
   cannot be opened.
10. `zip_headers`, `StaysOpen`, three ways to an encrypted entry that no longer opens:
   rn drops or adds the descriptor flag (`Zip/ZipHandlerOut.cpp:365`), ZipCrypto with
   `-hdd` has the wrong check (`Zip/ZipAddCommon.cpp:217`), and the field of strong
   encryption is left out (`Zip/ZipHeaderRebel.cpp:48`).
11. `zip_headers`, `FieldsStay`, three ways to lose a field or time: other fields of the
   central header are replaced by those of the local one (`Zip/ZipHeaderRebel.cpp:84`),
   a creation time without an access time is read back from the wrong place
   (`Zip/ZipItem.cpp:129`), and times of the command line are overwritten where the
   entry had none (`Zip/ZipHeaderRebel.cpp:239`).

## 4. Proofs

All theorems hold for every value of the constants under the assumptions of the modules,
which TLC evaluates in the runs: any number of files, threads, blocks, calls and faults,
where a run has a few of each. Constants are numbers, sets or functions of the kind one
expects. The assumptions that say more, and why the code justifies them:
- `Synchronization`: a semaphore starts within its maximum; what is waited for together
  shares its condition variable, as `WaitForMultipleObjects` demands;
- `ZipUpdateMt`: no more threads than items with new data, files and directories
  (`Zip/ZipUpdate.cpp:701-705`, `796`); there may be more threads than files,
  and the run has threads that never get one, since files can be skipped;
- `CoderMixerMT`: a coder has one unpack stream and is not bound to itself, as
  `CBondsChecks` makes sure before a mixer is made (`Archive/Common/CoderMixer2.cpp:75`);
- `LzFindMt`: between 2 and `MatchMaxLen` bytes are hashed and a block of heads holds them,
  and what fills a block of matches (`BtLimit`) leaves room for the last positions of
  a stream: `limit` is twice `matchMaxLen` less than the block (`C/LzFindMt.c:317`);
- `SevenZipExtract`: archives are as the reader of the header lets them pass (`AsRead`);
- `UpdateArchive`: a disk has finitely many files, one for a path, an archive that is not
  there has no items, and `-sdel` comes with the command add, the one whose actions pass
  the test at `UI/Common/Update.cpp:1055`;
- `ZipHeaders`: the fields of a new file fit 16 bits, the limit for "may grow beyond 32 bits"
  is below the real one, and an entry with AES has the field of AES.

Induction over data. The library's induction theorems take an operator as a parameter, which
the provers cannot instantiate; the proofs use least counterexamples instead. A set of
numbers or of finite sets that is not empty has a least member (`WFMin` with the order of
`FS_StrictSubsetOrderingWellFounded`), so that the set of counterexamples is empty if no
member is least. In this way recursive functions are shown to exist and to compute what they
should, sums over sets to be independent of the order of the summands, and finite sets with
an order to be writable as sequences (`LeastIDs`, `SumsAgree` in `ZipArchive_proofs`, the
first sections of `UpdateArchive_proofs` and `SevenZip_proofs`).

Proofs were also a test of the models. `WindowIsKept` did not follow for every depth of the
trees until the reserve of a block was modelled; `FailsOnlyIfTooLarge` and `ReadsBack` forgot
old fields that are too long for any header, which is now part of finding 9; and
`ResultsFollowRequest` had to say of which files the request consists when indices are given
(`Asked`). Constants that no reader of an archive would pass made other statements false:
`AsRead` and `NoBind` say so now.

`Synchronization_proofs`, stream binder: `BinderInvariant`, `BinderTypes`, `LentBuffer` and
`ImplementsPipe`.
The two safety properties are not inductive: that the buffer may be read follows from
who owns it, which the code never writes down. `IInv` makes it explicit: for each bond,
`EventsMatchPcs` ties the flags to the places of the two threads, `Ownership` lists
the states in which reader and writer can be at the same time (buffer on offer,
taken, reset, signalled, handed back; or closed), and `Progress` counts the bytes:
while the writer is inside `Write`, `buf + bufSize` is the end of what it offered, and
what the reader got reaches up to `buf`. `BinderNextTypes` and `BinderNextBond` prove that each
action keeps it; an action of one bond leaves the others alone. `CopyProperties` is
the lemma about the bytes a copy appends. `StepPipe` then maps each action to one of
`BytePipe`: `WriteCall` to Offer, `ReadCopy` to Deliver or End, `WriteReturn` to
Report, the closings to the closings and `ReInit` to Renew; all the others are
silent. TLC checks `IInv` in the run `stream_binder`.

`CoderMixerMT_proofs`: `MixerInvariant`, `AtRest`, `SuccessMeansWhole`, `CauseIsReturned`
and `MixerUsesPipes`. The coders form a graph, and an error in one of them spreads along
its bonds, so one expects an induction over the graph. None is needed: an end of a bond is
closed only when its coder has returned, so that a cause is known before its effect can be
seen, and it is enough to keep for each coder that has returned a fact about itself.
`CauseIsKnown` is that fact: its own error is its result, `"cut"` has a bond that was cut,
success of an encoder has inputs that ended, and any other result means that some coder,
possibly a distant one, has an error of its own (`Blamed`); a decoder that was cut is the
exception, since its neighbour may just have had enough. `EndsFit` gives the order: ends
are open until the coder has run, and closed when it has. `BondFits` says of a bond that
one piece at most is on offer and that nobody is told of an end, or cut, while the other
end is open. `Lifecycle` and `Rendezvous` say where the threads are while the calling
thread creates, starts, awaits or stops them; after an exception on the calling thread
workers may still be running, and then only the destructor waits for them. The proof has
a lemma for each step: `CodeKeeps` is what those of a coder share, `PlaceKeeps` those of
a worker's loop and `MainKeeps` those of the calling thread. `ReturnKeeps` is where the
verdict is compared with the causes: `S_FALSE` is looked for before `E_FAIL`, also when it
was caused by one, so that `RootCause` has a second case, and in `NoneBlamed` the decoder that was
cut turns out harmless since it has one output. `StepPipe` maps the calls, returns and
releases of the coders, the destructor's releases and `ReInit` to the actions of `BytePipe`.
TLC checks `IInv` in the run `coder_mixer`, as part of `ThreadsAtRest`.

`Synchronization_proofs`, events and waits: `TypeCorrect`, `NoWakeupIsLost` and
`ImplementsWaitObjects`. The invariant adds to `NoLostWakeup` that the owner of a
mutex is the thread between its lock and unlock (`OwnerMatches`) and that a thread
that sleeps is in a wait (`CallMatches`). With it, a thread that checks and
sleeps does so in one piece as far as threads with the same mutex can see; the
broadcast that follows a change is still to come while the changer is at
`signal`, and wakes all. The step lemma maps the change of state inside the lock to
the atomic operation.

`BlockCoders_proofs`, BZip2 encoder: `EncoderInvariant`, `EncoderTurns`, `EncoderAtRest` and
`EncoderInOrder`. That
one thread at a time has the turn to write, and that `CodeReal` finds its threads at
rest, both depend on a rendezvous the code spreads over two manual-reset events of the
main thread and two auto-reset events of each thread. `IInv` writes it down: `Phases`
says which of the main thread's events is set at which place of `CodeReal` and `Free`;
`SectionIsOwned` ties the critical section to the thread in it; `Rendezvous(t)` says
that thread `t` has passed a point exactly when its event is set or `CodeReal`, which
takes the events in order, has taken it already. Without it nothing keeps a thread of
the last call from being at work when the next one hands out the first turn. The
proof has one group of lemmas for the steps of a thread (`EncThreadTypeOK`,
`EncThreadFrame`, `EncThreadSection`, `EncThreadTurn`, `EncThreadRendezvous`) and one for those of
the main thread, with a step for each action the conjunct depends on. For the order of
the blocks, which no variable of the code holds, `InCall` says that the blocks read and
not yet written are with one thread each (`BlocksAreHeld`), that the slots of their
threads follow the one whose turn it is (`SlotsFollowTurn`, where `TurnAt` is the event
or the thread that holds it), and that the stream ends after an error or when all is
read (`EndIsCaused`). After an exception of the output stream the turn is lost, and
nothing is said but that nothing more is written. `EncoderInOrder` maps `CodeReset`
to the start of a call, `WriteBlock`, where it succeeds, to a write and `CodeReturn`
to the return.

`BlockCoders_proofs`, BZip2 decoder: `DecoderInvariant`, `DecoderTurns`, `DecoderAtRest` and
`DecoderIsLikeOneThread`. The rendezvous and the slots are those of the encoder. What is
new is the verdict: `LikeOneThread` compares what `DecodeFile` returns and what it wrote
with a function of the input. To keep it, `WrittenAreFirst` says that what was written is
a prefix of the blocks, all good but perhaps the last, which is then the one whose result
was kept; `EndSeen` that a thread which saw the end of the stream has read all blocks; and
`RestIsCaused` that a thread comes to rest for one of these two reasons only. The one
exception of `LikeOneThread` is finding 5.

`BlockCoders_proofs`, ring of `C/MtCoder.c`: `RingInvariant`, `RingAtRest` and
`RingInOrder`. In the ring the turns are not slots but events of the threads themselves, and
two flags that travel with them stop them. `OneReader` and `OneWriter` are stated of a right
to read or write that is not stopped, since a stopped thread may be handed an event that it
never uses. `StopsFollow` says who has stopped a thread, its predecessor; `StopsAreCaused`
that this happens at the end of the input or after an error; `ErrorsHappened` that the error
that counts is one that happened, also where a thread stops with a result of its own.
`InOrder` places the threads: counted from the writer, the first ones hold the blocks that
are read and not written, in their order, and the next is the reader (`PlaceAfter`).
`Complete` says that without an error they all still hold them, hence that a success has
written everything. `Clean` is the start of a call; the ring is used again after a failed
one.

`BlockCoders_proofs`, all three: `CodersAtRest`, `DecoderLikeOneThread` and
`CodersKeepOrder`, which are the properties of the run `block_coders` for whichever coder is
in use. The coders are used through instances; `CoderSteps` says that a step of
`BlockCoders` is one of the coder in use, and `CoderIInv` is their invariants, each for the
behaviours of its coder. TLC checks all three `IInv` in that run, as part of
`ThreadsAtRest`.

`ZipUpdateMt_proofs`: `InductiveInvariant`, `ArchiveHasOneWriter`, `BlocksAreBalanced`,
`WrittenItemsAreWhole` and `ThreadsWriteLikeOne`. `Update2` never records who may write to
the archive; it follows from the list of running threads, from what is in `refs` and from
a flag each stream was sent. `IInv` says how:

- `Lifecycle` ties the events of a thread to its place and to the way `~CThreads` stops
  and joins them, and `PhasesOfEnd` says how far that has come;
- `ItemsHaveThreads`: each new file from the current item to the last one reached is
  skipped, waits in memory, or is with exactly one thread. `FirstItem` and `EndItem` take
  care of the items for which `Update2` is half-way, before its thread has the file or
  after it gave it back (`MainFits`);
- `FrontIsNext`, `WriterOwnsFile` and `FileIsGranted`: running threads are listed in the
  order of their items, only the first may be told to write to the file, and then the
  position of the file is in its item, and in no other;
- `PoolIsBalanced`: each block is free, in one list of one thread or item, or on the way
  back, and the semaphore counts those that are free and not promised;
- `StreamsFit`: a stream before its turn has the data of its attempt in memory, complete
  and in order; after it has been sent to the file, there; in between, as much of both as
  the place in `COutMemStream::Write` says. Without `mem`, that is without the contents of
  the blocks, this could not be stated, and a block given back too early would not show;
- `ItemsInOrder` and `ItemsFit`: the items with a header are those behind the current
  one that were not skipped, the data of an item that waits is whole, and the file has
  nothing of items to come. This is what `DataIsWhole` needs; it claims nothing after the
  unnoticed failure of finding 2.

The proof follows this list. For steps of a thread, `ThreadFrame` says what they leave
alone, and `ThreadKeeps` collects a lemma for each part. The main thread's steps are
grouped by what becomes of the item: they stay at it (`StaysInPlace`), go on to the next
(`Advances`), or leave for the destructors (`GoesToEnd`), after which most of the parts are
no longer claimed. `ThreadsWriteLikeOne` maps `WriteOldOrDir`, `WriteDetached` and
`WriteHeader` to `Put` of `SequentialUpdate`, the writing of the central directory to
`Finish` and every other way into the final phase to `Fail`; all else changes neither the
entries nor the outcome. `LastWritten` is its central lemma: between the last entry written
and the current item there is nothing but files that the callback declined.

`LzFindMt_proofs`: `ThreadsRest`, `WindowKept` and `StreamFollowed`. `IInv` has three
layers. For each link, `LinkRight` ties the events, the semaphores and the number of the
block to the places of its two threads, so that the flags that `StopWriting` leaves set are
cleared before the next start, and `Sections` says who is in the critical sections, which a
consumer keeps from block to block. For each ring, `HashRing` and `BtRing` say that from the
block its consumer is in up to the one its producer fills, each begins where the one before
it ends; blocks less than a ring apart have slots of their own, so that none of them is
overwritten. They also bound how far a consumer is behind, by the blocks that lie in between
(`TreeReach`, `EncoderReach`); `KeepSizeBefore` is the history and the sum of the two
bounds, which is why a move loses nothing (`WindowRight`, `Reach`). `TreeRight` and
`FillRight` are the tree thread in a block of heads, where its position stays behind for the
last bytes of the input, for which there is no head.

`SevenZip_proofs`, extraction: `RequestFollowed`, `HonestResults` and `MixerFitsFolder`.
`CFolderOutStream` runs through the files of a folder with one counter, and with another
through the indices of the request. `Ahead` says that the next index belongs to this folder
and is not behind the file that is decoded, and how many files are left to come; the end of a
file, of a folder, a flush and an empty file each move the counters differently and keep it.
That the files of a folder follow each other, whatever empty files lie between them, is
proved of `SevenZipLinks` first. `Truthful` is the result of the file that is open, before it
is reported; `FailuresShow` says that a folder which failed has been reported, or has a
requested file that is not, so that the flush will; `MixerRight` has the exception of
finding 6. Update: `WorkerRests`, from `WInv`, which lists the places of the main thread at
which the other one may work for it.

`UpdateArchive_proofs`: `SuccessfulUpdate`, `NothingLost` and `ErrorLeavesArchive`. Its first
half is about `UpdatePairs`: that the merge of two sorted lists makes, for each path and
each item, one pair whose state is the one they have, for every length of the lists; and
that `UpdateProduce` chains from it the items to copy and the files to compress, each once.
The second half is the invariant over system calls: `WrittenRight` is the new archive
while it is written, the chain up to here without what could not be opened; `PlaceRight` says
for each place in the code where the old archive and the new one are, after failures too;
`KeptRight` that whatever must not be lost is in a complete file that is not temporary, or
still the source; `PresentRight` that sources are deleted only for `-sdel`. The step that
matters is the deletion of the old archive before the new one is moved to its place: there
the temporary file has all of it. A crash keeps these conjuncts, which is why the
next run finds what it needs.

`ZipArchive_proofs`, headers: `EntriesReadBack`, `FailsIfTooLarge`, `OpensAgain` and
`FieldsKept`. What `PrepareWriteCompressedData2` reserves and what the header takes in the end
are computed by different code, at different times, from different facts. `NewExtraLen` shows
the two equal, field by field, and `Sixteen` that the casts to 16 bits agree with it as long
as the local field fits. With it `AllTraced` is inductive: every entry stays traceable to
the header it came from, and `AllFound`: it lies behind the one before it, at the offset
in the directory. The lengths of the kept fields are sums over sets. `OpensAgain` goes through
the ways an entry is encrypted and its header is made, `FieldsKept` through the
formats of times: a time is read from the first field that has it, and `Ranks` orders the
flags of a Unix field as the reader counts them. Before it was proved, `IInv` was checked
by TLC on the instance of `zip_headers`.

`ZipArchive_proofs`, cached stream: `CacheInvariant`, `CacheOnlyLost` and `CacheIsPlainFile`.
`Seen(p)` is the byte a reader sees at position `p`, in the ring, in the file or as a zero.
Writing the ring out, evicting a block, filling a gap with zeros and the flush of the
destructor change `Seen` nowhere, `Store` changes it where the request says, and
`SetSize` behind the new end. That the slots of a range of positions are different while it
is no longer than the ring is arithmetic of remainders, `NextSlot` and `FillSlots`. The
invariant `CacheIInv` needs more than the fields between calls: `NothingFailed` (the object
knows the file, and what is behind the end of the stream is zero), `CacheReaches` (the cached
range starts inside the file while a gap is filled), and for failures `FailuresFit` and
`ClosingFits`: where the file really stands, and what the two accesses of the destructor have
left. The steps then map to `Write`, `Seek`, `SetSize`, `Close` and `Fail` of `PlainFile`.

What stays with TLC. Liveness under fairness, among it `WriteReturns` of `PlainFileSpec`, and
everything about ENABLED. Of the safety properties, `NewArchiveIsRight` of `SevenZipUpdate`:
it relates the parallel lists of two databases through two readings of `SevenZipLinks`, and
its induction is over all of them at once; section 6 has it.

## 5. Not modelled, and why

Whole components. The readers of the other formats, the codecs, filters and ciphers
are sequential and about data: parsing, arithmetic, tables. Model checking a few bytes
of them shows little, and they are most of the source tree, so that the modules stand
for a small share of its lines. The front ends are input and output;
`ArchiveExtractCallback` is names and attributes of files.

In the components that are modelled:
- `ZipUpdateMt`: the bytes of headers, the text and percentages of progress (the lock
  around them is there). `StopWritingEvent` is auto-reset and set once, so that it ends
  one wait; the coders of the model return after it, as those of the code do. An item
  whose file cannot be opened loses its old version from the archive; the model has
  this behaviour and no property forbids it. The same holds for locked files in a 7z
  update.
- `ZipHeaders`: names and character sets, attributes, `-hiz`, values of owners, offsets
  of time zones, comments, archives opened by their local headers, bytes past the end
  of a Unix field, volumes, the zip64 end of the directory.
- `BZip2EncoderMt`, `BZip2DecoderMt`: what is inside a block, the coders without threads,
  `Create` and `Free` with another number of threads. The flags that a thread of the
  encoder writes outside the critical section after an exception are written in one step.
- `LzFindMt`: hashes and trees themselves, and the wrap of positions
  (`MatchFinder_Normalize3`, `MatchFinder_ReduceOffsets`), which needs inputs of
  gigabytes.
- `CoderMixerMT`: the one-thread mixer, stream sizes, the checks of bind infos (what they
  ensure is assumed).
- `SevenZipExtract`: the parsing of the database, passwords, the one-thread mixer.
- `SevenZipUpdate`: the bytes of the header, the order of files within a group, the
  analysis that chooses filters, limits of blocks by bytes and by extension (they only
  make blocks shorter), the SFX prefix, the passwords themselves, anti-items, names and
  times, C++ exceptions on the main thread.
- `UpdateArchive`: output to stdout, volumes, SFX, mail, renaming, changes of headers,
  anti-items, alternate streams, several output archives. `CTempFiles::Clear` succeeds.
  A killed process keeps what it wrote; there is no loss of power, since the code never
  asks for data to be on the disk.
- `Synchronization`: creating and joining threads, and critical sections, which are
  pthread mutexes and appear as locks.

## 6. Plan

Left to model: `CFilterCoder` and its buffer; the encoder's `Create` and `Free` with a
changed number of threads; the 7z header database as written and read back; rename and
several archives in `UpdateArchive`; the zip64 end of the directory.

Abstract specifications worth adding: a folder decoder whose result is a function of the
folder, and a match producer, a sequence of positions, that `LzFindMt` implements.

Theorem worth adding: `NewArchiveIsRight` of `SevenZipUpdate`, from the facts about
`SevenZipLinks` in `SevenZip_proofs` and an invariant that states of each list of the new
database which part of the jobs it stands for.

## 7. Running

    tlc -workers 2 -config ZipUpdateMt.cfg MCZipUpdateMt
    tlapm ZipUpdateMt_proofs.tla

Each module with the suffix `_proofs` is checked in this way, on its own: `Synchronization`,
`CoderMixerMT`, `BlockCoders`, `ZipUpdateMt`, `LzFindMt`, `SevenZip`, `UpdateArchive` and
`ZipArchive`. The longest, `ZipUpdateMt_proofs`, takes about ten minutes, `BlockCoders_proofs`,
`LzFindMt_proofs` and `ZipArchive_proofs` about half of that, the others two or three.

The largest runs are `zip_headers` (2.1 million states, half a minute), `cache_stream`
(1.7 million), `zip_update` (1.4 million), `lz_find_mt` (1.1 million), `coder_mixer`,
`seven_zip_update` and `block_coders` (0.8 to 1 million), each between one and three
minutes.
