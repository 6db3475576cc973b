-------------------------- MODULE SevenZipExtract --------------------------
(***************************************************************************)
(* Extraction from a 7z archive: CHandler::Extract goes through the        *)
(* requested files folder by folder; CDecoder decodes a folder, with the   *)
(* mixer of the folder before where the bind infos are equal; the bytes    *)
(* run through CFolderOutStream, which cuts them into files and tells the  *)
(* callback what became of each.                                           *)
(*                                                                         *)
(* One thread and many ways to fail: one action per step that can fail.    *)
(* A byte is "right" when it is the one the stored CRC was made from.  The *)
(* bind info of a folder names its coders, so that coders which cannot be  *)
(* created are a property of it.  Files and folders count from 1.          *)
(***************************************************************************)
EXTENDS SevenZipLinks

CONSTANTS
  Archives,      \* databases to extract from, see ArchiveType
  BindInfos,     \* bind infos of folders ...
  RefusedBinds,  \* ... some of which are not supported at all,
  NoCoderBinds,  \* ... and some have a coder that cannot be created
  Faults         \* callbacks and streams may return an error

(* streams is NumUnpackStreams; a folder with bad props is refused when    *)
(* its coders are set up.                                                  *)
FileType == [size : Nat, hasStream : BOOLEAN, isDir : BOOLEAN, crcDefined : BOOLEAN]
FolderType == [bind : BindInfos, streams : Nat, badProps : BOOLEAN]
ArchiveType == [files : Seq(FileType), folders : Seq(FolderType)]

NoBind == "none"

(* Only a file with a stream has data, and only a file without is a        *)
(* directory; a header that leaves such a file without folder is refused.  *)
AsRead(d) ==
  \A f \in DOMAIN d.files :
    IF d.files[f].hasStream THEN ~d.files[f].isDir /\ LinkedFolder(d, f) # NoFolder
    ELSE d.files[f].size = 0 /\ ~d.files[f].crcDefined

ASSUME ConstantsAssumption ==
  /\ \A d \in Archives : d \in ArchiveType /\ AsRead(d)
  /\ RefusedBinds \subseteq BindInfos /\ NoCoderBinds \subseteq BindInfos
  /\ NoBind \notin BindInfos /\ Faults \in BOOLEAN

VARIABLES
  db,       \* _db; never changes
  call,     \* indices of Extract, whether they are all files, testModeSpec; never changes
  pc,       \* where Extract is
  i,        \* its loop variable
  folder,   \* folderIndex, or NoFolder
  outcome,  \* what Decode returned for the folder
  finished, \* wasFinished
  decoder,  \* _mixer (bind info it was made for, whether it has all coders), _bindInfoPrev
  out,      \* CFolderOutStream
  results,  \* history: files closed, each with the result reported
  blocks,   \* history: folders that ReportExtractResult was called for
  failures, \* history: folders whose decoding failed with others to follow
  returned  \* what Extract returned

vars == <<db, call, pc, i, folder, outcome, finished, decoder, out, results, blocks, failures,
          returned>>

NoMixer == [bind |-> NoBind, whole |-> FALSE]

File(f) == db.files[f]

(* FillLinks.                                                              *)
FolderOf(f) == LinkedFolder(db, f)

FolderStart(k) == FirstFile(db, k)

(* numSolidFiles: requested files from position p on that one decoding of  *)
(* their folder delivers.                                                  *)
SolidFiles(p) ==
  LET k == FolderOf(call.indices[p])
      together == {n \in 1..(Len(call.indices) - p + 1) :
        \A m \in (p + 1)..(p + n - 1) :
          FolderOf(call.indices[m]) = k /\ call.indices[m] > call.indices[m - 1]} IN
  IF k = NoFolder THEN 1
  ELSE CHOOSE n \in together : \A m \in together : m <= n

Sorted(S) == CHOOSE q \in [1..Cardinality(S) -> S] : \A a, b \in DOMAIN q : a < b => q[a] < q[b]

ClosedStream == [fileIndex |-> 1, numFiles |-> 0, open |-> FALSE, mode |-> "skip",
                 hasStream |-> FALSE, rem |-> 0, right |-> TRUE]

Init ==
  /\ db \in Archives
  /\ \E S \in SUBSET (1..Len(db.files)), all, test \in BOOLEAN :
       /\ all => S = 1..Len(db.files)
       /\ call = [indices |-> Sorted(S), all |-> all, test |-> test]
  /\ pc = "next" /\ i = 1 /\ folder = NoFolder /\ outcome = "none" /\ finished = FALSE
  /\ decoder = [mixer |-> NoMixer, prev |-> NoBind]
  /\ out = ClosedStream
  /\ results = <<>> /\ blocks = {} /\ failures = {} /\ returned = "no"

Return(r) == pc' = "returned" /\ returned' = r

-----------------------------------------------------------------------------
(* CFolderOutStream.  numFiles counts the requested files that are left,   *)
(* so that _indexes points at position i - numFiles of the indices.        *)

NextFileIndex == IF call.all THEN out.fileIndex ELSE call.indices[i - out.numFiles]

(* Variant for a mutant: a file after the damage is still extracted.       *)
AskMode_KeepExtract(isCorrupted) ==
  IF out.fileIndex # NextFileIndex THEN "skip" ELSE IF call.test THEN "test" ELSE "extract"

(* A file that is known to be lost is tested, so that nothing is created   *)
(* for it.  (Items that delete a file behave as directories do.)           *)
AskMode(isCorrupted) ==
  IF out.fileIndex # NextFileIndex THEN "skip"
  ELSE IF call.test \/ (isCorrupted /\ ~File(out.fileIndex).isDir) THEN "test" ELSE "extract"

(* GetStream may grant no stream.  An error of GetStream leaves the file   *)
(* closed, one of PrepareOperation open; Extract returns it either way.    *)
OpenFile(isCorrupted) ==
  LET size == File(out.fileIndex).size IN
  /\ \/ \E granted \in IF AskMode(isCorrupted) = "extract" THEN BOOLEAN ELSE {FALSE},
           right \in IF size = 0 /\ File(out.fileIndex).hasStream THEN BOOLEAN ELSE {TRUE} :
          /\ out' = [out EXCEPT !.open = TRUE, !.mode = AskMode(isCorrupted), !.rem = size,
                                !.hasStream = granted, !.right = right]
          /\ UNCHANGED <<pc, returned>>
     \/ Faults /\ Return("error") /\ UNCHANGED out
  /\ UNCHANGED <<db, call, i, folder, outcome, finished, decoder, results, blocks, failures>>

(* Variant for a mutant: a file that was not asked for is counted.         *)
CloseFile_and_SetResult_CountAll(res) ==
  /\ results' = Append(results, [file |-> out.fileIndex, mode |-> out.mode, result |-> res,
                                 intact |-> out.right /\ out.rem = 0])
  /\ out' = [out EXCEPT !.open = FALSE, !.fileIndex = @ + 1, !.numFiles = @ - 1]

CloseFile_and_SetResult(res) ==
  /\ results' = Append(results, [file |-> out.fileIndex, mode |-> out.mode, result |-> res,
                                 intact |-> out.right /\ out.rem = 0])
  /\ out' = [out EXCEPT !.open = FALSE, !.fileIndex = @ + 1,
                        !.numFiles = IF NextFileIndex = out.fileIndex THEN @ - 1 ELSE @]

CalcCrc == File(out.fileIndex).crcDefined /\ ~File(out.fileIndex).isDir

(* With an error of SetOperationResult.                                    *)
Close(res, next) ==
  /\ CloseFile_and_SetResult(res)
  /\ \/ pc' = next /\ UNCHANGED returned
     \/ Faults /\ Return("error")
  /\ UNCHANGED <<db, call, i, folder, outcome, finished, decoder, blocks, failures>>

CloseFile(next) == Close(IF CalcCrc /\ ~out.right THEN "crc" ELSE "ok", next)

AtEmptyFile == out.numFiles # 0 /\ ~out.open /\ File(out.fileIndex).size = 0

(* ProcessEmptyFiles, called by Init and by Write.                         *)
OpenEmptyFile == pc \in {"init", "code"} /\ AtEmptyFile /\ OpenFile(FALSE)

CloseEmptyFile == pc \in {"init", "code"} /\ out.open /\ out.rem = 0 /\ CloseFile(pc)

-----------------------------------------------------------------------------
(* Extract: the loop over the indices.                                     *)

(* SetCur asks the callback, which may stop the extraction.                *)
NextFiles ==
  /\ pc = "next"
  /\ \/ Faults /\ Return("error") /\ UNCHANGED <<i, folder, outcome, out>>
     \/ i > Len(call.indices) /\ Return("ok") /\ UNCHANGED <<i, folder, outcome, out>>
     \/ /\ i <= Len(call.indices)
        /\ LET k == FolderOf(call.indices[i]) IN
           /\ out' = [ClosedStream EXCEPT
                        !.fileIndex = IF k = NoFolder THEN call.indices[i] ELSE FolderStart(k),
                        !.numFiles = SolidFiles(i)]
           /\ i' = i + SolidFiles(i) /\ folder' = k
        /\ pc' = "init" /\ outcome' = "none"
        /\ UNCHANGED returned
  /\ UNCHANGED <<db, call, finished, decoder, results, blocks, failures>>

WasWritingFinished == out.numFiles = 0

(* Files at the start of the folder may be all that was asked for.         *)
Initialized ==
  /\ pc = "init" /\ ~out.open /\ ~AtEmptyFile
  /\ pc' = IF WasWritingFinished THEN "next" ELSE "decode"
  /\ UNCHANGED <<db, call, i, folder, outcome, finished, decoder, out, results, blocks, failures,
                 returned>>

-----------------------------------------------------------------------------
(* CDecoder::Decode.                                                       *)

Bind == db.folders[folder].bind

(* What Extract does with the result of Decode.                            *)
DecodeReturns(r) ==
  /\ IF r = "error" THEN Return("error") ELSE pc' = "flush" /\ UNCHANGED returned
  /\ outcome' = r /\ finished' = WasWritingFinished
  /\ failures' = IF r \in {"dataError", "unsupported"} THEN failures \cup {folder} ELSE failures
  /\ UNCHANGED <<db, call, i, folder, out, results, blocks>>

RefuseFolder ==
  /\ pc = "decode" /\ Bind \in RefusedBinds
  /\ DecodeReturns("unsupported") /\ UNCHANGED decoder

KeepMixer ==
  /\ pc = "decode" /\ Bind \notin RefusedBinds /\ Bind = decoder.prev
  /\ pc' = "setup"
  /\ UNCHANGED <<db, call, i, folder, outcome, finished, decoder, out, results, blocks, failures,
                 returned>>

(* Variant for a mutant: _bindInfoPrev is set with the new mixer.          *)
ReplaceMixer_PrevFirst ==
  /\ pc = "decode" /\ Bind \notin RefusedBinds /\ Bind # decoder.prev
  /\ decoder' = [mixer |-> [bind |-> Bind, whole |-> Bind \notin NoCoderBinds], prev |-> Bind]
  /\ IF Bind \in NoCoderBinds
     THEN DecodeReturns("unsupported")
     ELSE /\ pc' = "setup"
          /\ UNCHANGED <<db, call, i, folder, outcome, finished, out, results, blocks, failures,
                         returned>>

(* The old mixer goes first; _bindInfoPrev is set last, and not at all     *)
(* when a coder cannot be created.                                         *)
ReplaceMixer ==
  /\ pc = "decode" /\ Bind \notin RefusedBinds /\ Bind # decoder.prev
  /\ IF Bind \in NoCoderBinds
     THEN /\ decoder' = [decoder EXCEPT !.mixer = [bind |-> Bind, whole |-> FALSE]]
          /\ DecodeReturns("unsupported")
     ELSE /\ decoder' = [mixer |-> [bind |-> Bind, whole |-> TRUE], prev |-> Bind]
          /\ pc' = "setup"
          /\ UNCHANGED <<db, call, i, folder, outcome, finished, out, results, blocks, failures,
                         returned>>

MixerFits == decoder.mixer = [bind |-> Bind, whole |-> TRUE]

(* Properties, password and streams of the coders.  The coders of a mixer  *)
(* that does not fit are looked up behind the end of its list, which may   *)
(* also end the process.                                                   *)
SetUpCoders ==
  /\ pc = "setup"
  /\ \/ ~db.folders[folder].badProps /\ pc' = "code"
        /\ UNCHANGED <<db, call, i, folder, outcome, finished, out, results, blocks, failures,
                       returned>>
     \/ (db.folders[folder].badProps \/ ~MixerFits) /\ DecodeReturns("unsupported")
     \/ Faults /\ DecodeReturns("error")
     \/ ~MixerFits /\ Return("crashed")
        /\ UNCHANGED <<db, call, i, folder, outcome, finished, out, results, blocks, failures>>
  /\ UNCHANGED decoder

(* A round of the loop in Write, for a file that is open.  The stream may  *)
(* take a part and fail.                                                   *)
WriteBytes ==
  /\ pc = "code" /\ out.open /\ out.rem > 0
  /\ \/ \E cur \in 1..out.rem, right \in BOOLEAN :
          out' = [out EXCEPT !.rem = @ - cur, !.right = @ /\ right] /\ UNCHANGED <<pc, returned>>
     \/ Faults /\ out.hasStream /\ Return("error") /\ UNCHANGED out
  /\ UNCHANGED <<db, call, i, folder, outcome, finished, decoder, results, blocks, failures>>

OpenNextFile == pc = "code" /\ ~out.open /\ ~WasWritingFinished /\ ~AtEmptyFile /\ OpenFile(FALSE)

(* The main coder ends.  When Write was cut it reports success, but        *)
(* another coder may have found damage.  A call of Write that opened a     *)
(* file, or took its last byte, has more to do before it returns.          *)
CodeEnds ==
  /\ pc = "code" /\ ~AtEmptyFile
  /\ out.open => out.rem \in 1..(File(out.fileIndex).size - 1)
  /\ \E r \in {"done", "dataError", "unsupported", "exception"} \cup
              (IF Faults THEN {"error"} ELSE {}) : DecodeReturns(r)
  /\ UNCHANGED decoder

-----------------------------------------------------------------------------
(* Extract: FlushCorrupted and what follows it.                            *)

ResOp == IF outcome = "unsupported" THEN "unsupported" ELSE "dataError"

FlushClose == pc = "flush" /\ ~WasWritingFinished /\ out.open /\ Close(ResOp, "flush")

FlushOpen == pc = "flush" /\ ~WasWritingFinished /\ ~out.open /\ OpenFile(TRUE)

(* A failure behind the last requested file is reported for the folder.    *)
Flushed ==
  LET report == finished /\ outcome \in {"dataError", "unsupported"} IN
  /\ pc = "flush" /\ WasWritingFinished
  /\ blocks' = IF report THEN blocks \cup {folder} ELSE blocks
  /\ IF outcome = "exception" THEN Return("error")
     ELSE \/ pc' = "next" /\ UNCHANGED returned
          \/ Faults /\ report /\ Return("error")
  /\ UNCHANGED <<db, call, i, folder, outcome, finished, decoder, out, results, failures>>

(* Nothing but returning ends the loop: in any other state a step is       *)
(* possible, which the check for deadlocks confirms.                       *)
Done == pc = "returned" /\ UNCHANGED vars

Next ==
  \/ NextFiles \/ OpenEmptyFile \/ CloseEmptyFile \/ Initialized
  \/ RefuseFolder \/ KeepMixer \/ ReplaceMixer \/ SetUpCoders
  \/ WriteBytes \/ OpenNextFile \/ CodeEnds
  \/ FlushClose \/ FlushOpen \/ Flushed \/ Done

Spec == Init /\ [][Next]_vars

-----------------------------------------------------------------------------
(* Properties.                                                             *)

TypeOK ==
  /\ db \in ArchiveType
  /\ call \in [indices : Seq(1..Len(db.files)), all : BOOLEAN, test : BOOLEAN]
  /\ pc \in {"next", "init", "decode", "setup", "code", "flush", "returned"}
  /\ i \in 1..(Len(call.indices) + 1) /\ folder \in 0..Len(db.folders)
  /\ outcome \in {"none", "done", "dataError", "unsupported", "exception", "error"}
  /\ finished \in BOOLEAN
  /\ decoder \in [mixer : [bind : BindInfos \cup {NoBind}, whole : BOOLEAN],
                  prev : BindInfos \cup {NoBind}]
  /\ out \in [fileIndex : 1..(Len(db.files) + 1), numFiles : 0..Len(call.indices),
              open : BOOLEAN, mode : {"extract", "test", "skip"}, hasStream : BOOLEAN,
              rem : Nat, right : BOOLEAN]
  /\ blocks \subseteq 1..Len(db.folders) /\ failures \subseteq 1..Len(db.folders)
  /\ returned \in {"no", "ok", "error", "crashed"}

Asked == {m \in DOMAIN results : results[m].mode # "skip"}

(* The callback hears of the requested files in the order of the request,  *)
(* of each once, and of all of them before Extract returns S_OK; of other  *)
(* files only as skipped.  (CFolderOutStream has two counters for that,    *)
(* and empty files, cut folders and failures each move them differently.)  *)
ResultsFollowRequest ==
  /\ TypeOK
  /\ \A m \in Asked : results[m].file = call.indices[Cardinality({n \in Asked : n <= m})]
  /\ Cardinality(Asked) <= Len(call.indices)
  /\ returned = "ok" => Cardinality(Asked) = Len(call.indices)

(* A file reported good was delivered whole, with the bytes of its CRC; a  *)
(* folder that could not be decoded shows: in the result of a requested    *)
(* file of it, or as a message about the folder.  And nothing is created   *)
(* for a file that is lost before its first byte.                          *)
ResultsAreHonest ==
  /\ \A n \in DOMAIN results :
       LET r == results[n] IN
       /\ r.result = "ok" => r.intact \/ ~File(r.file).crcDefined
       /\ r.result = "crc" => ~r.intact
  /\ pc = "next" \/ returned = "ok" =>
       \A k \in failures \ blocks :
         \E m \in Asked : FolderOf(results[m].file) = k /\ results[m].result # "ok"
  /\ pc = "flush" /\ out.open /\ out.hasStream =>
       out.rem < File(out.fileIndex).size \/ File(out.fileIndex).isDir

(* Coders are set up only in a mixer that was made for the bind info of    *)
(* the folder and has all its coders - but for one case: the folder before *)
(* the last mixer was made had this bind info, and the mixer made since    *)
(* is for a folder some coder of which could not be created.               *)
MixerIsForFolder ==
  pc \in {"setup", "code"} =>
    \/ MixerFits
    \/ /\ decoder.prev = Bind /\ decoder.mixer.bind # Bind
       /\ decoder.mixer.bind \in NoCoderBinds
       /\ \E k \in failures : db.folders[k].bind = decoder.mixer.bind
=============================================================================
