--------------------------- MODULE UpdateArchive ---------------------------
(***************************************************************************)
(* UpdateArchive of the user interface, for one archive that is a file:    *)
(* it opens the old archive, scans the files, has the handler write a new  *)
(* archive, puts that in the place of the old one, and deletes the files   *)
(* that were added if the user wants that (-sdel).                         *)
(*                                                                         *)
(* One action per system call that changes the disk or can fail.  The      *)
(* process may be killed between any two; the user may run the command     *)
(* again.  Not modelled: output to stdout, volumes, SFX, mail, renaming,   *)
(* more than one output archive.                                           *)
(***************************************************************************)
EXTENDS UpdatePairs

CONSTANTS
  Scenes,    \* what the program may find and be told, see SceneType
  MaxRuns,   \* bound: how often the command is run
  Faults,    \* system calls, callbacks and the handler may fail
  Crashes    \* the process may be killed

Opt(S) == S \cup {Undefined}

ItemType == [name : Nat, isDir : BOOLEAN, time : Opt(Nat), size : Opt(Nat)]
DirItemType ==
  [path : Nat \ {None}, parent : Nat, name : Nat, isDir : BOOLEAN, time : Nat, size : Nat]

(* cut: a copy that lacks bytes and was taken for complete.                *)
FileType == [state : {"none", "partial", "cut", "whole"}, items : Seq(ItemType)]

(* otherDevice: the working directory is not on the device of the archive. *)
SceneType ==
  [arc : FileType, disk : SUBSET DirItemType, masked : SUBSET Nat, command : Commands,
   deleteAfter : BOOLEAN, workingDir : BOOLEAN, otherDevice : BOOLEAN]

(* -sdel goes with the command a; a disk has finitely many files, each at  *)
(* one path; a file that does not exist has no items.                      *)
ASSUME ConstantsAssumption ==
  /\ MaxRuns \in Nat \ {0} /\ {Faults, Crashes} \subseteq BOOLEAN
  /\ \A s \in Scenes :
       /\ s \in SceneType /\ IsFiniteSet(s.disk)
       /\ \A d, e \in s.disk : d.path = e.path => d = e
       /\ s.arc.state = "none" => s.arc.items = <<>>
       /\ s.arc.state # "cut"
       /\ s.deleteAfter => s.command = "add"

VARIABLES
  scene,     \* never changes
  files,     \* the archive file and temporary files
  present,   \* paths of the scene that are still on disk
  pc,        \* where UpdateArchive is
  arcItems,  \* items of the old archive
  arcOpened, \* thereIsInArchive
  dirItems,  \* dirItems.Items
  chain,     \* updatePairs2
  k,         \* the item that is written, or deleted, next
  outPath,   \* the file the new archive is written to
  tempFiles, \* tempFiles.Paths: files to delete at return
  processed, \* processedItems
  skipped,   \* history: files that could not be opened, in this run and before
  before,    \* history: the archive file when the run began
  runs,      \* how often the command was run
  returned   \* what UpdateArchive returned

vars == <<scene, files, present, pc, arcItems, arcOpened, dirItems, chain, k, outPath, tempFiles,
          processed, skipped, before, runs, returned>>

disk == <<files, present>>
locals == <<arcItems, arcOpened, dirItems, chain, outPath, processed, before>>

(* GetTempPath with one postfix after the other; as many as can be left.   *)
TempPaths == 1..(MaxRuns + 1)
ArcPath == 0
NoFile == [state |-> "none", items |-> <<>>]

Item(d) == [name |-> d.name, isDir |-> d.isDir, time |-> d.time, size |-> d.size]
DirItem(path) == CHOOSE d \in scene.disk : d.path = path
Here == {d \in scene.disk : d.path \in present}

Init ==
  /\ scene \in Scenes
  /\ files = [f \in {ArcPath} \cup TempPaths |-> IF f = ArcPath THEN scene.arc ELSE NoFile]
  /\ present = {d.path : d \in scene.disk}
  /\ pc = "open" /\ k = 1 /\ tempFiles = {} /\ skipped = {}
  /\ arcItems = <<>> /\ arcOpened = FALSE /\ dirItems = {} /\ chain = <<>>
  /\ outPath = ArcPath /\ processed = {} /\ before = scene.arc
  /\ runs = 1 /\ returned = "no"

Goto(label) == pc' = label /\ UNCHANGED returned

(* A return runs the destructor of tempFiles.                              *)
ReturnError == pc' = "cleanup" /\ returned' = "error"

Fails == Faults /\ ReturnError

-----------------------------------------------------------------------------
(* Opening, scanning, pairing.                                             *)

(* A file that is not an archive ends the update.                          *)
OpenArchive ==
  /\ pc = "open"
  /\ \/ Fails /\ UNCHANGED <<arcItems, arcOpened>>
     \/ /\ files[ArcPath].state \in {"partial", "cut"} /\ ReturnError
        /\ UNCHANGED <<arcItems, arcOpened>>
     \/ /\ files[ArcPath].state \in {"none", "whole"} /\ Goto("scan")
        /\ arcOpened' = (files[ArcPath].state = "whole") /\ arcItems' = files[ArcPath].items
  /\ before' = files[ArcPath]
  /\ UNCHANGED <<scene, disk, dirItems, chain, k, outPath, tempFiles, processed, skipped, runs>>

EnumerateItems ==
  /\ pc = "scan"
  /\ \/ Fails /\ UNCHANGED dirItems
     \/ Goto("pair") /\ dirItems' = IF NeedScanning(scene.command) THEN Here ELSE {}
  /\ UNCHANGED <<scene, disk, arcItems, arcOpened, chain, k, outPath, tempFiles, processed,
                 skipped, before, runs>>

(* GetUpdatePairInfoList throws for names that are not unique.             *)
MakePairs ==
  LET pairs == UpdatePairs(dirItems, arcItems, scene.masked) IN
  /\ pc = "pair"
  /\ IF Failed(pairs) THEN ReturnError /\ UNCHANGED chain
     ELSE Goto("create") /\ chain' = Produce(pairs, scene.command)
  /\ UNCHANGED <<scene, disk, arcItems, arcOpened, dirItems, k, outPath, tempFiles, processed,
                 skipped, before, runs>>

-----------------------------------------------------------------------------
(* Compress.                                                               *)

CreateTempFile == arcOpened \/ scene.workingDir

(* A file is only created, never opened; names are tried until one is free. *)
FreePath ==
  IF CreateTempFile
  THEN CHOOSE f \in TempPaths :
         files[f].state = "none" /\ \A g \in 1..(f - 1) : files[g].state # "none"
  ELSE ArcPath

(* Variant for a mutant: the file is not entered in tempFiles.             *)
CreateFile_NotTemporary ==
  /\ pc = "create"
  /\ outPath' = FreePath
  /\ files' = [files EXCEPT ![FreePath] = [state |-> "partial", items |-> <<>>]]
  /\ Goto("write")
  /\ UNCHANGED <<scene, present, arcItems, arcOpened, dirItems, chain, k, tempFiles, processed,
                 skipped, before, runs>>

CreateFile ==
  /\ pc = "create"
  /\ \/ Fails /\ UNCHANGED <<files, outPath, tempFiles>>
     \/ /\ outPath' = FreePath /\ tempFiles' = {FreePath}
        /\ files' = [files EXCEPT ![FreePath] = [state |-> "partial", items |-> <<>>]]
        /\ Goto("write")
  /\ UNCHANGED <<scene, present, arcItems, arcOpened, dirItems, chain, k, processed, skipped,
                 before, runs>>

Append2Out(item) == files' = [files EXCEPT ![outPath].items = Append(@, item)]

(* Compress gets processedItemsStatuses and does nothing with it: the      *)
(* callback keeps the NULL of its constructor.                             *)
StatusesPassed == FALSE

(* Writing one item of the chain, an item copied or GetStream2 and the     *)
(* reading of a file; the handler leaves out a file that cannot be opened. *)
WriteItem ==
  /\ pc = "write" /\ k <= Len(chain)
  /\ LET up == chain[k] IN
     \/ Fails /\ UNCHANGED <<files, k, processed, skipped>>
     \/ /\ ~up.newData /\ Append2Out(arcItems[up.arc])
        /\ k' = k + 1 /\ Goto("write")
        /\ UNCHANGED <<processed, skipped>>
     \/ /\ up.newData /\ Append2Out(Item(DirItem(up.dir)))
        /\ processed' = IF StatusesPassed THEN processed \cup {up.dir} ELSE processed
        /\ k' = k + 1 /\ Goto("write")
        /\ UNCHANGED skipped
     \/ /\ up.newData /\ ~DirItem(up.dir).isDir
        /\ skipped' = skipped \cup {<<runs, up.dir>>}
        /\ k' = k + 1 /\ Goto("write")
        /\ UNCHANGED <<files, processed>>
  /\ UNCHANGED <<scene, present, arcItems, arcOpened, dirItems, chain, outPath, tempFiles, before,
                 runs>>

(* The end of the archive, and Close of the file.                          *)
FinishFile ==
  /\ pc = "write" /\ k > Len(chain)
  /\ \/ Fails /\ UNCHANGED files
     \/ Goto("close") /\ files' = [files EXCEPT ![outPath].state = "whole"]
  /\ UNCHANGED <<scene, present, locals, k, tempFiles, skipped, runs>>

-----------------------------------------------------------------------------
(* The new archive takes the place of the old one.                         *)

(* FinishArchive and arcLink.Close.                                        *)
CloseArchive ==
  /\ pc = "close"
  /\ Fails \/ Goto("forget")
  /\ UNCHANGED <<scene, disk, locals, k, tempFiles, skipped, runs>>

(* Variant for a mutant: the new archive is still a temporary file.        *)
ForgetTempFiles_Keep ==
  /\ pc = "forget"
  /\ Goto(IF CreateTempFile THEN "delete" ELSE "sources")
  /\ k' = 1
  /\ UNCHANGED <<scene, disk, locals, tempFiles, skipped, runs>>

(* tempFiles.Paths.Clear: from here on the new archive stays.              *)
ForgetTempFiles ==
  /\ pc = "forget"
  /\ Goto(IF CreateTempFile THEN "delete" ELSE "sources")
  /\ tempFiles' = {} /\ k' = 1
  /\ UNCHANGED <<scene, disk, locals, skipped, runs>>

DeleteOld ==
  /\ pc = "delete"
  /\ \/ arcOpened /\ Fails /\ UNCHANGED files
     \/ /\ files' = IF arcOpened THEN [files EXCEPT ![ArcPath] = NoFile] ELSE files
        /\ Goto("move")
  /\ UNCHANGED <<scene, present, locals, k, tempFiles, skipped, runs>>

(* MyMoveFile renames, or copies to another device and then unlinks.       *)
Rename ==
  /\ pc = "move" /\ ~scene.otherDevice
  /\ \/ Fails /\ UNCHANGED files
     \/ files' = [files EXCEPT ![ArcPath] = files[outPath], ![outPath] = NoFile]
        /\ Goto("sources")
  /\ UNCHANGED <<scene, present, locals, k, tempFiles, skipped, runs>>

CopyStart ==
  /\ pc = "move" /\ scene.otherDevice
  /\ \/ Fails /\ UNCHANGED files
     \/ files' = [files EXCEPT ![ArcPath] = [state |-> "partial", items |-> <<>>]]
        /\ Goto("copy")
  /\ UNCHANGED <<scene, present, locals, k, tempFiles, skipped, runs>>

(* copy_fd goes on whenever write took a byte, with what read has next: the *)
(* rest of a short write is missing in a copy that counts as complete.     *)
CopyEnd ==
  /\ pc = "copy"
  /\ \/ Fails /\ UNCHANGED files
     \/ files' = [files EXCEPT ![ArcPath] = files[outPath]] /\ Goto("unlink")
     \/ /\ Faults
        /\ files' = [files EXCEPT ![ArcPath] = [state |-> "cut", items |-> <<>>]]
        /\ Goto("unlink")
  /\ UNCHANGED <<scene, present, locals, k, tempFiles, skipped, runs>>

Unlink ==
  /\ pc = "unlink"
  /\ \/ Fails /\ UNCHANGED files
     \/ files' = [files EXCEPT ![outPath] = NoFile] /\ Goto("sources")
  /\ UNCHANGED <<scene, present, locals, k, tempFiles, skipped, runs>>

-----------------------------------------------------------------------------
(* Deleting what was added, files first and directories from the deepest.  *)

SourceBefore(x, y) ==
  \/ ~x.isDir /\ y.isDir
  \/ x.isDir = y.isDir /\ IF x.isDir THEN x.path > y.path ELSE x.path < y.path

Sources ==
  CHOOSE q \in [1..Cardinality(dirItems) -> dirItems] :
    \A m, n \in DOMAIN q : m < n => SourceBefore(q[m], q[n])

(* Empty files count as processed; RemoveDir removes an empty directory.   *)
MayDelete(d) ==
  IF d.isDir THEN \A e \in Here : e.parent # d.path
  ELSE d.path \in processed \/ d.size = 0

(* The callback can stop this; that a file stays is not an error.          *)
DeleteSource ==
  /\ pc = "sources" /\ scene.deleteAfter /\ k <= Len(Sources)
  /\ \/ Fails /\ UNCHANGED <<present, k>>
     \/ /\ k' = k + 1 /\ Goto("sources")
        /\ \/ MayDelete(Sources[k]) /\ present' = present \ {Sources[k].path}
           \/ (~MayDelete(Sources[k]) \/ Faults) /\ UNCHANGED present
  /\ UNCHANGED <<scene, files, locals, tempFiles, skipped, runs>>

Succeed ==
  /\ pc = "sources" /\ (scene.deleteAfter => k > Len(Sources))
  /\ \/ Fails /\ scene.deleteAfter
     \/ pc' = "cleanup" /\ returned' = "ok"
  /\ UNCHANGED <<scene, disk, locals, k, tempFiles, skipped, runs>>

(* CTempFiles::Clear, which is assumed to delete what it tries to.         *)
Cleanup ==
  /\ pc = "cleanup"
  /\ files' = [f \in DOMAIN files |-> IF f \in tempFiles THEN NoFile ELSE files[f]]
  /\ tempFiles' = {} /\ Goto("returned")
  /\ UNCHANGED <<scene, present, locals, k, skipped, runs>>

Crash ==
  /\ Crashes /\ pc \notin {"open", "returned", "crashed"}
  /\ Goto("crashed") /\ tempFiles' = {}
  /\ UNCHANGED <<scene, disk, locals, k, skipped, runs>>

RunAgain ==
  /\ pc \in {"returned", "crashed"} /\ runs < MaxRuns
  /\ pc' = "open" /\ runs' = runs + 1 /\ returned' = "no" /\ k' = 1
  /\ arcItems' = <<>> /\ arcOpened' = FALSE /\ dirItems' = {} /\ chain' = <<>>
  /\ outPath' = ArcPath /\ processed' = {}
  /\ UNCHANGED <<scene, disk, tempFiles, skipped, before>>

Done == pc \in {"returned", "crashed"} /\ runs = MaxRuns /\ UNCHANGED vars

Next ==
  \/ OpenArchive \/ EnumerateItems \/ MakePairs
  \/ CreateFile \/ WriteItem \/ FinishFile
  \/ CloseArchive \/ ForgetTempFiles \/ DeleteOld \/ Rename \/ CopyStart \/ CopyEnd \/ Unlink
  \/ DeleteSource \/ Succeed \/ Cleanup
  \/ Crash \/ RunAgain \/ Done

Spec == Init /\ [][Next]_vars

-----------------------------------------------------------------------------
(* Properties.                                                             *)

TypeOK ==
  /\ scene \in SceneType
  /\ files \in [{ArcPath} \cup TempPaths -> FileType]
  /\ present \subseteq {d.path : d \in scene.disk}
  /\ pc \in {"open", "scan", "pair", "create", "write", "close", "forget", "delete", "move",
             "copy", "unlink", "sources", "cleanup", "returned", "crashed"}
  /\ arcItems \in Seq(ItemType) /\ arcOpened \in BOOLEAN /\ dirItems \subseteq scene.disk
  /\ chain \in Seq([newData : BOOLEAN, dir : Nat, arc : Nat]) /\ k \in Nat
  /\ outPath \in DOMAIN files /\ tempFiles \subseteq DOMAIN files
  /\ processed \subseteq {d.path : d \in scene.disk}
  /\ skipped \subseteq (1..MaxRuns) \X {d.path : d \in scene.disk}
  /\ before \in FileType /\ runs \in 1..MaxRuns /\ returned \in {"no", "ok", "error"}

(* What an item of the archive, or a file on disk, is to the command, said *)
(* without order: the state it has, alone or with the other of its name.   *)
Partner(a, dirs) == {d \in dirs : Same(d, a)}

ArcItemState(a, dirs) ==
  CASE a.name \notin scene.masked -> "notMasked"
    [] a.name \in scene.masked /\ Partner(a, dirs) = {} -> "onlyInArchive"
    [] OTHER -> StateOfBoth(CHOOSE d \in Partner(a, dirs) : TRUE, a)

DirItemState(d, items) ==
  IF \E a \in ToSet(items) : Same(d, a)
  THEN StateOfBoth(d, CHOOSE a \in ToSet(items) : Same(d, a))
  ELSE "onlyOnDisk"

CopiedIndices(items, dirs) ==
  {n \in DOMAIN items : ActionSet(scene.command)[ArcItemState(items[n], dirs)] = "copy"}

CompressedFiles(items, dirs) ==
  {d \in dirs : ActionSet(scene.command)[DirItemState(d, items)] = "compress"}

(* A complete archive with just the items that the action set wants copied *)
(* and the files it wants compressed, but for files that could not be      *)
(* opened in this run.                                                     *)
Updated(f) ==
  LET copied == CopiedIndices(arcItems, dirItems)
      added == {d \in CompressedFiles(arcItems, dirItems) : <<runs, d.path>> \notin skipped} IN
  /\ files[f].state = "whole"
  /\ ToSet(files[f].items) = {arcItems[n] : n \in copied} \cup {Item(d) : d \in added}
  /\ Len(files[f].items) = Cardinality(copied) + Cardinality(added)

(* What the three properties except: a short write in the copy to another  *)
(* device.                                                                 *)
CutCopy == scene.otherDevice /\ files[ArcPath].state = "cut"

(* An update that succeeded left such an archive at the place of the old   *)
(* one, but for a cut copy, and no other file.                             *)
SuccessMeansUpdated ==
  /\ TypeOK
  /\ pc = "returned" /\ returned = "ok" =>
       /\ Updated(ArcPath) \/ CutCopy
       /\ CreateTempFile => files[outPath] = NoFile

InWholeFile(items) ==
  \E f \in DOMAIN files : files[f].state = "whole" /\ items \subseteq ToSet(files[f].items)

(* The items that no run of the command has a reason to touch.             *)
KeptItems ==
  LET items == scene.arc.items
      dirs == IF NeedScanning(scene.command) THEN scene.disk ELSE {} IN
  IF Failed(UpdatePairs(dirs, items, scene.masked)) THEN ToSet(items)
  ELSE {items[n] : n \in CopiedIndices(items, dirs)}

(* At every moment, also when the process is killed, one complete archive  *)
(* has every item of the old one that the command does not replace or      *)
(* drop, and a source file that was deleted is in a complete archive.  An  *)
(* empty file is deleted even if it could not be opened, and is lost; a    *)
(* cut copy loses what it lacks.                                           *)
NothingIsLost ==
  ~CutCopy =>
    /\ scene.arc.state = "whole" => InWholeFile(KeptItems)
    /\ \A d \in scene.disk :
         d.path \notin present =>
           \/ InWholeFile({Item(d)})
           \/ d.size = 0 /\ \E n \in 1..runs : <<n, d.path>> \in skipped

(* An update that fails leaves the archive as it was, and nothing beside   *)
(* it - unless the new archive was complete, and that is then still there, *)
(* but for a cut copy.                                                     *)
ErrorKeepsArchive ==
  pc = "returned" /\ returned = "error" =>
    \/ files[ArcPath] = before /\ (outPath # ArcPath => files[outPath] = NoFile)
    \/ Updated(outPath) \/ Updated(ArcPath) \/ CutCopy

(* "If -sdel switch is specified, 7-Zip deletes files after including to   *)
(* archive."  (Where no system call fails.)                                *)
DeletesArchivedFiles ==
  pc = "returned" /\ returned = "ok" /\ scene.deleteAfter /\ ~Faults =>
    \A d \in dirItems :
      ~d.isDir /\ Item(d) \in ToSet(files[ArcPath].items) => d.path \notin present
=============================================================================
