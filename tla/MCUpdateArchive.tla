-------------------------- MODULE MCUpdateArchive --------------------------
EXTENDS UpdateArchive

OldFile(name, time, size) == [name |-> name, isDir |-> FALSE, time |-> time, size |-> size]
OldDirectory(name) == [name |-> name, isDir |-> TRUE, time |-> Undefined, size |-> Undefined]

File(path, parent, name, time, size) ==
  [path |-> path, parent |-> parent, name |-> name, isDir |-> FALSE, time |-> time, size |-> size]
Directory(path, parent, name) ==
  [path |-> path, parent |-> parent, name |-> name, isDir |-> TRUE, time |-> 5, size |-> 0]

Archive(items) == [state |-> "whole", items |-> items]

(* Items newer, older, equal, of unknown time, only in the archive, out of *)
(* the mask, twice in it, and a directory and a file of one name.          *)
MCArchives ==
  {NoFile,
   Archive(<<OldFile(3, 1, 1), OldFile(2, 5, 1), OldDirectory(1)>>),
   Archive(<<OldFile(2, 1, 2), OldFile(4, 5, 1), OldFile(1, 5, 0)>>),
   Archive(<<OldFile(2, Undefined, 1), OldDirectory(2), OldFile(3, 9, 1)>>),
   Archive(<<OldFile(3, 5, 1), OldFile(3, 5, 1), OldFile(4, 5, 1)>>)}

(* A directory with a file, an empty file; two paths for one name.         *)
MCDisks ==
  {{Directory(1, 0, 1), File(2, 1, 2, 5, 1)},
   {File(2, 0, 2, 5, 1), File(3, 0, 3, 5, 0)},
   {File(2, 0, 2, 5, 1), File(3, 0, 2, 5, 1)}}

MCScenes ==
  {s \in [arc : MCArchives, disk : MCDisks, masked : {{1, 2, 3}}, command : Commands,
          deleteAfter : BOOLEAN, workingDir : BOOLEAN, otherDevice : BOOLEAN] :
     /\ s.deleteAfter => s.command = "add"
     /\ s.otherDevice => s.workingDir}
=============================================================================
