-------------------------- MODULE MCSevenZipExtract --------------------------
EXTENDS SevenZipExtract

Stored(size, crc) == [size |-> size, hasStream |-> TRUE, isDir |-> FALSE, crcDefined |-> crc]
Empty == [size |-> 0, hasStream |-> FALSE, isDir |-> FALSE, crcDefined |-> FALSE]
Directory == [Empty EXCEPT !.isDir = TRUE]

Folder(bind, streams) == [bind |-> bind, streams |-> streams, badProps |-> FALSE]

(* Solid folders with a directory, an empty file and an empty stream in    *)
(* them, and files outside every folder; a coder that is missing between   *)
(* two folders of the same kind, and twice in a row; folders that are      *)
(* refused for their bind info or their properties, and one without files. *)
MCArchives ==
  {[files |-> <<Empty, Stored(2, TRUE), Directory, Stored(1, FALSE), Empty, Stored(1, TRUE)>>,
    folders |-> <<Folder("a", 3)>>],
   [files |-> <<Stored(1, TRUE), Stored(1, TRUE), Stored(1, TRUE), Stored(1, TRUE), Directory>>,
    folders |-> <<Folder("a", 1), Folder("b", 1), Folder("b", 1), Folder("a", 1)>>],
   [files |-> <<Stored(0, TRUE), Stored(1, TRUE), Stored(1, TRUE), Empty, Stored(2, TRUE)>>,
    folders |-> <<Folder("a", 2), Folder("c", 0), Folder("c", 1),
                  [Folder("a", 2) EXCEPT !.badProps = TRUE]>>]}
=============================================================================
