-------------------------- MODULE MCSevenZipUpdate --------------------------
EXTENDS SevenZipUpdate

Stored(size, crc) == [size |-> size, hasStream |-> TRUE, crcDefined |-> crc]
Empty == [size |-> 0, hasStream |-> FALSE, crcDefined |-> FALSE]

Folder(streams, filter, encrypted) ==
  [streams |-> streams, filter |-> filter, encrypted |-> encrypted]

(* A solid folder with an empty file between its files, then an encrypted  *)
(* one, with a filter, that starts with an empty stream.                   *)
Files ==
  <<Stored(1, TRUE), Empty, Stored(2, FALSE), Stored(0, TRUE), Stored(1, TRUE), Stored(1, TRUE)>>
Folders == <<Folder(2, 0, FALSE), Folder(3, 1, TRUE)>>

(* Any old file goes, and the last may be replaced; one file is new.       *)
Fates == {"keep", "drop", "replace"}

Item(old, newData, size, filter) ==
  [old |-> old, newData |-> newData, size |-> size, filter |-> filter]

OldItem(f, fate) ==
  CASE fate = "keep" -> <<Item(f, FALSE, Files[f].size, 0)>>
    [] fate = "drop" -> <<>>
    [] fate = "replace" -> <<Item(f, TRUE, 1, 0)>>

NewItems == <<Item(0, TRUE, 1, 1)>>

MCUpdates ==
  {[files |-> Files, folders |-> Folders,
    items |-> FlattenSeq([f \in DOMAIN Files |-> OldItem(f, fates[f])]) \o NewItems,
    numSolidFiles |-> solid, useFilters |-> mt, mt |-> mt, password |-> solid = 1] :
     fates \in {h \in [DOMAIN Files -> Fates] : h[2] = "keep" /\ \A f \in 1..5 : h[f] # "replace"},
     solid \in {1, 3}, mt \in BOOLEAN}
=============================================================================
