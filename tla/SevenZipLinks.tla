--------------------------- MODULE SevenZipLinks ---------------------------
(***************************************************************************)
(* How the files of a 7z database find their data (CDbEx::FillLinks): the  *)
(* header has the files and the number of streams of every folder, and     *)
(* nothing that ties one to the other but their order.  A database has     *)
(* files with the flag hasStream and folders with the number streams.      *)
(***************************************************************************)
EXTENDS Integers, Sequences, FiniteSets

NoFolder == 0

StreamsBefore(d, f) == Cardinality({g \in 1..(f - 1) : d.files[g].hasStream})

StreamsOf(d) ==
  LET start[k \in 1..(Len(d.folders) + 1)] ==
        IF k = 1 THEN 0 ELSE start[k - 1] + d.folders[k - 1].streams
  IN [k \in 1..Len(d.folders) |-> start[k]..(start[k + 1] - 1)]

(* The streams of the folders go to the files in order; a file without     *)
(* stream belongs to a folder only between two streams of it.              *)
LinkedFolder(d, f) ==
  LET n == StreamsBefore(d, f)
      own == {k \in 1..Len(d.folders) :
                n \in StreamsOf(d)[k] /\ (d.files[f].hasStream \/ n - 1 \in StreamsOf(d)[k])} IN
  IF own = {} THEN NoFolder ELSE CHOOSE k \in own : TRUE

LinkedFiles(d, k) == {f \in 1..Len(d.files) : LinkedFolder(d, f) = k}

FirstFile(d, k) ==
  CHOOSE f \in LinkedFiles(d, k) : \A g \in LinkedFiles(d, k) : f <= g
=============================================================================
