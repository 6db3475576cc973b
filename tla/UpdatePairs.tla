---------------------------- MODULE UpdatePairs ----------------------------
(***************************************************************************)
(* What an update does with each file: GetUpdatePairInfoList merges the    *)
(* files on disk and the items of the archive, both sorted by name, into   *)
(* pairs, and UpdateProduce picks an operation for each pair from the      *)
(* action set of the command.                                              *)
(*                                                                         *)
(* Names are numbers in the order of CompareFileNames, times are in the    *)
(* precision of the archive, Undefined where the archive has none.  A file *)
(* on disk also has a path: two paths may get the same name in the         *)
(* archive.  Alternate streams are left out.                               *)
(***************************************************************************)
EXTENDS Integers, Sequences, FiniteSets, SequencesExt

Undefined == -1

States == {"notMasked", "onlyInArchive", "onlyOnDisk", "newInArchive", "oldInArchive",
           "sameFiles", "unknownNewer"}

(* k_ActionSet_Add and the others: what is done to a pair in each state.   *)
ActionSet(command) ==
  [s \in States |->
     CASE s = "notMasked" -> "copy"
       [] s = "onlyInArchive" -> IF command \in {"sync", "delete"} THEN "ignore" ELSE "copy"
       [] s = "onlyOnDisk" -> IF command \in {"fresh", "delete"} THEN "ignore" ELSE "compress"
       [] s \in {"newInArchive", "sameFiles"} ->
            (CASE command = "add" -> "compress" [] command = "delete" -> "ignore" [] OTHER -> "copy")
       [] OTHER -> IF command = "delete" THEN "ignore" ELSE "compress"]

Commands == {"add", "update", "fresh", "sync", "delete"}

NeedScanning(command) ==
  \/ \E s \in States : ActionSet(command)[s] = "compress"
  \/ \E s \in States \ {"notMasked"} : ActionSet(command)[s] # "ignore"

Same(x, y) == x.name = y.name /\ x.isDir = y.isDir

(* CompareArcItemsBase: a directory comes before a file of its name.       *)
Before(x, y) == x.name < y.name \/ (x.name = y.name /\ x.isDir /\ ~y.isDir)

DirBefore(x, y) == x.name < y.name \/ (x.name = y.name /\ x.path < y.path)

DirOrder(dirs) ==
  CHOOSE q \in [1..Cardinality(dirs) -> dirs] :
    \A m, n \in DOMAIN q : m < n => DirBefore(q[m], q[n])

ArcBefore(arc, i, j) == Before(arc[i], arc[j]) \/ (Same(arc[i], arc[j]) /\ i < j)

ArcOrder(arc) ==
  CHOOSE q \in [DOMAIN arc -> DOMAIN arc] :
    \A m, n \in DOMAIN q : m < n => ArcBefore(arc, q[m], q[n])

StateOfBoth(d, a) ==
  IF a.time # Undefined /\ d.time # a.time
  THEN IF d.time < a.time THEN "newInArchive" ELSE "oldInArchive"
  ELSE IF a.size # Undefined /\ d.size = a.size THEN "sameFiles" ELSE "unknownNewer"

None == 0
Pair(state, d, a) == [state |-> state, dir |-> d, arc |-> a]

(* Errors throw, which leaves a list that ends with a pair in this state.  *)
Error == Pair("error", None, None)

(* Variant for a mutant: only the item before is looked at.                *)
Duplicated_PreviousOnly(order, arc, y) ==
  y - 1 \in DOMAIN order /\ Same(arc[order[y - 1]], arc[order[y]])

Duplicated(order, arc, y) ==
  \E z \in {y - 1, y + 1} \cap DOMAIN order : Same(arc[order[z]], arc[order[y]])

(* The merge; dir of a pair is a path, arc an index.                       *)
UpdatePairs(dirs, arc, masked) ==
  LET D == DirOrder(dirs)
      A == ArcOrder(arc)
      OnDisk(x) == Pair("onlyOnDisk", D[x].path, None)
      InArchive(y) == Pair(IF arc[A[y]].name \in masked THEN "onlyInArchive" ELSE "notMasked",
                           None, A[y])
      merge[p \in (1..(Len(D) + 1)) \X (1..(Len(A) + 1))] ==
        LET x == p[1]  y == p[2] IN
        CASE x > Len(D) /\ y > Len(A) -> <<>>
          [] x <= Len(D) /\ (y <= Len(A) => Before(D[x], arc[A[y]])) ->
               <<OnDisk(x)>> \o merge[<<x + 1, y>>]
          [] y <= Len(A) /\ (x <= Len(D) => Before(arc[A[y]], D[x])) ->
               <<InArchive(y)>> \o merge[<<x, y + 1>>]
          [] OTHER ->
               IF Duplicated(A, arc, y) \/ arc[A[y]].name \notin masked THEN <<Error>>
               ELSE <<Pair(StateOfBoth(D[x], arc[A[y]]), D[x].path, A[y])>>
                    \o merge[<<x + 1, y + 1>>]
  IN IF \E x, y \in dirs : x # y /\ x.name = y.name THEN <<Error>> ELSE merge[<<1, 1>>]

Failed(pairs) == Error \in ToSet(pairs)

(* UpdateProduce: data is new when the file is compressed again, else the  *)
(* item is copied.                                                         *)
Produce(pairs, command) ==
  LET Action(p) == ActionSet(command)[p.state]
      kept[n \in 0..Len(pairs)] ==
        IF n = 0 THEN <<>>
        ELSE IF Action(pairs[n]) = "ignore" THEN kept[n - 1]
        ELSE Append(kept[n - 1], [newData |-> Action(pairs[n]) = "compress",
                                  dir |-> pairs[n].dir, arc |-> pairs[n].arc])
  IN kept[Len(pairs)]
=============================================================================
