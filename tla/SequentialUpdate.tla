-------------------------- MODULE SequentialUpdate --------------------------
(***************************************************************************)
(* What an update of a ZIP archive promises, however many threads work on  *)
(* it: items appear in the order of the update list, each once and whole,  *)
(* with a header that states its packed size, and an item once written is  *)
(* never touched again.  Only files the callback declined are missing.     *)
(* If LostWrites, a write may fail unnoticed: the data of its item stops   *)
(* short of the stated size, and from then on (lost) nothing is promised   *)
(* of where in the file any item's data lies, nor after a failure.         *)
(***************************************************************************)
EXTENDS Integers, Sequences

CONSTANTS N, Kind, MaxChunks, NumMethods, MaySkip, Faults, LostWrites

VARIABLES archive,  \* items written, each with its data and stated size
          outcome,  \* "none" until Update2 returns
          lost      \* the data may not be where the headers say

Init == archive = <<>> /\ outcome = "none" /\ lost = FALSE

LastItem == IF archive = <<>> THEN 0 ELSE archive[Len(archive)].item

MayLeaveOut(from, to) == \A i \in from..to : MaySkip /\ Kind[i] = "new"

(* The data of one pass of the encoder; directories and copied items carry *)
(* none that compression produced.                                         *)
PassesOf(i) ==
  IF Kind[i] = "new"
  THEN {[k \in 1..n |-> <<i, m, k>>] : m \in 1..NumMethods, n \in 0..MaxChunks}
  ELSE {<<>>}

Put ==
  /\ outcome = "none"
  /\ \E i \in (LastItem + 1)..N : \E d \in PassesOf(i) :
     \E n \in 0..Len(d) :
       /\ (n = Len(d) /\ UNCHANGED lost) \/ (LostWrites /\ lost' = TRUE)
       /\ MayLeaveOut(LastItem + 1, i - 1)
       /\ archive' = Append(archive, [item |-> i, data |-> SubSeq(d, 1, n), size |-> Len(d)])
  /\ UNCHANGED outcome

Finish ==
  /\ outcome = "none" /\ MayLeaveOut(LastItem + 1, N)
  /\ outcome' = "ok" /\ UNCHANGED <<archive, lost>>

Fail ==
  /\ outcome = "none" /\ Faults
  /\ outcome' \in {"fail", "abort"} /\ lost' = (lost \/ LostWrites) /\ UNCHANGED archive

Spec == Init /\ [][Put \/ Finish \/ Fail]_<<archive, outcome, lost>>
=============================================================================
