---------------------------- MODULE OrderedBlocks ----------------------------
(***************************************************************************)
(* What a block coder with many threads promises its caller: the coded     *)
(* blocks reach the output one after the other in the order of the input,  *)
(* nothing is written once Code has returned, and Code returns "ok" only   *)
(* when every block of the input is in the output.                         *)
(***************************************************************************)
EXTENDS Integers, Sequences

CONSTANTS NumBlocks,  \* blocks of the input
          Errors      \* the errors Code may return

VARIABLES output,  \* numbers of the blocks written by the current Code
          result   \* "none" while Code runs

Init == output = <<>> /\ result = "ok"

Start == result # "none" /\ output' = <<>> /\ result' = "none"

Write ==
  /\ result = "none" /\ Len(output) < NumBlocks
  /\ output' = Append(output, Len(output) + 1)
  /\ UNCHANGED result

Return ==
  /\ result = "none"
  /\ result' \in Errors \cup IF Len(output) = NumBlocks THEN {"ok"} ELSE {}
  /\ UNCHANGED output

Spec == Init /\ [][Start \/ Write \/ Return]_<<output, result>>
=============================================================================
