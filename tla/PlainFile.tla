------------------------------ MODULE PlainFile ------------------------------
(***************************************************************************)
(* An output file as IOutStream presents it: bytes, a position, and writes *)
(* that may take less than they were offered.  What lies between the end   *)
(* of the file and a write behind it reads as zeros.                       *)
(***************************************************************************)
EXTENDS Integers, Sequences

CONSTANTS Bytes, MaxSize

VARIABLES content, position, open

Zero == 0

Resized(file, n) == [p \in 1..n |-> IF p <= Len(file) THEN file[p] ELSE Zero]

Longer(a, b) == IF a > b THEN a ELSE b

Put(file, at, data) ==
  [p \in 1..Longer(Len(file), at + Len(data)) |->
     IF p \in (at + 1)..(at + Len(data)) THEN data[p - at]
     ELSE IF p <= Len(file) THEN file[p] ELSE Zero]

Write ==
  /\ open /\ UNCHANGED open
  /\ \E n \in 1..(MaxSize - position), v \in Bytes :
       /\ content' = Put(content, position, [k \in 1..n |-> v])
       /\ position' = position + n

Seek ==
  /\ open /\ position' \in 0..MaxSize
  /\ UNCHANGED <<content, open>>

SetSize ==
  /\ open /\ \E n \in 0..MaxSize : content' = Resized(content, n)
  /\ UNCHANGED <<position, open>>

Close == open /\ open' = FALSE /\ UNCHANGED <<content, position>>

(* A call returns an error: nothing is promised of the file any more.      *)
Fail == open /\ open' = FALSE /\ content' = <<>>

Init == open = TRUE /\ content \in UNION {[1..n -> {Zero}] : n \in 0..MaxSize}
             /\ position = Len(content)

Spec == Init /\ [][Write \/ Seek \/ SetSize \/ Close \/ Fail]_<<content, position, open>>
=============================================================================
