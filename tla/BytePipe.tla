------------------------------ MODULE BytePipe ------------------------------
(***************************************************************************)
(* What CStreamBinder promises to the two coders it joins: a pipe without  *)
(* storage.  The writer offers some bytes, the reader takes them in order, *)
(* and the writer is told how many were taken.                             *)
(***************************************************************************)
EXTENDS Integers, Sequences

CONSTANTS Bonds

VARIABLES delivered,    \* the bytes the reader got
          offered,      \* end of what the writer has on offer
          acked,        \* bytes the writer was told are processed
          eof, cut,     \* the reader was told "end", the writer "cut"
          readClosed, writeClosed,
          round

vars == <<delivered, offered, acked, eof, cut, readClosed, writeClosed, round>>

Init ==
  /\ delivered = [b \in Bonds |-> <<>>]
  /\ offered = [b \in Bonds |-> 0] /\ acked = [b \in Bonds |-> 0]
  /\ eof = [b \in Bonds |-> FALSE] /\ cut = [b \in Bonds |-> FALSE]
  /\ readClosed = [b \in Bonds |-> FALSE] /\ writeClosed = [b \in Bonds |-> FALSE]
  /\ round = [b \in Bonds |-> 0]

Offer(b) ==
  /\ ~writeClosed[b] /\ offered[b] = acked[b]
  /\ offered'[b] \in Nat /\ offered'[b] > acked[b]
  /\ offered' = [offered EXCEPT ![b] = offered'[b]]
  /\ UNCHANGED <<delivered, acked, eof, cut, readClosed, writeClosed, round>>

Deliver(b) ==
  /\ ~readClosed[b]
  /\ \E n \in 1..(offered[b] - Len(delivered[b])) :
       delivered' = [delivered EXCEPT
                       ![b] = @ \o [i \in 1..n |-> Len(delivered[b]) + i - 1]]
  /\ UNCHANGED <<offered, acked, eof, cut, readClosed, writeClosed, round>>

(* The writer gets its buffer back only when it is empty or nobody will    *)
(* read it any more.                                                       *)
Report(b) ==
  /\ offered[b] > acked[b]
  /\ Len(delivered[b]) = offered[b] \/ readClosed[b]
  /\ acked' = [acked EXCEPT ![b] = Len(delivered[b])]
  /\ offered' = [offered EXCEPT ![b] = Len(delivered[b])]
  /\ cut' = [cut EXCEPT ![b] = @ \/ Len(delivered[b]) = acked[b]]
  /\ UNCHANGED <<delivered, eof, readClosed, writeClosed, round>>

End(b) ==
  /\ writeClosed[b] /\ ~readClosed[b] /\ Len(delivered[b]) = acked[b]
  /\ eof' = [eof EXCEPT ![b] = TRUE]
  /\ UNCHANGED <<delivered, offered, acked, cut, readClosed, writeClosed, round>>

CloseRead(b) ==
  /\ readClosed' = [readClosed EXCEPT ![b] = TRUE]
  /\ UNCHANGED <<delivered, offered, acked, eof, cut, writeClosed, round>>

CloseWrite(b) ==
  /\ offered[b] = acked[b]
  /\ writeClosed' = [writeClosed EXCEPT ![b] = TRUE]
  /\ UNCHANGED <<delivered, offered, acked, eof, cut, readClosed, round>>

Renew(b) ==
  /\ readClosed[b] /\ writeClosed[b]
  /\ delivered' = [delivered EXCEPT ![b] = <<>>]
  /\ offered' = [offered EXCEPT ![b] = 0] /\ acked' = [acked EXCEPT ![b] = 0]
  /\ eof' = [eof EXCEPT ![b] = FALSE] /\ cut' = [cut EXCEPT ![b] = FALSE]
  /\ readClosed' = [readClosed EXCEPT ![b] = FALSE]
  /\ writeClosed' = [writeClosed EXCEPT ![b] = FALSE]
  /\ round' = [round EXCEPT ![b] = @ + 1]

Next == \E b \in Bonds :
  \/ Offer(b) \/ Deliver(b) \/ Report(b) \/ End(b)
  \/ CloseRead(b) \/ CloseWrite(b) \/ Renew(b)

Spec == Init /\ [][Next]_vars
=============================================================================
