----------------------------- MODULE BlockCoders -----------------------------
(***************************************************************************)
(* The three coders that share blocks among threads side by side: the      *)
(* BZip2 encoder, the BZip2 decoder and the ring of MtCoder.c.  A          *)
(* behaviour is one of a single coder, chosen at the start; all three owe  *)
(* their caller the same.                                                  *)
(***************************************************************************)
EXTENDS BlockCoderParams

VARIABLES
  which,  \* the coder in use
  main, coder, th, io

vars == <<which, main, coder, th, io>>

Enc == INSTANCE BZip2EncoderMt WITH enc <- coder
Dec == INSTANCE BZip2DecoderMt WITH dec <- coder
Ring == INSTANCE MtCoder WITH mt <- coder

Init == \/ which = "enc" /\ Enc!Init
        \/ which = "dec" /\ Dec!Init
        \/ which = "ring" /\ Ring!Init

MainStep ==
  /\ \/ which = "enc" /\ Enc!MainStep
     \/ which = "dec" /\ Dec!MainStep
     \/ which = "ring" /\ Ring!MainStep
  /\ UNCHANGED which

ThreadStep(t) ==
  /\ \/ which = "enc" /\ Enc!ThreadStep(t)
     \/ which = "dec" /\ Dec!ThreadStep(t)
     \/ which = "ring" /\ Ring!ThreadStep(t)
  /\ UNCHANGED which

Next == MainStep \/ \E t \in Threads : ThreadStep(t)

(* Every thread goes on while it can.  Who gets a critical section first   *)
(* is left open: the blocks run out, so the others leave it for good.      *)
FairSpec == /\ Init /\ [][Next]_vars
            /\ WF_vars(MainStep) /\ \A t \in Threads : WF_vars(ThreadStep(t))

-----------------------------------------------------------------------------
(* Properties.                                                             *)

TypeOK == /\ which = "enc" => Enc!TypeOK
          /\ which = "dec" => Dec!TypeOK
          /\ which = "ring" => Ring!TypeOK

(* One turn to write exists at most in the BZip2 coders: a thread that     *)
(* writes, or one event that is set.                                       *)
OneTurn == /\ which = "enc" => Enc!OneTurn
           /\ which = "dec" => Dec!OneTurn

(* Between two calls, when events are reset or closed, no thread works on  *)
(* the call that is over, and in a call the turn to write is not there     *)
(* twice.  The types of all fields are part of it, and the inductive       *)
(* invariant from which it is proved of each coder.                        *)
ThreadsAtRest == /\ TypeOK /\ OneTurn
                 /\ which = "enc" => Enc!ThreadsAtRest /\ Enc!IInv
                 /\ which = "dec" => Dec!ThreadsAtRest /\ Dec!IInv
                 /\ which = "ring" => Ring!ThreadsAtRest /\ Ring!IInv

(* The decoder's threads together do what one thread would.                *)
DecodesLikeOneThread == which = "dec" => Dec!LikeOneThread

Errors ==
  (IF SetupFaults THEN {"mem", "thread"} ELSE {}) \cup (IF ReadFaults THEN {"read"} ELSE {})
  \cup (IF CodeFaults THEN {"code"} ELSE {}) \cup (IF WriteFaults THEN {"write"} ELSE {})
  \cup (IF AbortFaults THEN {"abort"} ELSE {})

Ordered == INSTANCE OrderedBlocks WITH
  output <- IF which = "dec" THEN <<>> ELSE io.written,
  result <- IF which = "dec" THEN "ok" ELSE main.returned

(* What is coded is written in the order of the input, all of it on        *)
(* success, nothing after Code has returned; and an error that is returned *)
(* is one that happened: never the "fail" with which a writer of the ring  *)
(* that was stopped answers the failure of another thread.                 *)
OrderedSpec == Ordered!Spec

(* Every call of Code returns, whatever fails and wherever the other       *)
(* threads are.  Exception: calls of the BZip2 encoder whose output stream *)
(* has failed.                                                             *)
OutputFailed == which = "enc" /\ io.failed
CodeReturns == (main.returned = "none" /\ ~OutputFailed)
                 ~> (main.returned # "none" \/ OutputFailed)
=============================================================================
