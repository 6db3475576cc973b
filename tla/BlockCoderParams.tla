--------------------------- MODULE BlockCoderParams ---------------------------
(* What the block coders with several threads are instantiated with: the   *)
(* threads, the input, and which of the calls they make may fail.          *)
EXTENDS Integers, Sequences

CONSTANTS
  NumThreads,
  NumBlocks,    \* blocks of the input of a Code call
  MaxRounds,    \* bound: calls of Code
  SetupFaults,  \* allocating buffers or creating a thread may fail
  ReadFaults,   \* the input stream may fail
  CodeFaults,   \* the coding of a block may fail
  WriteFaults,  \* the output stream may fail
  AbortFaults,  \* the progress callback may ask to stop
  Inputs        \* streams for the BZip2 decoder: how the decoding of each block goes,
                \* and how the stream ends

ASSUME ConstantsAssumption ==
  /\ NumThreads \in Nat \ {0} /\ NumBlocks \in Nat \ {0} /\ MaxRounds \in Nat
  /\ {SetupFaults, ReadFaults, CodeFaults, WriteFaults, AbortFaults} \subseteq BOOLEAN

ASSUME InputsAssumption ==
  /\ Inputs \subseteq [blocks : Seq({"good", "data", "crc", "write", "abort"}),
                       end : {"ok", "data", "crc", "read", "write", "abort", "nosig"}]
  /\ \A input \in Inputs : Len(input.blocks) <= NumBlocks

Threads == 0..(NumThreads - 1)

(* Going round the ring of threads, or of slots, q comes d places after p. *)
Ahead(p, q, d) == q = p + d \/ q + NumThreads = p + d
=============================================================================
