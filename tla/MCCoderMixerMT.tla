--------------------------- MODULE MCCoderMixerMT ---------------------------
(* A chain of three decoders, of which number 0, a filter, writes the      *)
(* output: it is the main coder if only a part of the folder is wanted,    *)
(* and number 1 otherwise.  And an encoder with two outputs (BCJ2).        *)
EXTENDS CoderMixerMT

Chain == [bonds |-> {<<2, 1>>, <<1, 0>>}, mainCoders |-> {0, 1}, encode |-> FALSE]
Fork == [bonds |-> {<<0, 1>>, <<0, 2>>}, mainCoders |-> {0}, encode |-> TRUE]
ChainAndFork == {Chain, Fork}
=============================================================================
