------------------------------ MODULE MCLzFindMt ------------------------------
(* Blocks of one or two positions in rings of two, and a window that has   *)
(* to be moved at every second block once it is full.                      *)
EXTENDS LzFindMt

MCLens == <<{1, 10}, {2}>>
=============================================================================
