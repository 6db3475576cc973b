---------------------------- MODULE MCBlockCoders ----------------------------
(* Three threads, so that the one that fails has a neighbour at work for   *)
(* an earlier block and one for a later block; four blocks, so that slots  *)
(* wrap; two calls, so that what the first left could reach the second.    *)
EXTENDS BlockCoders

Stream(blocks, end) == [blocks |-> blocks, end |-> end]
MCInputs ==
  {Stream(<<"good", "good", "good", "good">>, "ok"), Stream(<<"good", "crc">>, "data"),
   Stream(<<"good", "write", "good", "crc">>, "crc"), Stream(<<"abort", "good">>, "read"),
   Stream(<<"good">>, "crc"), Stream(<<>>, "ok"), Stream(<<"good", "good">>, "abort"),
   Stream(<<>>, "write"), Stream(<<>>, "nosig")}
=============================================================================
