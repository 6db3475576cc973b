-------------------------- MODULE MCCacheOutStream --------------------------
(* A ring of two bytes and a file more than twice as large, so that the    *)
(* cached range wraps, is evicted in part and is written in two pieces,    *)
(* each of which may fail.                                                 *)
EXTENDS CacheOutStream
=============================================================================
