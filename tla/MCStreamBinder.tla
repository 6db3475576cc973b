--------------------------- MODULE MCStreamBinder ---------------------------
(* One binder used for two files, up to 4 bytes each in pieces of 1 to 3.  *)
EXTENDS StreamBinder
=============================================================================
