--------------------------- MODULE MCZipUpdateMt ---------------------------
(* Three files around a directory, two encoder threads, few blocks.        *)
EXTENDS ZipUpdateMt

MCKind == <<"new", "dir", "new", "new">>
=============================================================================
