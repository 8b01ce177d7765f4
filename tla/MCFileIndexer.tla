--------------------------- MODULE MCFileIndexer ---------------------------
(***************************************************************************)
(* Instances of FileIndexer for TLC: a log and the name it is rotated to.  *)
(***************************************************************************)
EXTENDS FileIndexer
MCRotations == {<<"log", "log.1">>}
=============================================================================
