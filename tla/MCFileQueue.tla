---------------------------- MODULE MCFileQueue -----------------------------
(* FileQueue for TLC.                                                      *)
EXTENDS FileQueue
=============================================================================
