---------------------------- MODULE MCFileTable ----------------------------
(* Two tasks that open and close files, and two descriptors for them.      *)
EXTENDS FileTable, TLC
=============================================================================
