----------------------------- MODULE MCFileUart -----------------------------
(* The log with two tasks and an interrupt handler that may write.         *)
EXTENDS FileUart, TLC
=============================================================================
