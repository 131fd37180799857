----------------------------- MODULE MCWorkQueue -----------------------------
(* The work queue with a task, an interrupt handler and the callbacks      *)
(* themselves calling it.                                                  *)
EXTENDS WorkQueue, TLC
=============================================================================
