---------------------------- MODULE MCCompletion ----------------------------
(* A completion with the single waiter the drivers give it, and with two.  *)
EXTENDS Completion, TLC
=============================================================================
