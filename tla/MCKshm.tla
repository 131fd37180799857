------------------------------- MODULE MCKshm -------------------------------
(* Five lines of buffer, records of one and three of them.                 *)
EXTENDS Kshm, TLC
=============================================================================
