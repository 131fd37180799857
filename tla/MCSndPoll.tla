----------------------------- MODULE MCSndPoll -----------------------------
(* One file and more keys than it can use up.                              *)
EXTENDS SndPoll, TLC
=============================================================================
