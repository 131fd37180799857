----------------------------- MODULE MCPollWait -----------------------------
(* Two tasks that poll two files; either are interchangeable.              *)
EXTENDS PollWait, TLC
PollSymmetry == Permutations(Pollers) \cup Permutations(Files)
=============================================================================
