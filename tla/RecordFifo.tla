----------------------------- MODULE RecordFifo -----------------------------
(***************************************************************************)
(* What a kshm channel promises its two sides: the records come out whole, *)
(* once, and in the order they went in.  A reset drops what is in it.      *)
(***************************************************************************)
EXTENDS Sequences

CONSTANT Records

VARIABLES
  fifo,   \* the records written and not yet read
  out     \* the record last read

Init == fifo = <<>> /\ out \in Records

Put == \E r \in Records : fifo' = Append(fifo, r) /\ UNCHANGED out

Get == fifo # <<>> /\ out' = Head(fifo) /\ fifo' = Tail(fifo)

Clear == fifo' = <<>> /\ UNCHANGED out

Next == Put \/ Get \/ Clear

Spec == Init /\ [][Next]_<<fifo, out>>
=============================================================================
