------------------------------- MODULE ByteLog -------------------------------
(***************************************************************************)
(* What a buffered log promises: the bytes written reach the file in the   *)
(* order they were written; when the buffer is full the oldest is lost.    *)
(***************************************************************************)
EXTENDS Naturals, Sequences

CONSTANTS Bytes, Room

VARIABLES
  pending,   \* the bytes not yet in the file
  out        \* the bytes that went to the file last

Init == pending = <<>> /\ out = <<>>

Put ==
  /\ \E b \in Bytes :
       pending' = Append(IF Len(pending) = Room THEN Tail(pending) ELSE pending, b)
  /\ UNCHANGED out

Write ==
  \E k \in 1..Len(pending) :
    /\ out' = SubSeq(pending, 1, k)
    /\ pending' = SubSeq(pending, k + 1, Len(pending))

Next == Put \/ Write

Spec == Init /\ [][Next]_<<pending, out>>
=============================================================================
