------------------------------ MODULE KeyTable ------------------------------
(***************************************************************************)
(* What the table of a remote control promises: it takes a table when it   *)
(* is registered, or is given up; from then on each request gives the one  *)
(* scancode it names the one key it names, NULL for none, or is refused.   *)
(***************************************************************************)
CONSTANTS Scancodes, Keycodes, NULL

VARIABLES
  map,       \* the key of each scancode
  state,     \* "loading", "ready" or "failed"
  request    \* the last request, and whether it was granted

Requests == [scancode : Scancodes, key : Keycodes \cup {NULL}, granted : BOOLEAN]

Empty == [s \in Scancodes |-> NULL]

Init == map = Empty /\ state = "loading" /\ request = NULL

\* What each step does with its request, the new value of request.
Grant == request'.granted /\ map' = [map EXCEPT ![request'.scancode] = request'.key]

\* An entry of the table that is given.
Load == state = "loading" /\ state' \in {"loading", "ready"} /\ Grant

GiveUp ==
  /\ state = "loading" /\ state' = "failed"
  /\ ~request'.granted /\ map' = Empty

Set == state = "ready" /\ state' = state /\ Grant

Refuse == state = "ready" /\ ~request'.granted /\ UNCHANGED <<map, state>>

Next == request' \in Requests /\ (Load \/ GiveUp \/ Set \/ Refuse)

Spec == Init /\ [][Next]_<<map, state, request>>
=============================================================================
