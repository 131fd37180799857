------------------------------ MODULE WorkSlots ------------------------------
(***************************************************************************)
(* What a work queue promises its users, without list, event or thread     *)
(* states: each work is a slot that holds at most one job.  Submitting     *)
(* replaces the job in the slot and restarts its delay, cancelling empties *)
(* the slot, and one job at a time is started, from a slot that is full    *)
(* and whose delay is over, emptying it.  So a job runs at most once for   *)
(* each submission, never before its delay, never after it was cancelled   *)
(* or replaced, and two jobs never run at the same time.                   *)
(***************************************************************************)
EXTENDS Naturals

CONSTANTS Works, Jobs, MaxDelay, NULL

VARIABLES
  slot,     \* the job each work holds, or NULL
  due,      \* ticks before it may start
  running   \* the work and job being executed, or NULL

vars == <<slot, due, running>>

Init ==
  /\ slot = [w \in Works |-> NULL]
  /\ due = [w \in Works |-> 0]
  /\ running = NULL

Submit(w, j, d) ==
  /\ slot' = [slot EXCEPT ![w] = j]
  /\ due' = [due EXCEPT ![w] = d]
  /\ UNCHANGED running

Cancel(w) ==
  /\ slot[w] # NULL
  /\ slot' = [slot EXCEPT ![w] = NULL]
  /\ due' = [due EXCEPT ![w] = 0]
  /\ UNCHANGED running

\* Start the job of w; the one that was running, if any, has returned.
Start(w) ==
  /\ slot[w] # NULL
  /\ due[w] = 0
  /\ running' = [work |-> w, job |-> slot[w]]
  /\ slot' = [slot EXCEPT ![w] = NULL]
  /\ UNCHANGED due

Finish ==
  /\ running # NULL
  /\ running' = NULL
  /\ UNCHANGED <<slot, due>>

Tick ==
  /\ due' = [w \in Works |-> IF due[w] > 0 THEN due[w] - 1 ELSE 0]
  /\ UNCHANGED <<slot, running>>

Next ==
  \/ \E w \in Works, j \in Jobs, d \in 0..MaxDelay : Submit(w, j, d)
  \/ \E w \in Works : Cancel(w) \/ Start(w)
  \/ Finish
  \/ Tick

Spec == Init /\ [][Next]_vars
=============================================================================
