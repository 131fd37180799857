--------------------------- MODULE PollWait_proofs ---------------------------
(***************************************************************************)
(* Proofs about PollWait, for any tasks, files and timeouts: no entry      *)
(* outlives its call and no event is lost.                                 *)
(***************************************************************************)
EXTENDS PollWait, TLAPS

-----------------------------------------------------------------------------
(* The inductive invariant.                                                *)

Active(p) == pc[p] \in {"query", "hook", "mask", "decide", "sleep"}

\* The locals of the loop over the descriptors.
LocalsOK ==
  \A p \in Pollers :
    /\ left[p] \subseteq fds[p]
    /\ pc[p] \in {"hook", "mask"} => cur[p] \in left[p] \cap Files
    /\ pc[p] \in {"decide", "sleep"} => left[p] = {}
    /\ pc[p] = "sleep" => ~found[p]

\* f is one of the files p has still to leave an entry on.
Unhooked(p, f) ==
  hooking[p] /\ f \in left[p] /\ ~(pc[p] = "mask" /\ f = cur[p])

\* Until a first event, p has an entry on every file that it has come by.
Hooked ==
  \A p \in Pollers : \A f \in Files :
    Active(p) /\ ~failed[p] /\ ~found[p] /\ f \in fds[p] /\ ~Unhooked(p, f) =>
      p \in entries[f]

\* An event at a file that was queried in this pass came later, so that its
\* driver is about to wake p, or has.
Announced ==
  \A p \in Pollers : \A f \in Files :
    Active(p) /\ ~failed[p] /\ ~found[p] /\ p \notin notified
      /\ f \in fds[p] /\ f \notin left[p] /\ f \in ready => f \in waking

IInv == TypeOK /\ LocalsOK /\ NoDanglingEntry /\ Hooked /\ Announced

-----------------------------------------------------------------------------
(* Each step keeps the type.                                               *)

\* The ticks left stay within the timeout.
LEMMA TickBounds ==
  ASSUME NEW n \in 0..Forever
  PROVE  /\ n # 0 => n - 1 \in 0..Forever
         /\ n # Forever => n + 1 \in 0..Forever
BY PollAssumption DEF Forever

\* The type invariant is kept by every step.
LEMMA TypeStep ==
  ASSUME TypeOK, LocalsOK, [Next]_vars
  PROVE  TypeOK'
<1> USE DEF TypeOK, At, Go, task
<1>1. ASSUME NEW p \in Pollers, Poll(p) PROVE TypeOK'
  BY <1>1 DEF Poll
<1>2. ASSUME NEW p \in Pollers, NEW f \in Descriptors, Query(p, f) PROVE TypeOK'
  BY <1>2 DEF Query
<1>3. ASSUME NEW p \in Pollers, Hook(p) PROVE TypeOK'
  <2>1. cur[p] \in Files
    BY <1>3 DEF Hook, LocalsOK
  <2>2. entries' = [entries EXCEPT ![cur[p]] = @ \cup {p}] \/ UNCHANGED entries
    BY <1>3 DEF Hook
  <2>3. entries' \in [Files -> SUBSET Pollers]
    BY <2>1, <2>2
  <2>4. failed' \in [Pollers -> BOOLEAN] /\ pc' = [pc EXCEPT ![p] = "mask"]
    BY <1>3 DEF Hook
  <2> QED
    BY <1>3, <2>3, <2>4 DEF Hook
<1>4. ASSUME NEW p \in Pollers, Mask(p) PROVE TypeOK'
  BY <1>4 DEF Mask
<1>5. ASSUME NEW p \in Pollers, Decide(p) PROVE TypeOK'
  BY <1>5 DEF Decide
<1>6. ASSUME NEW p \in Pollers, Wake(p) PROVE TypeOK'
  BY <1>6, PollAssumption DEF Wake, Forever
<1>7. ASSUME NEW p \in Pollers, Leave(p) PROVE TypeOK'
  BY <1>7, PollAssumption DEF Leave, Return, Forever
<1>8. ASSUME NEW f \in Files, Arrive(f) \/ WakeUp(f) \/ Consume(f) PROVE TypeOK'
  BY <1>8 DEF Arrive, WakeUp, Consume
<1>9. ASSUME Tick PROVE TypeOK'
  <2>1. \A p \in Pollers : timer'[p] \in 0..Forever /\ elapsed'[p] \in 0..Forever
    BY <1>9, TickBounds DEF Tick, Sleeping
  <2>2. /\ timer' = [p \in Pollers |-> timer'[p]]
        /\ elapsed' = [p \in Pollers |-> elapsed'[p]]
    BY <1>9 DEF Tick
  <2> QED
    BY <1>9, <2>1, <2>2 DEF Tick
<1>10. CASE UNCHANGED vars
  BY <1>10 DEF vars
<1> QED
  BY <1>1, <1>2, <1>3, <1>4, <1>5, <1>6, <1>7, <1>8, <1>9, <1>10 DEF Next, PollStep

-----------------------------------------------------------------------------
(* Each step keeps the rest.                                               *)

Rest == LocalsOK /\ NoDanglingEntry /\ Hooked /\ Announced

\* Leaving an entry, reading the mask and the other steps of a task keep the
\* invariant.
LEMMA TaskStep ==
  ASSUME IInv, NEW p \in Pollers, Poll(p) \/ PollStep(p)
  PROVE  Rest'
<1> USE DEF IInv, Rest, TypeOK, At, Go, Active, Unhooked, LocalsOK, NoDanglingEntry,
            Hooked, Announced
<1>1. ASSUME Poll(p) PROVE Rest'
  BY <1>1 DEF Poll
<1>2. ASSUME NEW f \in Descriptors, Query(p, f) PROVE Rest'
  BY <1>2 DEF Query, Descriptors
<1>3. ASSUME Hook(p) PROVE Rest'
  BY <1>3 DEF Hook
<1>4. ASSUME Mask(p) PROVE Rest'
  BY <1>4 DEF Mask
<1>5. ASSUME Decide(p) PROVE Rest'
  BY <1>5 DEF Decide
<1>6. ASSUME Wake(p) PROVE Rest'
  BY <1>6 DEF Wake
<1>7. ASSUME Leave(p) PROVE Rest'
  BY <1>7 DEF Leave, Return
<1> QED
  BY <1>1, <1>2, <1>3, <1>4, <1>5, <1>6, <1>7 DEF PollStep

\* So do the drivers, which announce each event, and the tick.
LEMMA OtherStep ==
  ASSUME IInv,
         \/ \E f \in Files : Arrive(f) \/ WakeUp(f) \/ Consume(f)
         \/ Tick
         \/ UNCHANGED vars
  PROVE  Rest'
<1> USE DEF IInv, Rest, TypeOK, Active, Unhooked, LocalsOK, NoDanglingEntry, Hooked,
            Announced, task
<1>1. ASSUME NEW f \in Files, Arrive(f) PROVE Rest'
  BY <1>1 DEF Arrive
<1>2. ASSUME NEW f \in Files, WakeUp(f) PROVE Rest'
  BY <1>2 DEF WakeUp
<1>3. ASSUME NEW f \in Files, Consume(f) PROVE Rest'
  BY <1>3 DEF Consume
<1>4. CASE Tick
  BY <1>4 DEF Tick
<1>5. CASE UNCHANGED vars
  BY <1>5 DEF vars
<1> QED
  BY <1>1, <1>2, <1>3, <1>4, <1>5

-----------------------------------------------------------------------------
(* The theorems.                                                           *)

\* The invariant holds in every state.
LEMMA SpecIInv == Spec => []IInv
<1>1. Init => IInv
  BY PollAssumption
  DEF Init, IInv, TypeOK, LocalsOK, NoDanglingEntry, Hooked, Announced, Active, Forever
<1>2. IInv /\ [Next]_vars => IInv'
  BY TypeStep, TaskStep, OtherStep DEF IInv, Rest, Next
<1> QED
  BY <1>1, <1>2, PTL DEF Spec

\* The variables have their types.
THEOREM SpecTypeOK == Spec => []TypeOK
<1>1. IInv => TypeOK
  BY DEF IInv
<1> QED
  BY <1>1, SpecIInv, PTL

\* However many files a task polls and however it leaves the call, its entries go
\* with it (fs_poll.c:172-194, 280).
THEOREM SpecNoDanglingEntry == Spec => []NoDanglingEntry
<1>1. IInv => NoDanglingEntry
  BY DEF IInv
<1> QED
  BY <1>1, SpecIInv, PTL

\* No task sleeps with an event at one of its files whose driver has called
\* wake_up, unless it was woken (fs_poll.c:91-111, 121-156, 213-237, 268-278).
THEOREM SpecNoLostEvent == Spec => []NoLostEvent
<1>1. IInv => NoLostEvent
  <2> SUFFICES ASSUME IInv, NEW p \in Pollers,
                      At(p, "sleep"), p \notin notified, ~failed[p],
                      NEW f \in fds[p] \cap (ready \ waking)
               PROVE  FALSE
    BY DEF NoLostEvent
  <2>1. f \in Files /\ f \notin left[p] /\ ~found[p] /\ Active(p)
    BY DEF IInv, TypeOK, LocalsOK, At, Active
  <2> QED
    BY <2>1 DEF IInv, Announced
<1> QED
  BY <1>1, SpecIInv, PTL
=============================================================================
