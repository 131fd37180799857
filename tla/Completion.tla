----------------------------- MODULE Completion -----------------------------
(***************************************************************************)
(* One struct completion of sched/completion.c, step by step: tasks in     *)
(* wait_for_completion(_timeout), which reads done outside its critical    *)
(* sections and takes its token with a plain load and store, against tasks *)
(* and interrupt handlers that call complete and complete_all.             *)
(*                                                                         *)
(* The drivers rearm a completion before they start a transfer; a wait     *)
(* without timeout is one that never expires.                              *)
(***************************************************************************)
EXTENDS CompletionOps

CONSTANTS
  Waiters,      \* the tasks that wait
  MaxCredit     \* bound on the complete calls no wait has used up

ASSUME CompletionAssumption == MaxCredit \in Nat

VARIABLES
  x,          \* the completion: done, and the tasks on task_list
  notified,   \* tasks whose COMPLETION notification is pending
  timed,      \* does the wait of a task have a finite timeout?
  pc,         \* where a task is in wait_for_completion_timeout
  reg,        \* the value of done it decrements
  credit      \* history: complete calls not yet answered by a return of 1

vars == <<x, notified, timed, pc, reg, credit>>

Unbounded == MaxCredit + 1      \* the credit after complete_all
Credited == IF credit = Unbounded THEN credit ELSE credit + 1

TypeOK ==
  /\ x \in Completion(Waiters)
  /\ notified \subseteq Waiters
  /\ timed \in [Waiters -> BOOLEAN]
  /\ pc \in [Waiters -> {"idle", "enlist", "loop", "check", "sleep", "expired",
                         "leave", "take", "store", "failed"}]
  /\ reg \in [Waiters -> 0..DoneMax]
  /\ credit \in 0..Unbounded

Init ==
  /\ x = InitCompletion
  /\ notified = {}
  /\ timed = [t \in Waiters |-> FALSE]
  /\ pc = [t \in Waiters |-> "idle"]
  /\ reg = [t \in Waiters |-> 0]
  /\ credit = 0

At(t, place) == pc[t] = place
Go(t, place) == pc' = [pc EXCEPT ![t] = place]

-----------------------------------------------------------------------------
(* The waiter.                                                             *)

\* The call, and the first look at done.
Enter(t) ==
  /\ At(t, "idle")
  /\ \E finite \in BOOLEAN : timed' = [timed EXCEPT ![t] = finite]
  /\ Go(t, IF x.done = 0 THEN "enlist" ELSE "take")
  /\ UNCHANGED <<x, notified, reg, credit>>

\* Fault: the test of done in the critical section the wrong way round.
AddWaiterInverted(t) ==
  /\ At(t, "enlist")
  /\ x' = IF x.done # 0 THEN Enlist(x, t) ELSE x
  /\ Go(t, "loop")
  /\ UNCHANGED <<notified, timed, reg, credit>>

\* Under the critical section, on the list unless a token came meanwhile.
AddWaiter(t) ==
  /\ At(t, "enlist")
  /\ x' = IF x.done = 0 THEN Enlist(x, t) ELSE x
  /\ Go(t, "loop")
  /\ UNCHANGED <<notified, timed, reg, credit>>

\* while (!x->done)
Loop(t) ==
  /\ At(t, "loop")
  /\ Go(t, IF x.done = 0 THEN "check" ELSE "leave")
  /\ UNCHANGED <<x, notified, timed, reg, credit>>

\* xTaskCheckForTimeOut
CheckTimeOut(t) ==
  /\ At(t, "check")
  /\ \/ Go(t, "sleep")
     \/ timed[t] /\ Go(t, "expired")
  /\ UNCHANGED <<x, notified, timed, reg, credit>>

\* Fault: `if` for `while`: one return of the wait is taken for a token.
WakeOnce(t) ==
  /\ At(t, "sleep")
  /\ t \in notified \/ timed[t]
  /\ notified' = notified \ {t}
  /\ Go(t, "leave")
  /\ UNCHANGED <<x, timed, reg, credit>>

\* xTaskNotifyWaitIndexed returns: notified, before it blocked or since, or
\* because its timeout ran out.
Wake(t) ==
  /\ At(t, "sleep")
  /\ t \in notified \/ timed[t]
  /\ notified' = notified \ {t}
  /\ Go(t, "loop")
  /\ UNCHANGED <<x, timed, reg, credit>>

\* Fault: the entry on the stack is left on the list when the wait times out.
ExpireLinked(t) ==
  /\ At(t, "expired")
  /\ Go(t, "idle")
  /\ UNCHANGED <<x, notified, timed, reg, credit>>

\* Off the list, return 0.
Expire(t) ==
  /\ At(t, "expired")
  /\ x' = Unlist(x, t)
  /\ Go(t, "idle")
  /\ UNCHANGED <<notified, timed, reg, credit>>

\* Off the list after a token was seen.
Leave(t) ==
  /\ At(t, "leave")
  /\ x' = Unlist(x, t)
  /\ Go(t, "take")
  /\ UNCHANGED <<notified, timed, reg, credit>>

\* The credit after a return of 1.
Used(n) == IF n \in 1..MaxCredit THEN n - 1 ELSE n

\* assert(x->done != 0), and the load of x->done--; a saturated count stays.
Take(t) ==
  /\ At(t, "take")
  /\ reg' = [reg EXCEPT ![t] = x.done]
  /\ Go(t, IF x.done = 0 THEN "failed"
           ELSE IF x.done = DoneMax THEN "idle" ELSE "store")
  /\ credit' = IF x.done = DoneMax THEN Used(credit) ELSE credit
  /\ UNCHANGED <<x, notified, timed>>

\* Fault: the token is seen and not taken.
StoreNothing(t) ==
  /\ At(t, "store")
  /\ Go(t, "idle")
  /\ credit' = Used(credit)
  /\ UNCHANGED <<x, notified, timed, reg>>

\* The store of x->done--, return 1.
Store(t) ==
  /\ At(t, "store")
  /\ x' = [x EXCEPT !.done = reg[t] - 1]
  /\ Go(t, "idle")
  /\ credit' = Used(credit)
  /\ UNCHANGED <<notified, timed, reg>>

-----------------------------------------------------------------------------
(* The other side, and the owner between two uses.                         *)

\* Fault: a token without a wakeup.
PostSilently ==
  /\ credit # MaxCredit
  /\ x' = [x EXCEPT !.done = Complete(x).done]
  /\ credit' = Credited
  /\ UNCHANGED <<notified, timed, pc, reg>>

\* complete
Post ==
  /\ credit # MaxCredit
  /\ x' = Complete(x)
  /\ notified' = notified \cup Woken(x)
  /\ credit' = Credited
  /\ UNCHANGED <<timed, pc, reg>>

\* complete_all
PostAll ==
  /\ x' = CompleteAll(x)
  /\ notified' = notified \cup WokenAll(x)
  /\ credit' = Unbounded
  /\ UNCHANGED <<timed, pc, reg>>

\* init_completion by the owner, while no task is in a wait.
Rearm ==
  /\ \A t \in Waiters : At(t, "idle")
  /\ x' = InitCompletion
  /\ credit' = 0
  /\ UNCHANGED <<notified, timed, pc, reg>>

-----------------------------------------------------------------------------

WaitStep(t) ==
  \/ AddWaiter(t) \/ Loop(t) \/ CheckTimeOut(t) \/ Wake(t)
  \/ Expire(t) \/ Leave(t) \/ Take(t) \/ Store(t)

Next ==
  \/ \E t \in Waiters : Enter(t) \/ WaitStep(t)
  \/ Post
  \/ PostAll
  \/ Rearm

Spec == Init /\ [][Next]_vars

\* A task that is not blocked goes on.
FairSpec == Spec /\ \A t \in Waiters : WF_vars(WaitStep(t))

-----------------------------------------------------------------------------
(* What waiters rely on.                                                   *)

Listed(t) == OnList(t, x.tasks)

\* The entry a wait puts on the list lives in its stack frame: once the wait
\* has returned, or has taken itself off to return, no list reaches it, for
\* complete would write through it (completion.c:34-57, 80-105).
NoDanglingWaiter ==
  \A t \in Waiters :
    Listed(t) => pc[t] \in {"loop", "check", "sleep", "expired", "leave"}

\* assert(x->done != 0) after the wait (completion.c:59).
AssertHolds == \A t \in Waiters : pc[t] # "failed"

\* No wakeup is missed: a task that goes to sleep, or sleeps, can still be
\* reached by the next complete, or has its notification already
\* (completion.c:34-52).
SleeperReachable ==
  \A t \in Waiters :
    pc[t] \in {"check", "sleep"} /\ t \notin notified => Listed(t) /\ x.done = 0

\* A wait that returns 1 answers a complete of its own: the tokens there are,
\* with the one a wait is about to give back, never outnumber the calls that
\* nobody has answered yet, so a late second return cannot report a transfer
\* that is still running (completion.c:59-63, 119-124).
NoSpuriousReturn ==
  credit # Unbounded =>
    /\ x.done < DoneMax => x.done <= credit
    /\ \A t \in Waiters : At(t, "store") => reg[t] <= credit

\* A task that waits while there is a token returns.
WaiterReturns ==
  \A t \in Waiters : pc[t] # "idle" /\ x.done > 0 ~> pc[t] = "idle"
=============================================================================
