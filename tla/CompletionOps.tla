---------------------------- MODULE CompletionOps ----------------------------
(***************************************************************************)
(* The value of a struct completion and what the functions of              *)
(* sched/completion.c do to it inside their critical sections.  The token  *)
(* counter done has the width of an unsigned int: DoneMax stands for       *)
(* UINT_MAX.  Waking a task is giving its COMPLETION notification, so the  *)
(* operators that wake return the set of tasks notified beside the value.  *)
(***************************************************************************)
EXTENDS Naturals, Lists, SequencesExt

CONSTANT DoneMax    \* UINT_MAX, the saturated count complete_all stores

ASSUME DoneMaxAssumption == DoneMax \in Nat \ {0}

\* The completions whose waiters are drawn from Tasks.
Completion(Tasks) == [done : 0..DoneMax, tasks : Seq(Tasks)]

\* init_completion: no token, and the list of waiters made empty.
InitCompletion == [done |-> 0, tasks |-> <<>>]

\* Fault: the count goes on past UINT_MAX.
CompleteUnsaturated(x) ==
  [done  |-> x.done + 1,
   tasks |-> IF x.tasks = <<>> THEN <<>> ELSE Tail(x.tasks)]

\* complete: one token more unless saturated, the first waiter taken off.
Complete(x) ==
  [done  |-> IF x.done # DoneMax THEN x.done + 1 ELSE x.done,
   tasks |-> IF x.tasks = <<>> THEN <<>> ELSE Tail(x.tasks)]

\* swake_up_locked: the task complete(x) notifies, if one is waiting.
Woken(x) == IF x.tasks = <<>> THEN {} ELSE {Head(x.tasks)}

\* complete_all: saturated for good, every waiter taken off and notified.
CompleteAll(x) == [done |-> DoneMax, tasks |-> <<>>]
WokenAll(x) == ToSet(x.tasks)

\* list_add_tail and list_del_init on the waiter's own entry.
Enlist(x, t) == [x EXCEPT !.tasks = Append(@, t)]
Unlist(x, t) == [x EXCEPT !.tasks = Without(@, t)]
=============================================================================
