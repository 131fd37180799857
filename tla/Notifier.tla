------------------------------ MODULE Notifier ------------------------------
(***************************************************************************)
(* Work notifiers, third_party/nuttx/sched/wqueue/kwork_notifier.c: a      *)
(* client sets up a callback for an event and may tear it down; the        *)
(* signal, from an interrupt or a task, queues the callback as a work of   *)
(* the high-priority queue.  An entry moves between the free list, its     *)
(* client, the pending list and the work queue, and is never given back to *)
(* the heap.  The lists are sets: the order in which free entries are      *)
(* tried and queued works run is left open.  A key is new among those in   *)
(* use; that 32 bits wrap within the life of one is left out.              *)
(***************************************************************************)
EXTENDS Naturals

CONSTANTS
  Entries,    \* what malloc can return
  Clients,    \* who sets up and tears down
  Events,     \* event types with their qualifiers
  Keys,       \* keys of notifiers set up
  NULL

VARIABLES
  heap,        \* entries malloc has returned
  free,        \* g_notifier_free
  pending,     \* g_notifier_pending
  info,        \* key, event and client of each entry; NULL when nothing will read them:
               \* before the first setup, and once a one-shot entry is free again
  claimed,     \* the entry a client holds inside work_notifier_setup
  queued,      \* entries whose work is on the work queue
  running,     \* the entry whose work the worker thread runs, or NULL
  oneshot,     \* info.oneshot, the same for all: every user in the sources sets it
  calls        \* history: callbacks begun since the entry was set up, up to 2

lists == <<heap, free, pending, info, claimed>>
work == <<queued, running, calls>>
vars == <<lists, work, oneshot>>

Info == [key : Keys, event : Events, client : Clients]

TypeOK ==
  /\ heap \subseteq Entries /\ free \subseteq heap /\ pending \subseteq heap
  /\ info \in [Entries -> Info \cup {NULL}]
  /\ \A e \in pending : info[e] # NULL
  /\ claimed \in [Clients -> heap \cup {NULL}]
  /\ queued \subseteq heap /\ running \in heap \cup {NULL}
  /\ oneshot \in BOOLEAN
  /\ calls \in [Entries -> 0..2]

Init ==
  /\ heap = {} /\ free = {} /\ pending = {}
  /\ info = [e \in Entries |-> NULL]
  /\ claimed = [c \in Clients |-> NULL]
  /\ queued = {} /\ running = NULL
  /\ oneshot \in BOOLEAN
  /\ calls = [e \in Entries |-> 0]

-----------------------------------------------------------------------------
(* work_notifier_setup: an entry is taken off the free list, or allocated, *)
(* filled in outside any critical section, and linked.                     *)

\* Entries on the free list whose work is available.
Usable == free \ queued

\* Fault: a free entry is taken even while its work is queued.
ClaimAnyFree(c, e) ==
  /\ claimed[c] = NULL
  /\ \/ e \in free /\ free' = free \ {e} /\ UNCHANGED heap
     \/ free = {} /\ e \notin heap /\ heap' = heap \cup {e} /\ UNCHANGED free
  /\ claimed' = [claimed EXCEPT ![c] = e]
  /\ UNCHANGED <<pending, info, work, oneshot>>

Claim(c, e) ==
  /\ claimed[c] = NULL
  /\ \/ e \in Usable /\ free' = free \ {e} /\ UNCHANGED heap
     \/ Usable = {} /\ e \notin heap /\ heap' = heap \cup {e} /\ UNCHANGED free
  /\ claimed' = [claimed EXCEPT ![c] = e]
  /\ UNCHANGED <<pending, info, work, oneshot>>

InUse(k) == \E e \in pending : info[e].key = k

Publish(c, k, ev) ==
  /\ claimed[c] # NULL /\ ~InUse(k)
  /\ info' = [info EXCEPT ![claimed[c]] = [key |-> k, event |-> ev, client |-> c]]
  /\ pending' = pending \cup {claimed[c]}
  /\ calls' = [calls EXCEPT ![claimed[c]] = 0]
  /\ claimed' = [claimed EXCEPT ![c] = NULL]
  /\ UNCHANGED <<heap, free, queued, running, oneshot>>

\* work_notifier_find
Find(k) == {e \in pending : info[e].key = k}

\* work_notifier_teardown; it returns OK iff Find(k) is not empty.
Teardown(k) ==
  /\ pending' = pending \ Find(k)
  /\ free' = free \cup Find(k)
  /\ info' = [e \in Entries |-> IF e \in Find(k) /\ oneshot THEN NULL ELSE info[e]]
  /\ UNCHANGED <<heap, claimed, work, oneshot>>

Matching(ev) == {e \in pending : info[e].event = ev}

\* Fault: a one-shot notifier stays pending when it is signalled.
SignalKeepsPending(ev) ==
  /\ queued' = queued \cup Matching(ev)
  /\ UNCHANGED <<lists, running, calls, oneshot>>

\* work_notifier_signal2
Signal(ev) ==
  /\ pending' = IF oneshot THEN pending \ Matching(ev) ELSE pending
  /\ queued' = queued \cup Matching(ev)
  /\ UNCHANGED <<heap, free, info, claimed, running, calls, oneshot>>

-----------------------------------------------------------------------------
(* work_notifier_worker on the thread of the high-priority queue.          *)

Call(e) ==
  /\ running = NULL /\ e \in queued
  /\ queued' = queued \ {e}
  /\ running' = e
  /\ calls' = [calls EXCEPT ![e] = IF @ = 0 THEN 1 ELSE 2]
  /\ UNCHANGED <<lists, oneshot>>

\* Fault: every entry is freed after its callback, one-shot or not.
FinishFrees ==
  /\ running # NULL
  /\ free' = free \cup {running}
  /\ running' = NULL
  /\ UNCHANGED <<heap, pending, info, claimed, queued, calls, oneshot>>

\* The callback has returned; a one-shot notifier is done.
Finish ==
  /\ running # NULL
  /\ free' = IF oneshot THEN free \cup {running} ELSE free
  /\ info' = IF oneshot THEN [info EXCEPT ![running] = NULL] ELSE info
  /\ running' = NULL
  /\ UNCHANGED <<heap, pending, claimed, queued, calls, oneshot>>

-----------------------------------------------------------------------------

Next ==
  \/ \E c \in Clients :
       \/ \E e \in Entries : Claim(c, e)
       \/ \E k \in Keys, ev \in Events : Publish(c, k, ev)
  \/ \E k \in Keys : Teardown(k)
  \/ \E ev \in Events : Signal(ev)
  \/ \E e \in Entries : Call(e)
  \/ Finish

Spec == Init /\ [][Next]_vars

-----------------------------------------------------------------------------
(* What the lists are asked.                                               *)

Held(e) == \E c \in Clients : claimed[c] = e
Firing(e) == oneshot /\ (e \in queued \/ running = e)

\* Every entry that was allocated is in exactly one hand: free, held by one
\* setup, pending, or (one-shot) on its way through the work queue; so none is
\* lost, none is linked twice, and none that was torn down can still fire
\* (kwork_notifier.c:188, 234-245, 283, 343, 425).
OneHand ==
  /\ \A e \in heap :
       /\ e \in free \/ e \in pending \/ Held(e) \/ Firing(e)
       /\ e \in free => e \notin pending /\ ~Held(e) /\ ~Firing(e)
       /\ e \in pending => ~Held(e) /\ ~Firing(e)
       /\ Held(e) => ~Firing(e)
  /\ \A b, c \in Clients : claimed[b] = claimed[c] /\ claimed[b] # NULL => b = c

\* A one-shot notifier calls back once at most, however often its event is
\* signalled, and one that is pending has not yet (kwork_notifier.c:423-427).
CalledOnce ==
  oneshot => \A e \in heap : calls[e] <= 1 /\ (e \in pending => calls[e] = 0)

\* No setup fills in an entry whose work is on the queue: the memset would
\* wipe the links of the queue (kwork_notifier.c:239, 263).
QueueNotWiped == \A e \in queued : ~Held(e)
=============================================================================
