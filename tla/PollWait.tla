------------------------------ MODULE PollWait ------------------------------
(***************************************************************************)
(* poll() of fs/vfs/fs_poll.c: tasks that query files, leave an entry on   *)
(* the wait queue of each one, and sleep until a driver calls wake_up.  A  *)
(* driver's poll method leaves the entry (poll_wait) before it reads the   *)
(* state it reports, and a driver changes that state before it calls       *)
(* wake_up; both go on in between.  Outside the call the locals of a task  *)
(* have their first values.                                                *)
(***************************************************************************)
EXTENDS FiniteSets, Naturals

CONSTANTS
  Pollers,      \* tasks that call poll
  Files,        \* open files
  Bad,          \* descriptors that are not open
  MaxTimeout,   \* bound on the finite timeouts, in ticks
  Inline,       \* CONFIG_INLINE_POLL_NFILE_DESCRIPTORS
  NULL

ASSUME PollAssumption ==
  /\ MaxTimeout \in Nat /\ Inline \in Nat
  /\ IsFiniteSet(Files) /\ Files \cap Bad = {} /\ NULL \notin Files \cup Bad

VARIABLES
  ready,       \* files that would report an event
  waking,      \* files whose driver is about to call wake_up
  entries,     \* the tasks with an entry on the wait queue of each file
  notified,    \* tasks whose POLL notification is pending
  pc,          \* where a task is in nx_poll
  fds, left,   \* the descriptors it polls, and those still to be queried
  cur,         \* the one whose state is to be read
  limit,       \* its timeout
  hooking,     \* _qproc # NULL
  failed,      \* __pollwait found no memory for an entry
  found,       \* fdcount # 0
  timedOut,    \* timed_out
  timer,       \* ticks left of the sleep
  elapsed,     \* history: ticks this call has slept, up to MaxTimeout + 1
  errno        \* after the call

task == <<pc, fds, left, cur, limit, hooking, failed, found, timedOut>>
vars == <<ready, waking, entries, notified, task, timer, elapsed, errno>>

Forever == MaxTimeout + 1       \* portMAX_DELAY
Descriptors == Files \cup Bad

TypeOK ==
  /\ ready \subseteq Files /\ waking \subseteq Files
  /\ entries \in [Files -> SUBSET Pollers]
  /\ notified \subseteq Pollers
  /\ pc \in [Pollers -> {"idle", "query", "hook", "mask", "decide", "sleep", "leave"}]
  /\ fds \in [Pollers -> SUBSET Descriptors] /\ left \in [Pollers -> SUBSET Descriptors]
  /\ cur \in [Pollers -> Descriptors \cup {NULL}]
  /\ limit \in [Pollers -> 0..Forever] /\ timer \in [Pollers -> 0..Forever]
  /\ hooking \in [Pollers -> BOOLEAN] /\ failed \in [Pollers -> BOOLEAN]
  /\ found \in [Pollers -> BOOLEAN] /\ timedOut \in [Pollers -> BOOLEAN]
  /\ elapsed \in [Pollers -> 0..Forever]
  /\ errno \in [Pollers -> {"none", "EBADF", "EPERM"}]

Init ==
  /\ ready = {} /\ waking = {}
  /\ entries = [f \in Files |-> {}]
  /\ notified = {}
  /\ pc = [p \in Pollers |-> "idle"]
  /\ fds = [p \in Pollers |-> {}] /\ left = [p \in Pollers |-> {}]
  /\ cur = [p \in Pollers |-> NULL]
  /\ limit = [p \in Pollers |-> 0] /\ timer = [p \in Pollers |-> 0]
  /\ hooking = [p \in Pollers |-> FALSE] /\ failed = [p \in Pollers |-> FALSE]
  /\ found = [p \in Pollers |-> FALSE] /\ timedOut = [p \in Pollers |-> FALSE]
  /\ elapsed = [p \in Pollers |-> 0]
  /\ errno = [p \in Pollers |-> "none"]

At(p, place) == pc[p] = place
Go(p, place) == pc' = [pc EXCEPT ![p] = place]

-----------------------------------------------------------------------------
(* The polling task.                                                       *)

\* poll, up to the first query.
Poll(p) ==
  /\ At(p, "idle")
  /\ \E F \in SUBSET Descriptors \ {{}}, n \in 0..Forever :
       /\ fds' = [fds EXCEPT ![p] = F] /\ left' = [left EXCEPT ![p] = F]
       /\ limit' = [limit EXCEPT ![p] = n]
  /\ hooking' = [hooking EXCEPT ![p] = TRUE]
  /\ errno' = [errno EXCEPT ![p] = "none"]
  /\ Go(p, "query")
  /\ UNCHANGED <<ready, waking, entries, notified, cur, failed, found, timedOut,
                 timer, elapsed>>

\* query_fd of the next descriptor; one that is not open ends the call.
Query(p, f) ==
  /\ At(p, "query") /\ f \in left[p]
  /\ IF f \in Bad
     THEN Go(p, "leave") /\ errno' = [errno EXCEPT ![p] = "EBADF"] /\ UNCHANGED cur
     ELSE /\ Go(p, IF hooking[p] THEN "hook" ELSE "mask")
          /\ cur' = [cur EXCEPT ![p] = f]
          /\ UNCHANGED errno
  /\ UNCHANGED <<ready, waking, entries, notified, fds, left, limit, hooking,
                 failed, found, timedOut, timer, elapsed>>

Held(p) == {f \in Files : p \in entries[f]}

\* __pollwait, which says nothing when it finds no memory for an entry beyond
\* those the call keeps on its stack.
Hook(p) ==
  /\ At(p, "hook")
  /\ \/ entries' = [entries EXCEPT ![cur[p]] = @ \cup {p}] /\ UNCHANGED failed
     \/ /\ Cardinality(Held(p)) >= Inline
        /\ failed' = [failed EXCEPT ![p] = TRUE] /\ UNCHANGED entries
  /\ Go(p, "mask")
  /\ UNCHANGED <<ready, waking, notified, fds, left, cur, limit, hooking, found,
                 timedOut, timer, elapsed, errno>>

\* The mask the driver returns; after a first event no entry is left any more.
Mask(p) ==
  /\ At(p, "mask")
  /\ LET event == cur[p] \in ready  rest == left[p] \ {cur[p]} IN
       /\ found' = [found EXCEPT ![p] = @ \/ event]
       /\ hooking' = [hooking EXCEPT ![p] = @ /\ ~event]
       /\ left' = [left EXCEPT ![p] = rest]
       /\ Go(p, IF rest = {} THEN "decide" ELSE "query")
  /\ cur' = [cur EXCEPT ![p] = NULL]
  /\ UNCHANGED <<ready, waking, entries, notified, fds, limit, failed, timedOut,
                 timer, elapsed, errno>>

\* Fault: what was notified before the sleep is cleared.
DecideForgetful(p) ==
  /\ At(p, "decide")
  /\ hooking' = [hooking EXCEPT ![p] = FALSE]
  /\ IF found[p] \/ timedOut[p] \/ limit[p] = 0
     THEN Go(p, "leave") /\ UNCHANGED <<timer, notified>>
     ELSE /\ Go(p, "sleep") /\ timer' = [timer EXCEPT ![p] = limit[p]]
          /\ notified' = notified \ {p}
  /\ UNCHANGED <<ready, waking, entries, fds, left, cur, limit, failed,
                 found, timedOut, elapsed, errno>>

\* Return, or sleep for the whole timeout.
Decide(p) ==
  /\ At(p, "decide")
  /\ hooking' = [hooking EXCEPT ![p] = FALSE]
  /\ IF found[p] \/ timedOut[p] \/ limit[p] = 0
     THEN Go(p, "leave") /\ UNCHANGED timer
     ELSE Go(p, "sleep") /\ timer' = [timer EXCEPT ![p] = limit[p]]
  /\ UNCHANGED <<ready, waking, entries, notified, fds, left, cur, limit, failed,
                 found, timedOut, elapsed, errno>>

\* Fault: the expiry of the sleep is taken for a notification.
WakeUntimed(p) ==
  /\ At(p, "sleep")
  /\ p \in notified \/ timer[p] = 0
  /\ notified' = notified \ {p}
  /\ left' = [left EXCEPT ![p] = fds[p]]
  /\ timer' = [timer EXCEPT ![p] = 0]
  /\ Go(p, "query")
  /\ UNCHANGED <<ready, waking, entries, fds, cur, limit, hooking, failed, found,
                 timedOut, elapsed, errno>>

\* ulTaskNotifyTakeIndexed returns, and everything is queried once more.
Wake(p) ==
  /\ At(p, "sleep")
  /\ p \in notified \/ timer[p] = 0
  /\ notified' = notified \ {p}
  /\ timedOut' = [timedOut EXCEPT ![p] = p \notin notified]
  /\ left' = [left EXCEPT ![p] = fds[p]]
  /\ timer' = [timer EXCEPT ![p] = 0]
  /\ Go(p, "query")
  /\ UNCHANGED <<ready, waking, entries, fds, cur, limit, hooking, failed, found,
                 elapsed, errno>>

\* The locals go with the frame.
Return(p) ==
  /\ Go(p, "idle")
  /\ fds' = [fds EXCEPT ![p] = {}] /\ left' = [left EXCEPT ![p] = {}]
  /\ cur' = [cur EXCEPT ![p] = NULL] /\ limit' = [limit EXCEPT ![p] = 0]
  /\ hooking' = [hooking EXCEPT ![p] = FALSE] /\ failed' = [failed EXCEPT ![p] = FALSE]
  /\ found' = [found EXCEPT ![p] = FALSE] /\ timedOut' = [timedOut EXCEPT ![p] = FALSE]
  /\ elapsed' = [elapsed EXCEPT ![p] = 0]

\* Fault: the entries on files that have an event are left where they are.
LeaveReady(p) ==
  /\ At(p, "leave")
  /\ entries' = [f \in Files |-> IF f \in ready THEN entries[f] ELSE entries[f] \ {p}]
  /\ errno' = [errno EXCEPT ![p] = IF @ = "none" THEN @ ELSE "EPERM"]
  /\ Return(p)
  /\ UNCHANGED <<ready, waking, notified, timer>>

\* destroy_poll_wait, and the return from poll: its set_errno(-ret) makes 1 of
\* the errno that poll_query has set.
Leave(p) ==
  /\ At(p, "leave")
  /\ entries' = [f \in Files |-> entries[f] \ {p}]
  /\ errno' = [errno EXCEPT ![p] = IF @ = "none" THEN @ ELSE "EPERM"]
  /\ Return(p)
  /\ UNCHANGED <<ready, waking, notified, timer>>

-----------------------------------------------------------------------------
(* The drivers and the clock.                                              *)

\* Something arrives at a file,
Arrive(f) ==
  /\ ready' = ready \cup {f}
  /\ waking' = waking \cup {f}
  /\ UNCHANGED <<entries, notified, task, timer, elapsed, errno>>

\* Fault: one task is woken, not all of them.
WakeUpOne(f) ==
  /\ f \in waking
  /\ waking' = waking \ {f}
  /\ \/ entries[f] = {} /\ UNCHANGED notified
     \/ \E p \in entries[f] : notified' = notified \cup {p}
  /\ UNCHANGED <<ready, entries, task, timer, elapsed, errno>>

\* and its driver calls wake_up.
WakeUp(f) ==
  /\ f \in waking
  /\ waking' = waking \ {f}
  /\ notified' = notified \cup entries[f]
  /\ UNCHANGED <<ready, entries, task, timer, elapsed, errno>>

\* A reader takes what was there.
Consume(f) ==
  /\ f \in ready
  /\ ready' = ready \ {f}
  /\ UNCHANGED <<waking, entries, notified, task, timer, elapsed, errno>>

Sleeping(p) == At(p, "sleep") /\ timer[p] # 0

\* Fault: the delay of a task that was notified in time is not taken back.
TickOnAndOn ==
  /\ \E p \in Pollers : Sleeping(p)
  /\ timer' = [p \in Pollers |-> IF timer[p] # Forever THEN timer[p] - 1 ELSE timer[p]]
  /\ UNCHANGED <<ready, waking, entries, notified, task, elapsed, errno>>

Tick ==
  /\ \E p \in Pollers : Sleeping(p)
  /\ timer' = [p \in Pollers |-> IF Sleeping(p) /\ timer[p] # Forever
                                 THEN timer[p] - 1 ELSE timer[p]]
  /\ elapsed' = [p \in Pollers |-> IF Sleeping(p) /\ elapsed[p] # Forever
                                   THEN elapsed[p] + 1 ELSE elapsed[p]]
  /\ UNCHANGED <<ready, waking, entries, notified, task, errno>>

-----------------------------------------------------------------------------

PollStep(p) ==
  \/ \E f \in Descriptors : Query(p, f)
  \/ Hook(p) \/ Mask(p) \/ Decide(p) \/ Wake(p) \/ Leave(p)

Next ==
  \/ \E p \in Pollers : Poll(p) \/ PollStep(p)
  \/ \E f \in Files : Arrive(f) \/ WakeUp(f) \/ Consume(f)
  \/ Tick

Spec == Init /\ [][Next]_vars

\* Tasks that are not blocked go on, drivers finish what they began, and the
\* tick interrupt keeps coming.
FairSpec ==
  /\ Spec
  /\ \A p \in Pollers : WF_vars(PollStep(p))
  /\ \A f \in Files : WF_vars(WakeUp(f))
  /\ WF_vars(Tick)

-----------------------------------------------------------------------------
(* What poll promises.                                                     *)

\* A task never sleeps on with an event at one of its files: it is notified,
\* or the driver is about to; unless it found no memory for its entry
\* (fs_poll.c:91-111, 121-156, 213-237, 268-278).
NoLostEvent ==
  \A p \in Pollers :
    At(p, "sleep") /\ p \notin notified /\ ~failed[p] => fds[p] \cap (ready \ waking) = {}

\* The entries, on the stack of the call or allocated by it, are on the wait
\* queues only during the call, and only of files it polls
\* (fs_poll.c:172-194, 280).
NoDanglingEntry ==
  \A f \in Files : \A p \in entries[f] : pc[p] # "idle" /\ f \in fds[p]

\* An event that stays ends the call of every task that polls the file.
EventEndsPoll ==
  \A p \in Pollers, f \in Files :
    f \in fds[p] /\ pc[p] # "idle" /\ ~failed[p] ~>
      pc[p] = "idle" \/ f \notin ready \/ failed[p]

\* A finite timeout ends the call, if wakeups without an event end.
TimeoutEndsPoll ==
  \A p \in Pollers :
    (pc[p] # "idle" /\ limit[p] # Forever ~> pc[p] = "idle")
      \/ \E f \in Files : []<><<WakeUp(f)>>_vars

\* Both: poll() comes to an end (fs_poll.c:134-285).
PollEnds == EventEndsPoll /\ TimeoutEndsPoll

\* "timeout - Specifies an upper limit on the time for which poll() will block
\* in milliseconds" (fs_poll.c:297-298).
BlocksAtMostTimeout == \A p \in Pollers : limit[p] # Forever => elapsed[p] <= limit[p]
=============================================================================
