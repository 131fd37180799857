------------------------------ MODULE WorkQueue ------------------------------
(***************************************************************************)
(* One kernel work queue (kwork_wqueue_s: hpwork, lpwork, or a queue made  *)
(* by alloc_workqueue) with its single worker thread: the callers of       *)
(* work_queue and work_cancel (tasks, interrupt handlers, and callbacks    *)
(* that run on the worker thread itself), the scan of work_process, and    *)
(* the wait on the queue's bit of g_work_event, which tasks set themselves *)
(* and interrupt handlers through the command queue of the timer daemon.   *)
(*                                                                         *)
(* A callback and its argument are one Job.  The clock is kept as the time *)
(* each entry still has to wait: due = max(0, delay - (now - qtime)).      *)
(***************************************************************************)
EXTENDS CompletionOps, Integers

CONSTANTS
  Works,      \* the work_s structures queued here, each always with one qid
  Jobs,       \* callback and argument pairs
  Callers,    \* contexts that call work_queue, the worker thread included
  Isrs,       \* those of them that are interrupt handlers
  Wt,         \* the worker thread
  Tasks,      \* tasks that may wait on a completion
  MaxDelay,   \* bound on the delays used
  TimerQueueLength,  \* configTIMER_QUEUE_LENGTH
  NULL

ASSUME WorkQueueAssumption ==
  /\ Wt \in Callers /\ Isrs \subseteq Callers \ {Wt}
  /\ MaxDelay \in Nat /\ TimerQueueLength \in Nat
  /\ NULL \notin Jobs /\ NULL \notin Works

VARIABLES
  q,         \* wqueue->q
  worker,    \* work->worker and work->arg; NULL when not queued
  due,       \* ticks left before the entry is ready
  doing,     \* work->doing
  comp,      \* work->done
  wcomp,     \* wqueue->worker[0].completion
  notified,  \* tasks whose COMPLETION notification is pending
  event,     \* the queue's bit of g_work_event
  posting,   \* callers between work_qqueue and xEventGroupSetBits
  pended,    \* calls that set the bit, in the queue of the timer daemon
  wake,      \* history: the wakeup each work queued since the scan waits for
  pc,        \* where the worker thread is in work_process
  cur,       \* the local `work` while a callback runs
  job,       \* the locals `worker` and `arg`
  next,      \* the local `next`, then the timeout left of the wait
  passAge,   \* ctick - stick: ticks since the pass began
  slip       \* ticks between the end of the scan and the wait

threadVars == <<pc, cur, job, next, passAge, slip>>
bitVars == <<event, posting, pended>>
vars == <<q, worker, due, doing, comp, wcomp, notified, bitVars, wake,
          threadVars>>

Forever == MaxDelay + 1                          \* WORK_DELAY_MAX
Saturate(n) == IF n < MaxDelay THEN n ELSE MaxDelay

TypeOK ==
  /\ q \in Seq(Works)
  /\ worker \in [Works -> Jobs \cup {NULL}]
  /\ due \in [Works -> 0..MaxDelay]
  /\ doing \in [Works -> BOOLEAN]
  /\ comp \in [Works -> Completion(Tasks)]
  /\ wcomp \in Completion(Tasks)
  /\ notified \subseteq Tasks
  /\ event \in BOOLEAN
  /\ posting \subseteq Callers
  /\ pended \in 0..TimerQueueLength
  /\ wake \in [Works -> {"none", "due", "refused"}]
  /\ pc \in {"start", "run", "post", "block", "wait"}
  /\ cur \in Works \cup {NULL}
  /\ job \in Jobs \cup {NULL}
  /\ next \in 0..Forever
  /\ passAge \in 0..MaxDelay
  /\ slip \in 0..MaxDelay

Init ==
  /\ q = <<>>
  /\ worker = [w \in Works |-> NULL]
  /\ due = [w \in Works |-> 0]
  /\ doing = [w \in Works |-> FALSE]
  /\ comp = [w \in Works |-> InitCompletion]
  /\ wcomp = InitCompletion
  /\ notified = {}
  /\ event = FALSE
  /\ posting = {} /\ pended = 0
  /\ wake = [w \in Works |-> "none"]
  /\ pc = "start" /\ cur = NULL /\ job = NULL
  /\ next = Forever /\ passAge = 0 /\ slip = 0

-----------------------------------------------------------------------------
(* The list operations.  dq_rem of a node that is on no list finds both    *)
(* its links NULL and so empties the queue it is given.                    *)

DqRem(s, w) == IF OnList(w, s) THEN Without(s, w) ELSE <<>>

DqAddLast(s, w) == Append(s, w)

\* work_available
Available(w) == worker[w] = NULL

\* Fault: a work being done taken for one that is on the list.
PendingOrDoing(w) == worker[w] # NULL \/ doing[w]

\* Pending, and so on the list: what work_qqueue and work_qcancel test.
Pending(w) == worker[w] # NULL /\ ~doing[w]

\* Fault: the mark of a running callback outlives a requeue.
KeepDoing(w) == doing

\* The marks once w is queued again, or its callback has returned.
NotDoing(w) == [doing EXCEPT ![w] = FALSE]

-----------------------------------------------------------------------------
(* Callers.                                                                *)

\* work->worker[0].busy, cleared at the end of the scan and set after the wait.
Busy == pc \in {"start", "run"}

\* A caller acts when it is not inside another call; the worker thread only
\* from a callback.
MayCall(c) == c \notin posting /\ (c = Wt => pc = "run")

\* Can the thread-local WORK pointer seen by c be w?  It is set on the worker
\* thread around the callback, and an interrupt sees that of whatever task it
\* interrupted.
SeesOwnWork(c) ==
  CASE c = Wt     -> {cur}
    [] c \in Isrs -> IF pc = "run" THEN {cur, NULL} ELSE {NULL}
    [] OTHER      -> {NULL}

\* work_qqueue, the critical section of work_queue.  The event bit is set
\* afterwards, with interrupts enabled again.
QQueue(c, w, j, d) ==
  /\ MayCall(c)
  /\ q' = DqAddLast(IF Pending(w) THEN DqRem(q, w) ELSE q, w)
  /\ \E own \in SeesOwnWork(c) :
       notified' = IF own = w THEN notified \cup Woken(comp[w]) ELSE notified
  /\ comp' = [comp EXCEPT ![w] = InitCompletion]
  /\ worker' = [worker EXCEPT ![w] = j]
  /\ due' = [due EXCEPT ![w] = d]
  /\ doing' = NotDoing(w)
  /\ posting' = posting \cup {c}
  /\ wake' = [wake EXCEPT ![w] = IF Busy THEN "none" ELSE "due"]
  /\ UNCHANGED <<wcomp, event, pended, threadVars>>

\* The rest of work_queue in a task: xEventGroupSetBits.
SetBits(c) ==
  /\ c \in posting \ Isrs
  /\ posting' = posting \ {c}
  /\ event' = TRUE
  /\ UNCHANGED <<q, worker, due, doing, comp, wcomp, notified, pended, wake,
                 threadVars>>

\* In an interrupt handler xEventGroupSetBitsFromISR hands the call to the
\* timer daemon, if its queue has room.
SetBitsFromISR(c) ==
  /\ c \in posting \cap Isrs
  /\ pended < TimerQueueLength
  /\ posting' = posting \ {c}
  /\ pended' = pended + 1
  /\ UNCHANGED <<q, worker, due, doing, comp, wcomp, notified, event, wake,
                 threadVars>>

\* The queue of the daemon has no room, whatever its other users have put
\* there: pdFAIL, which work_queue returns OK upon.
SetBitsRefused(c) ==
  /\ c \in posting \cap Isrs
  /\ posting' = posting \ {c}
  /\ wake' = [w \in Works |-> IF wake[w] = "due" THEN "refused" ELSE wake[w]]
  /\ UNCHANGED <<q, worker, due, doing, comp, wcomp, notified, event, pended,
                 threadVars>>

\* Fault: the event reaches only a thread that already waits.
DaemonSetsUnlatched ==
  /\ pended > 0
  /\ pended' = pended - 1
  /\ event' = (pc = "wait")
  /\ UNCHANGED <<q, worker, due, doing, comp, wcomp, notified, posting, wake,
                 threadVars>>

\* The timer daemon calls vEventGroupSetBitsCallback.
DaemonSets ==
  /\ pended > 0
  /\ pended' = pended - 1
  /\ event' = TRUE
  /\ UNCHANGED <<q, worker, due, doing, comp, wcomp, notified, posting, wake,
                 threadVars>>

\* work_cancel when it returns OK; otherwise it changes nothing (-ENOENT).
QCancel(c, w) ==
  /\ MayCall(c)
  /\ Pending(w)
  /\ q' = DqRem(q, w)
  /\ worker' = [worker EXCEPT ![w] = NULL]
  /\ due' = [due EXCEPT ![w] = 0]
  /\ UNCHANGED <<doing, comp, wcomp, notified, bitVars, wake, threadVars>>

-----------------------------------------------------------------------------
(* The worker thread.                                                      *)

\* Fault: the head is run without looking at its delay.
FirstQueued == {1} \cap DOMAIN q

\* Positions of the first ready entry: every earlier one has time left.
FirstReady ==
  {i \in DOMAIN q : due[q[i]] = 0 /\ \A k \in 1..(i - 1) : due[q[k]] > 0}

\* Fault: no floor when the delay expired while the pass was running.
RemainingUnclamped(w) == due[w] - passAge

\* The scan takes the age of the whole pass off what is left to an entry.
Remaining(w) == IF due[w] > passAge THEN due[w] - passAge ELSE 0

\* Fault: the comparison of remaining and next the wrong way round.
NextAfterLatest(S) ==
  LET left == {next} \cup {Remaining(w) : w \in S}
  IN  {n \in left : \A m \in left : n >= m}

\* `next` after the scan has gone past the entries of S: the least of them.
NextAfter(S) ==
  LET left == {next} \cup {Remaining(w) : w \in S}
  IN  {n \in left : \A m \in left : n <= m}

\* The scan finds a ready entry: off the list, no longer queued, being done.
PickWork(flags) ==
  \E i \in FirstReady :
    LET w == q[i] IN
    /\ next' \in NextAfter({q[k] : k \in 1..(i - 1)})
    /\ q' = DqRem(q, w)
    /\ cur' = w /\ job' = worker[w]
    /\ worker' = [worker EXCEPT ![w] = NULL]
    /\ doing' = [flags EXCEPT ![w] = TRUE]
    /\ pc' = "run"
    /\ UNCHANGED <<due, passAge, slip>>

\* The scan reaches the end of the list.
EndPass(flags) ==
  /\ FirstReady = {}
  /\ next' \in NextAfter(ToSet(q))
  /\ doing' = flags
  /\ cur' = NULL /\ job' = NULL
  /\ pc' = "post" /\ passAge' = 0 /\ slip' = 0
  /\ UNCHANGED <<q, worker, due>>

Scan(flags) == PickWork(flags) \/ EndPass(flags)

\* work_process from its start to the first callback or to the end.
StartPass ==
  /\ pc = "start"
  /\ Scan(doing)
  /\ UNCHANGED <<comp, wcomp, notified, bitVars, wake>>

\* The callback returns: unless it was queued again meanwhile its completion
\* is signalled, and the scan restarts at the head in the same critical section.
WorkDone ==
  /\ pc = "run"
  /\ Wt \notin posting
  /\ IF doing[cur]
     THEN /\ comp' = [comp EXCEPT ![cur] = Complete(@)]
          /\ notified' = notified \cup Woken(comp[cur])
     ELSE UNCHANGED <<comp, notified>>
  /\ Scan(NotDoing(cur))
  /\ UNCHANGED <<wcomp, bitVars, wake>>

\* complete(&worker->completion), outside the critical section.
PassComplete ==
  /\ pc = "post"
  /\ wcomp' = Complete(wcomp)
  /\ notified' = notified \cup Woken(wcomp)
  /\ pc' = "block"
  /\ UNCHANGED <<q, worker, due, doing, comp, bitVars, wake, cur, job, next,
                 passAge, slip>>

\* xEventGroupWaitBits finds nothing and blocks.
Block ==
  /\ pc = "block"
  /\ ~event /\ next > 0
  /\ pc' = "wait"
  /\ UNCHANGED <<q, worker, due, doing, comp, wcomp, notified, bitVars, wake,
                 cur, job, next, passAge, slip>>

\* xEventGroupWaitBits returns, at once or after blocking: the bit is set
\* (and cleared on exit) or the timeout has expired.
WaitReturns ==
  /\ pc \in {"block", "wait"}
  /\ event \/ next = 0
  /\ event' = FALSE
  /\ pc' = "start" /\ next' = Forever /\ slip' = 0
  /\ wake' = [w \in Works |-> "none"]
  /\ UNCHANGED <<q, worker, due, doing, comp, wcomp, notified, posting, pended,
                 cur, job, passAge>>

\* The tick interrupt.  It cannot fall inside a scan, which is one step.
Tick ==
  /\ due' = [w \in Works |-> IF due[w] > 0 THEN due[w] - 1 ELSE 0]
  /\ next' = IF pc = "wait" /\ next \in 1..MaxDelay THEN next - 1 ELSE next
  /\ passAge' = IF pc = "run" THEN Saturate(passAge + 1) ELSE passAge
  /\ slip' = IF pc \in {"post", "block"} THEN Saturate(slip + 1) ELSE slip
  /\ UNCHANGED <<q, worker, doing, comp, wcomp, notified, bitVars, wake, pc,
                 cur, job>>

-----------------------------------------------------------------------------

Thread == StartPass \/ PassComplete \/ Block \/ WaitReturns

WorkQueueCall(w) == \E c \in Callers, j \in Jobs, d \in 0..MaxDelay : QQueue(c, w, j, d)

Next ==
  \/ \E w \in Works : WorkQueueCall(w)
  \/ \E c \in Callers : SetBits(c) \/ SetBitsFromISR(c) \/ SetBitsRefused(c)
  \/ DaemonSets
  \/ \E c \in Callers, w \in Works : QCancel(c, w)
  \/ StartPass
  \/ WorkDone
  \/ PassComplete
  \/ Block
  \/ WaitReturns
  \/ Tick

Spec == Init /\ [][Next]_vars

\* The worker thread and the timer daemon have the processor again and again,
\* a caller inside work_queue goes on, ticks keep coming, and a callback
\* returns (strongly fair: it is not enabled while the callback itself is
\* inside work_queue).
Fairness ==
  /\ WF_vars(Thread)
  /\ SF_vars(WorkDone)
  /\ WF_vars(Tick)
  /\ WF_vars(DaemonSets)
  /\ \A c \in Callers :
       WF_vars(SetBits(c) \/ SetBitsFromISR(c) \/ SetBitsRefused(c))

FairSpec == Spec /\ Fairness

-----------------------------------------------------------------------------
(* What the queue is asked.                                                *)

\* A work is on the list exactly when its worker field says it is queued, and
\* it is on it once: work_qqueue, work_qcancel and the scan each change the
\* list and the field, and the tests `worker != NULL` they make stand for "is
\* on the list" (kwork_queue.c:75-83, kwork_cancel.c:76-90).
QueueMatchesWorker ==
  /\ \A w \in Works : worker[w] # NULL <=> \E i \in DOMAIN q : q[i] = w
  /\ \A i, k \in DOMAIN q : q[i] = q[k] => i = k

\* `doing` is raised only for the work whose callback is running, and never
\* on a work that is on the list, so that Pending can be tested by either of
\* its two halves alone: a work queued again from its own callback, or by an
\* interrupt during it, must have lost the mark (kwork_process.c:154-190).
DoingIsRunning ==
  \A w \in Works : doing[w] => pc = "run" /\ cur = w /\ worker[w] = NULL

\* The worker thread never sleeps past the time an entry becomes ready: if it
\* is blocked and the event bit is neither set nor on its way, by a caller or
\* by the timer daemon, the timeout left is no longer than the delay left to
\* any entry, but for the ticks that passed between its scan and its wait
\* (kwork_process.c:186-224).  The exception is an entry queued by an interrupt
\* since the scan whose wakeup the daemon's queue refused
\* (kwork_queue.c:192-196); the bound stands for the entries beside it.
NoOversleep ==
  pc = "wait" /\ ~event /\ posting = {} /\ pended = 0 =>
    \A i \in DOMAIN q :
      wake[q[i]] # "refused" => next # Forever /\ next <= due[q[i]] + slip

\* The job whose callback runs, as the users of the queue see it.
RunningJob == IF pc = "run" THEN [work |-> cur, job |-> job] ELSE NULL

Slots == INSTANCE WorkSlots WITH slot <- worker, running <- RunningJob

\* The queue implements the slots: jobs run once, on time, and not after they
\* were cancelled or replaced.
ImplementsSlots == Slots!Spec

\* A queued work is run or cancelled, unless it is queued again and again: no
\* wakeup is lost between the scan and the wait, or on its way through the
\* timer daemon, and work behind an entry that requeues itself is not starved.
\* The exception is a work whose wakeup was refused, while nothing else ever
\* wakes the thread.
QueuedWorkRuns ==
  \A w \in Works :
    \/ worker[w] # NULL ~> worker[w] = NULL
    \/ []<><<WorkQueueCall(w)>>_vars
    \/ <>[](wake[w] = "refused")
=============================================================================
