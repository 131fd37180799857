--------------------------- MODULE WorkQueue_proofs ---------------------------
(***************************************************************************)
(* Proofs about WorkQueue, for every set of works, jobs and callers and    *)
(* every bound on the delays.                                              *)
(***************************************************************************)
EXTENDS WorkQueue, Lists_proofs

-----------------------------------------------------------------------------
(* Completions.                                                            *)

\* init_completion leaves a completion (completion.c:12-18).
LEMMA InitCompletionType == InitCompletion \in Completion(Tasks)
BY DoneMaxAssumption DEF InitCompletion, Completion

\* complete leaves a completion and wakes one of its tasks (completion.c:119-131).
LEMMA CompleteType ==
  ASSUME NEW x \in Completion(Tasks)
  PROVE  Complete(x) \in Completion(Tasks) /\ Woken(x) \subseteq Tasks
<1>1. CASE x.tasks = <<>>
  BY <1>1, DoneMaxAssumption DEF Completion, Complete, Woken
<1>2. CASE x.tasks # <<>>
  <2>1. Tail(x.tasks) \in Seq(Tasks) /\ Head(x.tasks) \in Tasks
    BY <1>2, HeadTailProperties DEF Completion
  <2> QED
    BY <1>2, <2>1, DoneMaxAssumption DEF Completion, Complete, Woken
<1> QED
  BY <1>1, <1>2

-----------------------------------------------------------------------------
(* The inductive invariant.                                                *)

\* List, worker fields and doing marks as they are in every reachable state.
IInv ==
  /\ TypeOK
  /\ QueueMatchesWorker
  /\ DoingIsRunning
  /\ pc = "run" => cur \in Works

\* The work list and the marks after a scan that began with no mark raised.
LEMMA ScanKeeps ==
  ASSUME TypeOK, QueueMatchesWorker,
         NEW flags, flags = [w \in Works |-> FALSE],
         Scan(flags)
  PROVE  /\ q' \in Seq(Works)
         /\ worker' \in [Works -> Jobs \cup {NULL}]
         /\ due' \in [Works -> 0..MaxDelay]
         /\ doing' \in [Works -> BOOLEAN]
         /\ pc' \in {"run", "post"}
         /\ cur' \in Works \cup {NULL}
         /\ job' \in Jobs \cup {NULL}
         /\ next' \in 0..Forever
         /\ passAge' \in 0..MaxDelay
         /\ slip' \in 0..MaxDelay
         /\ QueueMatchesWorker'
         /\ DoingIsRunning'
         /\ pc' = "run" => cur' \in Works
<1> USE WorkQueueAssumption
<1>1. ASSUME NEW S \in SUBSET Works, next' \in NextAfter(S)
      PROVE  next' \in 0..Forever
  BY <1>1 DEF NextAfter, Remaining, TypeOK, Forever
<1>2. CASE PickWork(flags)
  <2>1. PICK i \in FirstReady :
          LET w == q[i] IN
          /\ next' \in NextAfter({q[k] : k \in 1..(i - 1)})
          /\ q' = DqRem(q, w)
          /\ cur' = w /\ job' = worker[w]
          /\ worker' = [worker EXCEPT ![w] = NULL]
          /\ doing' = [flags EXCEPT ![w] = TRUE]
          /\ pc' = "run"
          /\ UNCHANGED <<due, passAge, slip>>
    BY <1>2 DEF PickWork
  <2>2. i \in DOMAIN q /\ q[i] \in Works
    BY <2>1 DEF FirstReady, TypeOK
  <2>3. {q[k] : k \in 1..(i - 1)} \in SUBSET Works
    BY <2>2 DEF TypeOK
  <2>4. next' \in 0..Forever
    BY <1>1, <2>1, <2>3
  <2>5. NoRepeat(q)
    BY DEF QueueMatchesWorker, NoRepeat
  <2>6. q' \in Seq(Works) /\ IsWithout(q', q, q[i])
    <3>1. q \in Seq(Works) /\ OnList(q[i], q) /\ q' = DqRem(q, q[i])
      BY <2>1, <2>2 DEF TypeOK, OnList
    <3> QED
      BY <2>5, <3>1, WithoutRemoves DEF DqRem
  <2>7. QueueMatchesWorker'
    BY <2>1, <2>2, <2>6 DEF QueueMatchesWorker, IsWithout, OnList, NoRepeat, TypeOK
  <2>8. DoingIsRunning'
    BY <2>1, <2>2 DEF DoingIsRunning, TypeOK
  <2> QED
    BY <2>1, <2>2, <2>4, <2>6, <2>7, <2>8 DEF TypeOK
<1>3. CASE EndPass(flags)
  <2>1. ToSet(q) \in SUBSET Works
    BY DEF ToSet, TypeOK
  <2>2. next' \in 0..Forever
    BY <1>1, <1>3, <2>1 DEF EndPass
  <2>3. QueueMatchesWorker' /\ DoingIsRunning'
    BY <1>3 DEF EndPass, QueueMatchesWorker, DoingIsRunning
  <2> QED
    BY <1>3, <2>2, <2>3 DEF EndPass, TypeOK
<1> QED
  BY <1>2, <1>3 DEF Scan

\* A queue starts empty, nothing queued and nothing being done.
LEMMA InitIInv == Init => IInv
<1> SUFFICES ASSUME Init PROVE IInv
  OBVIOUS
<1>1. TypeOK
  <2>1. /\ q \in Seq(Works) /\ notified \subseteq Tasks /\ posting \subseteq Callers
        /\ comp \in [Works -> Completion(Tasks)] /\ wcomp \in Completion(Tasks)
    BY InitCompletionType DEF Init
  <2>2. /\ worker \in [Works -> Jobs \cup {NULL}]
        /\ due \in [Works -> 0..MaxDelay] /\ doing \in [Works -> BOOLEAN]
        /\ next \in 0..Forever /\ passAge \in 0..MaxDelay /\ slip \in 0..MaxDelay
    BY WorkQueueAssumption DEF Init, Forever
  <2>3. pended \in 0..TimerQueueLength /\ wake \in [Works -> {"none", "due", "refused"}]
    BY WorkQueueAssumption DEF Init
  <2> QED
    BY <2>1, <2>2, <2>3 DEF Init, TypeOK
<1> QED
  BY <1>1, WorkQueueAssumption DEF Init, IInv, QueueMatchesWorker, DoingIsRunning

\* Every call and every step of the worker thread keeps the invariant.
LEMMA NextIInv == IInv /\ [Next]_vars => IInv'
<1> SUFFICES ASSUME IInv, [Next]_vars PROVE IInv'
  OBVIOUS
<1> USE WorkQueueAssumption DEF IInv
<1>1. ASSUME NEW c \in Callers, NEW w \in Works, NEW j \in Jobs,
             NEW d \in 0..MaxDelay, QQueue(c, w, j, d)
      PROVE  IInv'
  <2> DEFINE s == IF Pending(w) THEN DqRem(q, w) ELSE q
  <2>1. NoRepeat(q) /\ q \in Seq(Works)
    BY DEF QueueMatchesWorker, NoRepeat, TypeOK
  <2>2. s \in Seq(Works) /\ IsWithout(s, q, w)
    <3>1. CASE Pending(w)
      <4>1. s = DqRem(q, w) /\ OnList(w, q)
        BY <3>1 DEF Pending, QueueMatchesWorker, OnList
      <4> QED
        BY <2>1, <4>1, WithoutRemoves DEF DqRem
    <3>2. CASE ~Pending(w)
      <4>1. worker[w] = NULL /\ s = q
        BY <3>2 DEF Pending, DoingIsRunning
      <4>2. ~OnList(w, q)
        BY <4>1 DEF QueueMatchesWorker, OnList
      <4> QED
        BY <4>1, <4>2, <2>1 DEF IsWithout
    <3> QED BY <3>1, <3>2
  <2> HIDE DEF s
  <2>3. q' = DqAddLast(s, w)
    BY <1>1 DEF QQueue, s
  <2>4. q' \in Seq(Works) /\ IsWith(q', s, w)
    BY <2>2, <2>3, AppendAdds DEF DqAddLast, IsWithout
  <2>5. notified' \subseteq Tasks
    BY <1>1, CompleteType DEF QQueue, TypeOK
  <2>6. comp' \in [Works -> Completion(Tasks)]
    BY <1>1, InitCompletionType DEF QQueue, TypeOK
  <2>7. TypeOK'
    <3>1. wake' \in [Works -> {"none", "due", "refused"}]
      BY <1>1 DEF QQueue, TypeOK
    <3> QED
      BY <1>1, <2>4, <2>5, <2>6, <3>1 DEF QQueue, NotDoing, TypeOK, threadVars
  <2>8. QueueMatchesWorker'
    <3>1. NoRepeat(q') /\ \A v : OnList(v, q') <=> v = w \/ OnList(v, q)
      BY <2>2, <2>4 DEF IsWith, IsWithout
    <3>2. \A v \in Works : worker'[v] # NULL <=> v = w \/ worker[v] # NULL
      BY <1>1 DEF QQueue, TypeOK
    <3>3. \A v \in Works : worker[v] # NULL <=> OnList(v, q)
      BY DEF QueueMatchesWorker, OnList
    <3>4. \A v \in Works : worker'[v] # NULL <=> OnList(v, q')
      BY <3>1, <3>2, <3>3
    <3> QED
      BY <3>1, <3>4 DEF QueueMatchesWorker, OnList, NoRepeat
  <2>9. DoingIsRunning'
    BY <1>1 DEF QQueue, NotDoing, DoingIsRunning, TypeOK, threadVars
  <2> QED
    BY <1>1, <2>7, <2>8, <2>9 DEF QQueue, threadVars
<1>2. ASSUME NEW c \in Callers, SetBits(c) PROVE IInv'
  BY <1>2 DEF SetBits, threadVars, TypeOK, QueueMatchesWorker, DoingIsRunning
<1>13. ASSUME NEW c \in Callers, SetBitsFromISR(c) PROVE IInv'
  BY <1>13 DEF SetBitsFromISR, threadVars, TypeOK, QueueMatchesWorker, DoingIsRunning
<1>11. ASSUME NEW c \in Callers, SetBitsRefused(c) PROVE IInv'
  BY <1>11 DEF SetBitsRefused, threadVars, TypeOK, QueueMatchesWorker, DoingIsRunning
<1>12. CASE DaemonSets
  BY <1>12 DEF DaemonSets, threadVars, TypeOK, QueueMatchesWorker, DoingIsRunning
<1>3. ASSUME NEW c \in Callers, NEW w \in Works, QCancel(c, w) PROVE IInv'
  <2>1. NoRepeat(q) /\ OnList(w, q)
    BY <1>3 DEF QCancel, Pending, QueueMatchesWorker, NoRepeat, OnList
  <2>2. q' \in Seq(Works) /\ IsWithout(q', q, w)
    BY <1>3, <2>1, WithoutRemoves DEF DqRem, QCancel, TypeOK
  <2>3. TypeOK'
    BY <1>3, <2>2 DEF QCancel, TypeOK, threadVars, bitVars
  <2>4. QueueMatchesWorker'
    BY <1>3, <2>2 DEF QCancel, QueueMatchesWorker, IsWithout, OnList, NoRepeat, TypeOK
  <2>5. DoingIsRunning'
    BY <1>3 DEF QCancel, DoingIsRunning, TypeOK, threadVars, bitVars
  <2> QED
    BY <1>3, <2>3, <2>4, <2>5 DEF QCancel, threadVars, bitVars
<1>4. CASE StartPass
  <2>1. doing = [w \in Works |-> FALSE]
    BY <1>4 DEF StartPass, DoingIsRunning, TypeOK
  <2> QED
    BY <1>4, <2>1, ScanKeeps DEF StartPass, TypeOK, bitVars
<1>5. CASE WorkDone
  <2>1. NotDoing(cur) = [w \in Works |-> FALSE]
    BY <1>5 DEF WorkDone, NotDoing, DoingIsRunning, TypeOK
  <2>2. comp' \in [Works -> Completion(Tasks)] /\ notified' \subseteq Tasks
    <3>1. comp[cur] \in Completion(Tasks)
      BY <1>5 DEF WorkDone, TypeOK
    <3> QED
      BY <1>5, <3>1, CompleteType DEF WorkDone, TypeOK
  <2> QED
    BY <1>5, <2>1, <2>2, ScanKeeps DEF WorkDone, TypeOK, bitVars
<1>6. CASE PassComplete
  BY <1>6, CompleteType DEF PassComplete, bitVars, TypeOK, QueueMatchesWorker,
                            DoingIsRunning
<1>7. CASE Block
  BY <1>7 DEF Block, bitVars, TypeOK, QueueMatchesWorker, DoingIsRunning
<1>8. CASE WaitReturns
  <2>1. TypeOK'
    <3>1. Forever \in 0..Forever /\ 0 \in 0..MaxDelay
      BY DEF Forever
    <3> QED
      BY <1>8, <3>1 DEF WaitReturns, TypeOK
  <2>2. QueueMatchesWorker' /\ DoingIsRunning'
    BY <1>8 DEF WaitReturns, QueueMatchesWorker, DoingIsRunning
  <2> QED
    BY <1>8, <2>1, <2>2 DEF WaitReturns
<1>9. CASE Tick
  BY <1>9 DEF Tick, bitVars, TypeOK, QueueMatchesWorker, DoingIsRunning, Saturate,
              Forever
<1>10. CASE UNCHANGED vars
  BY <1>10 DEF vars, threadVars, bitVars, TypeOK, QueueMatchesWorker, DoingIsRunning
<1> QED
  BY <1>1, <1>2, <1>3, <1>4, <1>5, <1>6, <1>7, <1>8, <1>9, <1>10, <1>11, <1>12, <1>13
     DEF Next, WorkQueueCall

\* The list, the worker fields and the doing marks agree in every reachable
\* state, whatever tasks, interrupts and callbacks call work_queue and
\* work_cancel (kwork_queue.c, kwork_cancel.c, kwork_process.c).
THEOREM SpecIInv == Spec => []IInv
BY InitIInv, NextIInv, PTL DEF Spec

\* The variables have their types, for any number of works, jobs and callers.
THEOREM SpecTypeOK == Spec => []TypeOK
<1>1. IInv => TypeOK
  BY DEF IInv
<1> QED
  BY <1>1, SpecIInv, PTL

\* A work is on the list, and once, exactly while its worker field is set: the
\* tests of work_qqueue and work_qcancel are sound (kwork_queue.c:89,
\* kwork_cancel.c:73).
THEOREM SpecQueueMatchesWorker == Spec => []QueueMatchesWorker
<1>1. IInv => QueueMatchesWorker
  BY DEF IInv
<1> QED
  BY <1>1, SpecIInv, PTL

\* The doing mark belongs to the work whose callback is running, and to it
\* alone (kwork_process.c:149-174).
THEOREM SpecDoingIsRunning == Spec => []DoingIsRunning
<1>1. IInv => DoingIsRunning
  BY DEF IInv
<1> QED
  BY <1>1, SpecIInv, PTL

-----------------------------------------------------------------------------
(* The sleep of the worker thread.                                         *)

\* From the end of a scan to the end of the wait it leads to, `next` bounds
\* the time left to every entry the scan saw, and an entry queued since then
\* has its wakeup on the way unless it was refused.  No wakeup is waited for
\* while a scan is going on or about to start.
SleepBound ==
  /\ Busy => \A w \in Works : wake[w] = "none"
  /\ ~Busy => \A i \in DOMAIN q :
       wake[q[i]] = "none" => next # Forever /\ next <= due[q[i]] + slip
  /\ \A w \in Works : wake[w] = "due" => event \/ posting # {} \/ pended > 0

\* Every step keeps the bound: a call that queues an entry has a wakeup to
\* send before anything relies on `next` again.
LEMMA NextSleepBound == IInv /\ SleepBound /\ [Next]_vars => SleepBound'
<1> SUFFICES ASSUME IInv, SleepBound, [Next]_vars PROVE SleepBound'
  OBVIOUS
<1> USE WorkQueueAssumption
<1>0. DOMAIN q = 1..Len(q) /\ \A i \in DOMAIN q : q[i] \in Works
  BY DEF IInv, TypeOK
<1>1. ASSUME NEW c \in Callers, NEW w \in Works, NEW j \in Jobs,
             NEW d \in 0..MaxDelay, QQueue(c, w, j, d)
      PROVE  SleepBound'
  <2>1. /\ posting' # {}
        /\ wake' = [wake EXCEPT ![w] = IF Busy THEN "none" ELSE "due"]
        /\ due' = [due EXCEPT ![w] = d]
        /\ UNCHANGED <<pc, next, slip>>
        /\ wake \in [Works -> {"none", "due", "refused"}]
        /\ due \in [Works -> 0..MaxDelay]
    BY <1>1 DEF QQueue, threadVars, IInv, TypeOK
  <2>2. \A i \in DOMAIN q' : q'[i] # w => OnList(q'[i], q)
    <3> DEFINE s == IF Pending(w) THEN DqRem(q, w) ELSE q
    <3>1. q \in Seq(Works) /\ NoRepeat(q)
      BY DEF IInv, TypeOK, QueueMatchesWorker, NoRepeat
    <3>2. s \in Seq(Works) /\ \A v : OnList(v, s) => OnList(v, q)
      <4>1. CASE Pending(w)
        <5>1. s = DqRem(q, w) /\ OnList(w, q)
          BY <4>1 DEF Pending, IInv, QueueMatchesWorker, OnList
        <5> QED
          BY <3>1, <5>1, WithoutRemoves DEF DqRem, IsWithout
      <4>2. CASE ~Pending(w)
        BY <3>1, <4>2
      <4> QED BY <4>1, <4>2
    <3> HIDE DEF s
    <3>3. q' = Append(s, w)
      BY <1>1 DEF QQueue, DqAddLast, s
    <3>4. ASSUME NEW i \in DOMAIN q', q'[i] # w PROVE OnList(q'[i], q)
      <4>1. i \in DOMAIN s /\ q'[i] = s[i]
        BY <3>2, <3>3, <3>4
      <4>2. OnList(s[i], s)
        BY <4>1 DEF OnList
      <4> QED
        BY <3>2, <4>1, <4>2
    <3> QED
      BY <3>4
  <2>3. Busy' <=> Busy
    BY <2>1 DEF Busy
  <2>4. Busy' => \A v \in Works : wake'[v] = "none"
    BY <2>1, <2>3 DEF SleepBound
  <2>5. ASSUME ~Busy', NEW i \in DOMAIN q', wake'[q'[i]] = "none"
        PROVE  next' # Forever /\ next' <= due'[q'[i]] + slip'
    <3>1. q'[i] # w
      BY <2>1, <2>3, <2>5
    <3>2. PICK k \in DOMAIN q : q[k] = q'[i]
      BY <2>2, <3>1 DEF OnList
    <3>3. wake[q[k]] = "none" /\ due'[q'[i]] = due[q[k]]
      BY <2>1, <2>5, <3>1, <3>2, <1>0
    <3> QED
      BY <2>1, <2>3, <2>5, <3>2, <3>3 DEF SleepBound
  <2> QED
    BY <2>1, <2>4, <2>5 DEF SleepBound
<1>2. ASSUME NEW c \in Callers, SetBits(c) PROVE SleepBound'
  BY <1>2 DEF SetBits, SleepBound, Busy, threadVars
<1>13. ASSUME NEW c \in Callers, SetBitsFromISR(c) PROVE SleepBound'
  <2>1. pended' > 0
    BY <1>13 DEF SetBitsFromISR, IInv, TypeOK
  <2> QED
    BY <1>13, <2>1 DEF SetBitsFromISR, SleepBound, Busy, threadVars
<1>14. ASSUME NEW c \in Callers, SetBitsRefused(c) PROVE SleepBound'
  <2>1. \A v \in Works : /\ wake'[v] # "due"
                         /\ wake'[v] = "none" <=> wake[v] = "none"
    BY <1>14 DEF SetBitsRefused, IInv, TypeOK
  <2>2. UNCHANGED <<q, pc, next, due, slip>>
    BY <1>14 DEF SetBitsRefused, threadVars
  <2> QED
    BY <1>0, <2>1, <2>2 DEF SleepBound, Busy
<1>12. CASE DaemonSets
  BY <1>12 DEF DaemonSets, SleepBound, Busy, threadVars
<1>3. ASSUME NEW c \in Callers, NEW w \in Works, QCancel(c, w)
      PROVE  SleepBound'
  <2>1. NoRepeat(q) /\ OnList(w, q) /\ q \in Seq(Works)
    BY <1>3 DEF QCancel, Pending, IInv, QueueMatchesWorker, NoRepeat, OnList, TypeOK
  <2>2. q' \in Seq(Works) /\ IsWithout(q', q, w)
    BY <1>3, <2>1, WithoutRemoves DEF DqRem, QCancel
  <2>3. ASSUME NEW i \in DOMAIN q'
        PROVE  /\ \E k \in DOMAIN q : q[k] = q'[i]
               /\ due'[q'[i]] = due[q'[i]]
    <3>1. OnList(q'[i], q')
      BY DEF OnList
    <3>2. q'[i] # w /\ OnList(q'[i], q)
      BY <2>2, <3>1 DEF IsWithout
    <3> QED
      BY <1>3, <2>2, <3>2 DEF QCancel, IInv, TypeOK, OnList
  <2> QED
    BY <1>3, <2>3 DEF QCancel, SleepBound, Busy, threadVars, bitVars
<1>4. ASSUME NEW flags, Scan(flags), Busy, wake' = wake PROVE SleepBound'
  <2>1. CASE PickWork(flags)
    BY <1>4, <2>1 DEF PickWork, SleepBound, Busy
  <2>2. CASE EndPass(flags)
    <3>1. ASSUME NEW i \in DOMAIN q
          PROVE  /\ next' \in Nat /\ next' <= Remaining(q[i]) /\ Remaining(q[i]) \in Nat
                 /\ Remaining(q[i]) <= due[q[i]] /\ due[q[i]] \in 0..MaxDelay
      <4>1. q[i] \in ToSet(q) /\ due[q[i]] \in 0..MaxDelay
        BY DEF ToSet, IInv, TypeOK
      <4>2. next' <= Remaining(q[i])
        BY <2>2, <4>1 DEF EndPass, NextAfter
      <4>3. Remaining(q[i]) \in 0..due[q[i]]
        BY <4>1 DEF Remaining, IInv, TypeOK
      <4>4. next' \in Nat
        <5>1. ToSet(q) \in SUBSET Works
          BY DEF ToSet, IInv, TypeOK
        <5> QED
          BY <2>2, <5>1 DEF EndPass, NextAfter, Remaining, IInv, TypeOK, Forever
      <4> QED
        BY <4>1, <4>2, <4>3, <4>4
    <3>2. q' = q /\ due' = due /\ slip' = 0
      BY <2>2 DEF EndPass
    <3>3. ASSUME NEW i \in DOMAIN q
          PROVE  next' # Forever /\ next' <= due[q[i]] + 0
      BY <3>1 DEF Forever
    <3> QED
      BY <1>4, <2>2, <3>2, <3>3 DEF EndPass, SleepBound, Busy
  <2> QED
    BY <1>4, <2>1, <2>2 DEF Scan
<1>5. CASE StartPass
  BY <1>4, <1>5 DEF StartPass, Busy
<1>6. CASE WorkDone
  BY <1>4, <1>6 DEF WorkDone, Busy
<1>7. CASE PassComplete
  BY <1>7 DEF PassComplete, SleepBound, Busy, bitVars
<1>8. CASE Block
  BY <1>8 DEF Block, SleepBound, Busy, bitVars
<1>9. CASE WaitReturns
  BY <1>9 DEF WaitReturns, SleepBound, Busy
<1>10. CASE Tick
  <2>0. /\ q' = q /\ wake' = wake /\ event' = event /\ posting' = posting
        /\ pended' = pended /\ pc' = pc
    BY <1>10 DEF Tick, bitVars
  <2> SUFFICES ASSUME ~Busy, NEW i \in DOMAIN q, wake[q[i]] = "none"
               PROVE  next' # Forever /\ next' <= due'[q[i]] + slip'
    BY <2>0 DEF SleepBound, Busy
  <2>1. /\ q[i] \in Works /\ pc \in {"post", "block", "wait"}
        /\ next # Forever /\ next <= due[q[i]] + slip
    BY <1>0 DEF SleepBound, Busy, IInv, TypeOK
  <2>2. due'[q[i]] = IF due[q[i]] > 0 THEN due[q[i]] - 1 ELSE 0
    BY <1>10, <2>1 DEF Tick
  <2>3. due[q[i]] \in 0..MaxDelay /\ slip \in 0..MaxDelay /\ next \in 0..MaxDelay
    BY <2>1 DEF IInv, TypeOK, Forever
  <2>4. CASE pc = "wait"
    BY <1>10, <2>1, <2>2, <2>3, <2>4 DEF Tick, Forever
  <2>5. CASE pc \in {"post", "block"}
    BY <1>10, <2>1, <2>2, <2>3, <2>5 DEF Tick, Saturate
  <2> QED
    BY <2>1, <2>4, <2>5
<1>11. CASE UNCHANGED vars
  BY <1>11 DEF vars, threadVars, bitVars, Busy, SleepBound
<1> QED
  BY <1>1, <1>2, <1>3, <1>5, <1>6, <1>7, <1>8, <1>9, <1>10, <1>11, <1>12, <1>13,
     <1>14 DEF Next, WorkQueueCall

\* The worker thread never blocks for longer than the least delay left on the
\* list, whatever was queued while it was on its way to the wait and however
\* late the timer daemon sets the bit; only an entry whose wakeup the daemon's
\* queue refused may have to wait for the next one
\* (kwork_process.c:193-224, kwork_queue.c:183-220).
THEOREM SpecNoOversleep == Spec => []NoOversleep
<1>1. Init => SleepBound
  BY DEF Init, SleepBound, Busy
<1>2. IInv /\ SleepBound => NoOversleep
  BY DEF SleepBound, NoOversleep, Busy, IInv, TypeOK
<1> QED
  BY <1>1, <1>2, SpecIInv, NextSleepBound, PTL DEF Spec

-----------------------------------------------------------------------------
(* The queue implements the slots.                                         *)

\* Every step of the queue is a step of the slots or leaves them as they are.
LEMMA StepImplementsSlots ==
  IInv /\ [Next]_vars => [Slots!Next]_(Slots!vars)
<1> SUFFICES ASSUME IInv, [Next]_vars PROVE [Slots!Next]_(Slots!vars)
  OBVIOUS
<1> USE DEF Slots!vars, RunningJob
<1>1. ASSUME NEW c \in Callers, NEW w \in Works, NEW j \in Jobs,
             NEW d \in 0..MaxDelay, QQueue(c, w, j, d)
      PROVE  Slots!Next
  BY <1>1 DEF QQueue, threadVars, Slots!Submit, Slots!Next
<1>2. ASSUME NEW c \in Callers, SetBits(c) \/ SetBitsFromISR(c) \/ SetBitsRefused(c)
      PROVE  UNCHANGED Slots!vars
  BY <1>2 DEF SetBits, SetBitsFromISR, SetBitsRefused, threadVars
<1>3. ASSUME NEW c \in Callers, NEW w \in Works, QCancel(c, w)
      PROVE  Slots!Next
  BY <1>3 DEF QCancel, Pending, threadVars, Slots!Cancel, Slots!Next
<1>4. ASSUME NEW flags, PickWork(flags) PROVE Slots!Next
  <2>1. PICK i \in FirstReady :
          /\ cur' = q[i] /\ job' = worker[q[i]]
          /\ worker' = [worker EXCEPT ![q[i]] = NULL]
          /\ pc' = "run"
          /\ UNCHANGED due
    BY <1>4 DEF PickWork
  <2>2. q[i] \in Works /\ due[q[i]] = 0 /\ worker[q[i]] # NULL
    BY <2>1 DEF FirstReady, IInv, TypeOK, QueueMatchesWorker
  <2>3. Slots!Start(q[i])
    BY <2>1, <2>2 DEF Slots!Start
  <2> QED
    BY <2>2, <2>3 DEF Slots!Next
<1>5. CASE StartPass
  <2>1. CASE \E flags : EndPass(flags)
    BY <1>5, <2>1 DEF StartPass, EndPass
  <2> QED
    BY <1>4, <1>5, <2>1 DEF StartPass, Scan
<1>6. CASE WorkDone
  <2>1. ASSUME NEW flags, EndPass(flags) PROVE [Slots!Next]_(Slots!vars)
    BY <1>6, <2>1 DEF WorkDone, EndPass, Slots!Finish, Slots!Next
  <2> QED
    BY <1>4, <1>6, <2>1 DEF WorkDone, Scan
<1>7. CASE PassComplete \/ Block \/ WaitReturns \/ DaemonSets
  BY <1>7 DEF PassComplete, Block, WaitReturns, DaemonSets, threadVars
<1>8. CASE Tick
  BY <1>8 DEF Tick, Slots!Tick, Slots!Next
<1>9. CASE UNCHANGED vars
  BY <1>9 DEF vars, threadVars
<1> QED
  BY <1>1, <1>2, <1>3, <1>5, <1>6, <1>7, <1>8, <1>9 DEF Next, WorkQueueCall

\* A job runs at most once for each call of work_queue, never before its
\* delay, and never after work_cancel returned OK or a later work_queue
\* replaced it (kwork_queue.c, kwork_cancel.c, kwork_process.c).
THEOREM SpecImplementsSlots == Spec => ImplementsSlots
<1>1. Init => Slots!Init
  BY DEF Init, Slots!Init, RunningJob
<1> QED
  BY <1>1, SpecIInv, StepImplementsSlots, PTL DEF Spec, ImplementsSlots, Slots!Spec
=============================================================================
