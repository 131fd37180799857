--------------------------- MODULE FileUart_proofs ---------------------------
(***************************************************************************)
(* Proofs about FileUart, for any size of the ring, any number of tasks    *)
(* and mounts, and with interrupt handlers that write between any two      *)
(* steps of the tasks: the indices stay in the ring, the log is closed     *)
(* when it must be, and no byte is forgotten.  Without the handlers, what  *)
(* the ring holds is a log that loses nothing but the oldest bytes.        *)
(***************************************************************************)
EXTENDS FileUart, SequenceTheorems, TLAPS

-----------------------------------------------------------------------------
(* The inductive invariant.                                                *)

\* What is done under the mutex is done by the one that has it.
Mutex ==
  /\ \A c \in Callers :
       pc[c] \in {"byte", "load", "count", "loadrd", "rd", "give"} => sem = c
  /\ fpc \in {"open", "chunk", "write", "loadrd", "rd", "load", "count", "sync",
              "give"} => sem = Worker

\* A chunk is never more than is there, though handlers add to it.
Amounts ==
  /\ \A c \in Callers : pc[c] = "count" => old[c] < TxBufSize
  /\ fpc \in {"write", "loadrd", "rd", "load"} => chunk <= count
  /\ fpc \in {"loadrd", "rd", "load", "count"} => written <= chunk
  /\ fpc = "count" => written <= reg

\* The log is opened only while the storage is not suspended.
OpenAwake == fpc = "open" => depth = 0

IInv == TypeOK /\ Mutex /\ Amounts /\ OpenAwake /\ ClosedWhenItMust /\ NotForgotten

-----------------------------------------------------------------------------
(* Arithmetic of the ring.                                                 *)

\* An index moved on stays in the ring.
LEMMA AfterInRange ==
  ASSUME NEW i \in Nat, NEW n \in Nat
  PROVE  After(i, n) \in Index
BY FileUartAssumption DEF After, Index

\* A piece is not more than there is.
LEMMA PieceInAmount ==
  ASSUME rd \in Index, wt \in Index, count \in Amount
  PROVE  PieceAtRd \in Amount /\ PieceAtRd <= count
BY FileUartAssumption DEF PieceAtRd, Least, Index, Amount

-----------------------------------------------------------------------------
(* The steps of a task.                                                    *)

\* What a task does in fileuart_write.
LEMMA TaskWrites ==
  ASSUME IInv, NEW c \in Callers, Take(c) \/ WriteStep(c), UNCHANGED noisy
  PROVE  IInv'
<1> USE FileUartAssumption
    DEF IInv, Mutex, Amounts, OpenAwake, ClosedWhenItMust, NotForgotten, TypeOK, At, Go,
        Load, ring, file, caller, flusher, Index, Amount
<1>1. ASSUME Take(c) PROVE IInv'
  BY <1>1 DEF Take
<1>2. ASSUME StoreByte(c) PROVE IInv'
  <2> HIDE DEF Index
  <2>1. After(old[c], 1) \in Index
    BY AfterInRange
  <2>2. PICK b \in Bytes : buf' = [buf EXCEPT ![old[c]] = b]
    BY <1>2 DEF StoreByte
  <2>3. buf' \in [Index -> Bytes]
    BY <2>2
  <2>4. wt' \in Index
    BY <1>2, <2>1 DEF StoreByte
  <2> QED
    BY <1>2, <2>3, <2>4 DEF StoreByte
<1>3. ASSUME LoadCount(c) PROVE IInv'
  BY <1>3 DEF LoadCount
<1>4. ASSUME StoreCount(c) PROVE IInv'
  BY <1>4 DEF StoreCount
<1>5. ASSUME LoadRd(c) PROVE IInv'
  BY <1>5 DEF LoadRd
<1>6. ASSUME StoreRd(c) PROVE IInv'
  <2> HIDE DEF Index
  <2>1. After(old[c], 1) \in Index
    BY AfterInRange
  <2> QED
    BY <1>6, <2>1 DEF StoreRd
<1>7. ASSUME Give(c) PROVE IInv'
  BY <1>7 DEF Give
<1>8. ASSUME Schedule(c) PROVE IInv'
  BY <1>8 DEF Schedule, WouldQueue
<1>9. ASSUME QueueWork(c) PROVE IInv'
  BY <1>9 DEF QueueWork
<1> QED
  BY <1>1, <1>2, <1>3, <1>4, <1>5, <1>6, <1>7, <1>8, <1>9 DEF WriteStep

\* Mounts and suspension.
LEMMA TaskMounts ==
  ASSUME IInv, NEW c \in Callers,
         (\E d \in Mounts : Mount(c, d)) \/ Umount(c) \/ Suspend(c) \/ Resume(c),
         UNCHANGED noisy
  PROVE  IInv'
<1> USE FileUartAssumption
    DEF IInv, Mutex, Amounts, OpenAwake, ClosedWhenItMust, NotForgotten, TypeOK, At, Go,
        Load, ring, file, caller, flusher
<1>1. ASSUME NEW d \in Mounts, Mount(c, d) PROVE IInv'
  BY <1>1 DEF Mount
<1>2. ASSUME Umount(c) PROVE IInv'
  BY <1>2 DEF Umount
<1>3. ASSUME Suspend(c) PROVE IInv'
  BY <1>3 DEF Suspend
<1>4. ASSUME Resume(c) PROVE IInv'
  BY <1>4 DEF Resume
<1> QED
  BY <1>1, <1>2, <1>3, <1>4

-----------------------------------------------------------------------------
(* The handlers and the flush.                                             *)

\* A handler adds to what is there and never takes.
LEMMA HandlerWrites ==
  ASSUME IInv, IsrWrite, UNCHANGED noisy
  PROVE  IInv'
<1> USE FileUartAssumption
    DEF IInv, Mutex, Amounts, OpenAwake, ClosedWhenItMust, NotForgotten, TypeOK, file,
        caller, flusher
<1>1. wt' \in Index /\ rd' \in Index /\ buf' \in [Index -> Bytes]
  <2>1. wt \in Nat /\ rd \in Nat
    BY DEF Index
  <2>2. After(wt, 1) \in Index /\ After(rd, 1) \in Index
    BY <2>1, AfterInRange
  <2> QED
    BY <2>2 DEF IsrWrite
<1>2. count' \in Amount /\ count <= count'
  BY DEF IsrWrite, Amount
<1>3. queued' \in BOOLEAN /\ (queued => queued')
  BY DEF IsrWrite, WouldQueue
<1>4. TypeOK'
  BY <1>1, <1>2, <1>3 DEF IsrWrite
<1>5. Amounts'
  BY <1>2 DEF IsrWrite, Amount
<1> QED
  BY <1>3, <1>4, <1>5 DEF IsrWrite, WouldQueue

\* The flush up to the write.
LEMMA FlushBegins ==
  ASSUME IInv, Start \/ FlushTake \/ FlushOpen \/ FlushChunk \/ FlushWrite \/ FlushWriteFails,
         UNCHANGED noisy
  PROVE  IInv'
<1> USE FileUartAssumption
    DEF IInv, Mutex, Amounts, OpenAwake, ClosedWhenItMust, NotForgotten, TypeOK, ring,
        file, caller, flusher, Amount
<1>1. ASSUME Start PROVE IInv'
  BY <1>1 DEF Start
<1>2. ASSUME FlushTake PROVE IInv'
  BY <1>2 DEF FlushTake
<1>3. ASSUME FlushOpen PROVE IInv'
  BY <1>3 DEF FlushOpen
<1>4. ASSUME FlushChunk PROVE IInv'
  BY <1>4, PieceInAmount DEF FlushChunk
<1>5. ASSUME FlushWrite PROVE IInv'
  <2>1. written' \in Amount /\ written' <= chunk
    BY <1>5 DEF FlushWrite
  <2>2. rd \in Nat /\ written' \in Nat /\ \A i \in 1..written' : i - 1 \in Nat
    BY <2>1 DEF Index
  <2>3. \A i \in 1..written' : After(rd, i - 1) \in Index
    BY <2>2, AfterInRange
  <2>4. \A i \in 1..written' : buf[After(rd, i - 1)] \in Bytes
    BY <2>3
  <2>5. out' = [i \in 1..written' |-> buf[After(rd, i - 1)]]
    BY <1>5 DEF FlushWrite
  <2>6. out' \in [1..written' -> Bytes]
    BY <2>4, <2>5
  <2>7. out' \in Seq(Bytes)
    BY <2>2, <2>6, SeqDef
  <2> QED
    BY <1>5, <2>1, <2>7 DEF FlushWrite
<1>6. ASSUME FlushWriteFails PROVE IInv'
  BY <1>6 DEF FlushWriteFails
<1> QED
  BY <1>1, <1>2, <1>3, <1>4, <1>5, <1>6

\* The flush from the write on.
LEMMA FlushEnds ==
  ASSUME IInv,
         \/ FlushLoadRd \/ FlushStoreRd \/ FlushLoadCount \/ FlushStoreCount
         \/ FlushSync \/ FlushGive \/ FlushSchedule \/ FlushQueue,
         UNCHANGED noisy
  PROVE  IInv'
<1> USE FileUartAssumption
    DEF IInv, Mutex, Amounts, OpenAwake, ClosedWhenItMust, NotForgotten, TypeOK, ring,
        file, caller, flusher, Amount
<1>1. ASSUME FlushLoadRd PROVE IInv'
  BY <1>1 DEF FlushLoadRd, Index
<1>2. ASSUME FlushStoreRd PROVE IInv'
  <2>1. rd' \in Index
    BY <1>2, AfterInRange DEF FlushStoreRd
  <2> QED
    BY <1>2, <2>1 DEF FlushStoreRd
<1>3. ASSUME FlushLoadCount PROVE IInv'
  BY <1>3 DEF FlushLoadCount
<1>4. ASSUME FlushStoreCount PROVE IInv'
  <2>1. dirty' \in 0..SyncBytes /\ count' \in Amount
    BY <1>4 DEF FlushStoreCount, Least
  <2> QED
    BY <1>4, <2>1 DEF FlushStoreCount
<1>5. ASSUME FlushSync PROVE IInv'
  BY <1>5 DEF FlushSync
<1>6. ASSUME FlushGive PROVE IInv'
  BY <1>6 DEF FlushGive
<1>7. ASSUME FlushSchedule PROVE IInv'
  BY <1>7 DEF FlushSchedule, WouldQueue
<1>8. ASSUME FlushQueue PROVE IInv'
  BY <1>8 DEF FlushQueue
<1> QED
  BY <1>1, <1>2, <1>3, <1>4, <1>5, <1>6, <1>7, <1>8

-----------------------------------------------------------------------------
(* The theorems.                                                           *)

\* The invariant holds in every state.
LEMMA SpecIInv == Spec => []IInv
<1>1. Init => IInv
  BY FileUartAssumption
  DEF Init, IInv, Mutex, Amounts, OpenAwake, ClosedWhenItMust, NotForgotten, TypeOK,
      Index, Amount
<1>2. IInv /\ [Next]_vars => IInv'
  <2>1. ASSUME IInv, UNCHANGED vars PROVE IInv'
    BY <2>1
    DEF vars, log, ring, file, caller, flusher, IInv, Mutex, Amounts, OpenAwake,
        ClosedWhenItMust, NotForgotten, TypeOK
  <2> QED
    BY <2>1, TaskWrites, TaskMounts, HandlerWrites, FlushBegins, FlushEnds
    DEF Next, FlushStep
<1> QED
  BY <1>1, <1>2, PTL DEF Spec

\* The indices stay in the ring whatever the handlers write between two accesses of
\* a task (fileuart.c:90-142).
THEOREM SpecTypeOK == Spec => []TypeOK
<1>1. IInv => TypeOK
  BY DEF IInv
<1> QED
  BY <1>1, SpecIInv, PTL

\* However suspensions nest and mounts come and go, the log is not open on storage
\* that may be taken away (fileuart.c:75-88, 160-168, 187-193, 226-229).
THEOREM SpecClosedWhenItMust == Spec => []ClosedWhenItMust
<1>1. IInv => ClosedWhenItMust
  BY DEF IInv
<1> QED
  BY <1>1, SpecIInv, PTL

\* Whoever queues the flush sees every byte that no flush under way will see
\* (fileuart.c:152-158, 212-216, 233-238).
THEOREM SpecNotForgotten == Spec => []NotForgotten
<1>1. IInv => NotForgotten
  BY DEF IInv
<1> QED
  BY <1>1, SpecIInv, PTL

-----------------------------------------------------------------------------
(* What the ring holds.                                                    *)

\* A number less than twice the modulus wraps once at most.
LEMMA WrapsOnce ==
  ASSUME NEW d \in Nat \ {0}, NEW n \in Nat, n < 2 * d
  PROVE  n % d = IF n < d THEN n ELSE n - d
<1> DEFINE q == n \div d
           r == n % d
<1>1. q \in Nat /\ r \in 0..d-1 /\ n = d * q + r
  OBVIOUS
<1> HIDE DEF q, r
<1>2. ASSUME q >= 2 PROVE FALSE
  <2>1. PICK x \in Nat : q = 2 + x
    <3>1. q - 2 \in Nat /\ q = 2 + (q - 2)
      BY <1>1, <1>2
    <3> QED BY <3>1
  <2>2. d * q = 2 * d + d * x /\ d * x \in Nat
    BY <2>1
  <2> QED BY <1>1, <2>2
<1>3. q = 0 \/ q = 1
  BY <1>1, <1>2
<1>4. d * 0 = 0 /\ d * 1 = d
  OBVIOUS
<1>5. n % d = r
  BY DEF r
<1> QED BY <1>1, <1>3, <1>4, <1>5

\* Moving on twice is moving on by the sum, and once around is not moving; less than
\* that, different distances lead to different places.
LEMMA Moving ==
  /\ \A i \in Index, m \in Amount : After(i, m) \in Index
  /\ \A i \in Index : After(i, 0) = i /\ After(i, TxBufSize) = i
  /\ \A i \in Index, m, n \in Amount :
       m + n <= TxBufSize => After(After(i, m), n) = After(i, m + n)
  /\ \A i \in Index, m, n \in 0..(TxBufSize - 1) : After(i, m) = After(i, n) => m = n
<1>1. ASSUME NEW i \in Index, NEW m \in Amount
      PROVE  After(i, m) = IF i + m < TxBufSize THEN i + m ELSE i + m - TxBufSize
  <2>1. PICK s \in Nat : s = i + m /\ s < 2 * TxBufSize
    <3>1. i + m \in Nat /\ i + m < 2 * TxBufSize
      BY FileUartAssumption DEF Index, Amount
    <3> QED BY <3>1
  <2>2. s % TxBufSize = IF s < TxBufSize THEN s ELSE s - TxBufSize
    BY <2>1, WrapsOnce, FileUartAssumption
  <2>3. After(i, m) = s % TxBufSize
    BY <2>1 DEF After
  <2> QED BY <2>1, <2>2, <2>3, FileUartAssumption DEF Index, Amount
<1>2. \A i \in Index, m \in Amount : After(i, m) \in Index
  BY <1>1, FileUartAssumption DEF Index, Amount
<1>3. \A i \in Index : After(i, 0) = i /\ After(i, TxBufSize) = i
  <2>1. 0 \in Amount /\ TxBufSize \in Amount
    BY FileUartAssumption DEF Amount
  <2> QED BY <1>1, <2>1, FileUartAssumption DEF Index
<1>4. ASSUME NEW i \in Index, NEW m \in Amount, NEW n \in Amount, m + n <= TxBufSize
      PROVE  After(After(i, m), n) = After(i, m + n)
  <2> DEFINE j == After(i, m)
  <2>1. j \in Index /\ m + n \in Amount
    BY <1>2, <1>4, FileUartAssumption DEF Amount
  <2>2. j = IF i + m < TxBufSize THEN i + m ELSE i + m - TxBufSize
    BY <1>1
  <2> HIDE DEF j
  <2>3. /\ After(j, n) = IF j + n < TxBufSize THEN j + n ELSE j + n - TxBufSize
        /\ After(i, m + n) = IF i + (m + n) < TxBufSize THEN i + (m + n)
                            ELSE i + (m + n) - TxBufSize
    BY <1>1, <2>1
  <2>4. After(j, n) = After(i, m + n)
    BY <1>4, <2>1, <2>2, <2>3, FileUartAssumption DEF Index, Amount
  <2> QED BY <2>4 DEF j
<1>5. ASSUME NEW i \in Index, NEW m \in 0..(TxBufSize - 1), NEW n \in 0..(TxBufSize - 1),
             After(i, m) = After(i, n)
      PROVE  m = n
  <2>1. m \in Amount /\ n \in Amount
    BY FileUartAssumption DEF Amount
  <2> QED BY <1>1, <1>5, <2>1, FileUartAssumption DEF Index
<1> QED BY <1>2, <1>3, <1>4, <1>5

\* The n bytes of a ring from place r on.
Held(b, r, n) == [i \in 1..n |-> b[After(r, i - 1)]]
Rings == [Index -> Bytes]

\* A byte stored at place p.
With(b, p, x) == [b EXCEPT ![p] = x]

LEMMA HeldSeq ==
  ASSUME NEW b \in Rings, NEW r \in Index, NEW n \in Amount
  PROVE  /\ Held(b, r, n) \in Seq(Bytes) /\ Len(Held(b, r, n)) = n
         /\ \A i \in 1..n : Held(b, r, n)[i] = b[After(r, i - 1)]
<1>1. n \in Nat /\ \A i \in 1..n : i - 1 \in Amount
  BY FileUartAssumption DEF Amount
<1>2. \A i \in 1..n : b[After(r, i - 1)] \in Bytes
  BY <1>1, Moving DEF Rings
<1>3. Held(b, r, n) \in [1..n -> Bytes]
  BY <1>2 DEF Held
<1>4. \A i \in 1..n : Held(b, r, n)[i] = b[After(r, i - 1)]
  BY DEF Held
<1> QED BY <1>1, <1>3, <1>4

\* A byte stored behind those held is held as the last one,
LEMMA HeldPut ==
  ASSUME NEW b \in Rings, NEW r \in Index, NEW n \in Amount, n < TxBufSize, NEW x \in Bytes
  PROVE  Held(With(b, After(r, n), x), r, n + 1) = Append(Held(b, r, n), x)
<1> DEFINE c == With(b, After(r, n), x)
           s == Held(b, r, n)
           t == Held(c, r, n + 1)
<1>0. /\ c \in Rings /\ c[After(r, n)] = x
      /\ \A j \in Index : j # After(r, n) => c[j] = b[j]
  BY Moving DEF With, Rings
<1> HIDE DEF c
<1>1. n \in Nat /\ n + 1 \in Amount /\ n \in 0..(TxBufSize - 1)
  BY FileUartAssumption DEF Amount
<1>2. /\ s \in Seq(Bytes) /\ Len(s) = n
      /\ \A i \in 1..n : s[i] = b[After(r, i - 1)]
  BY HeldSeq
<1>3. /\ t \in Seq(Bytes) /\ Len(t) = n + 1
      /\ \A i \in 1..n + 1 : t[i] = c[After(r, i - 1)]
  BY <1>0, <1>1, HeldSeq
<1>4. After(r, n) \in Index
  BY Moving
<1>5. \A i \in 1..n : After(r, i - 1) \in Index /\ After(r, i - 1) # After(r, n)
  <2> SUFFICES ASSUME NEW i \in 1..n
               PROVE  After(r, i - 1) \in Index /\ After(r, i - 1) # After(r, n)
    OBVIOUS
  <2>1. i - 1 \in Amount /\ i - 1 \in 0..(TxBufSize - 1) /\ i - 1 # n
    BY <1>1, FileUartAssumption DEF Amount
  <2> QED BY <1>1, <2>1, Moving
<1>6. \A i \in 1..n : t[i] = s[i]
  <2> SUFFICES ASSUME NEW i \in 1..n PROVE t[i] = s[i]
    OBVIOUS
  <2>1. i \in 1..n + 1
    BY <1>1
  <2>2. c[After(r, i - 1)] = b[After(r, i - 1)]
    BY <1>0, <1>5
  <2> QED BY <1>2, <1>3, <2>1, <2>2
<1>7. t[n + 1] = x
  <2>1. n + 1 \in 1..n + 1 /\ (n + 1) - 1 = n
    BY <1>1
  <2>2. t[n + 1] = c[After(r, n)]
    BY <1>3, <2>1
  <2> QED BY <1>0, <2>2
<1> HIDE DEF s, t
<1>8. /\ Append(s, x) \in Seq(Bytes) /\ Len(Append(s, x)) = n + 1
      /\ \A i \in 1..n : Append(s, x)[i] = s[i]
      /\ Append(s, x)[n + 1] = x
  BY <1>1, <1>2, AppendProperties
<1>9. \A i \in 1..n + 1 : t[i] = Append(s, x)[i]
  <2> SUFFICES ASSUME NEW i \in 1..n + 1 PROVE t[i] = Append(s, x)[i]
    OBVIOUS
  <2>1. i \in 1..n \/ i = n + 1
    BY <1>1
  <2> QED BY <1>6, <1>7, <1>8, <2>1
<1>10. t = Append(s, x)
  BY <1>3, <1>8, <1>9, SeqEqual
<1> QED BY <1>10 DEF s, t, c

\* those held from further on are the last of them,
LEMMA HeldRest ==
  ASSUME NEW b \in Rings, NEW r \in Index, NEW n \in Amount, NEW k \in Nat, k <= n
  PROVE  Held(b, After(r, k), n - k) = SubSeq(Held(b, r, n), k + 1, n)
<1> DEFINE s == Held(b, r, n)
           t == Held(b, After(r, k), n - k)
<1>1. n \in Nat /\ n - k \in Amount /\ k \in Amount /\ n <= TxBufSize
  BY FileUartAssumption DEF Amount
<1>2. s \in Seq(Bytes) /\ Len(s) = n /\ \A i \in 1..n : s[i] = b[After(r, i - 1)]
  BY HeldSeq
<1>3. After(r, k) \in Index
  BY <1>1, Moving
<1>4. /\ t \in Seq(Bytes) /\ Len(t) = n - k
      /\ \A i \in 1..n - k : t[i] = b[After(After(r, k), i - 1)]
  BY <1>1, <1>3, HeldSeq
<1>5. \A i \in 1..n - k : t[i] = s[k + i]
  <2> SUFFICES ASSUME NEW i \in 1..n - k PROVE t[i] = s[k + i]
    OBVIOUS
  <2>1. i - 1 \in Amount /\ k + (i - 1) <= TxBufSize /\ k + i \in 1..n /\ (k + i) - 1 = k + (i - 1)
    BY <1>1, FileUartAssumption DEF Amount
  <2>2. After(After(r, k), i - 1) = After(r, k + (i - 1))
    BY <1>1, <2>1, Moving
  <2>3. s[k + i] = b[After(r, k + (i - 1))]
    BY <1>2, <2>1
  <2> QED BY <1>4, <2>2, <2>3
<1> HIDE DEF s, t
<1>6. /\ SubSeq(s, k + 1, n) \in Seq(Bytes) /\ Len(SubSeq(s, k + 1, n)) = n - k
      /\ \A i \in 1..n - k : SubSeq(s, k + 1, n)[i] = s[k + i]
  <2>1. \A i \in (k + 1)..n : s[i] \in Bytes
    BY <1>1, <1>2
  <2>2. k + 1 \in Int /\ n \in Int /\ n - (k + 1) + 1 = n - k /\ (~(k + 1 <= n) => n - k = 0)
    BY <1>1
  <2>3. /\ SubSeq(s, k + 1, n) \in Seq(Bytes)
        /\ Len(SubSeq(s, k + 1, n)) = IF k + 1 <= n THEN n - (k + 1) + 1 ELSE 0
        /\ \A i \in 1..n - (k + 1) + 1 : SubSeq(s, k + 1, n)[i] = s[(k + 1) + i - 1]
    BY <2>1, <2>2, SubSeqProperties
  <2>4. \A i \in 1..n - k : (k + 1) + i - 1 = k + i
    BY <1>1
  <2> QED BY <2>2, <2>3, <2>4
<1>7. t = SubSeq(s, k + 1, n)
  <2>1. \A i \in 1..Len(t) : t[i] = SubSeq(s, k + 1, n)[i]
    BY <1>4, <1>5, <1>6
  <2> QED BY <1>4, <1>6, <2>1, SeqEqual
<1> QED BY <1>7 DEF s, t

\* and fewer of them the first.
LEMMA HeldFirst ==
  ASSUME NEW b \in Rings, NEW r \in Index, NEW n \in Amount, NEW k \in Nat, k <= n
  PROVE  Held(b, r, k) = SubSeq(Held(b, r, n), 1, k)
<1> DEFINE s == Held(b, r, n)
           t == Held(b, r, k)
<1>1. n \in Nat /\ k \in Amount /\ k \in Int
  BY FileUartAssumption DEF Amount
<1>2. s \in Seq(Bytes) /\ Len(s) = n /\ \A i \in 1..n : s[i] = b[After(r, i - 1)]
  BY HeldSeq
<1>3. t \in Seq(Bytes) /\ Len(t) = k /\ \A i \in 1..k : t[i] = b[After(r, i - 1)]
  BY <1>1, HeldSeq
<1> HIDE DEF s, t
<1>4. \A i \in 1..k : s[i] \in Bytes /\ t[i] = s[i]
  <2>1. \A i \in 1..k : i \in 1..n
    BY <1>1
  <2> QED BY <1>2, <1>3, <2>1
<1>5. /\ SubSeq(s, 1, k) \in Seq(Bytes) /\ Len(SubSeq(s, 1, k)) = k
      /\ \A i \in 1..k : SubSeq(s, 1, k)[i] = s[i]
  <2>1. /\ SubSeq(s, 1, k) \in Seq(Bytes)
        /\ Len(SubSeq(s, 1, k)) = IF 1 <= k THEN k - 1 + 1 ELSE 0
        /\ \A i \in 1..k - 1 + 1 : SubSeq(s, 1, k)[i] = s[1 + i - 1]
    BY <1>1, <1>4, SubSeqProperties
  <2>2. k - 1 + 1 = k /\ (~(1 <= k) => k = 0) /\ \A i \in 1..k : 1 + i - 1 = i
    BY <1>1
  <2> QED BY <2>1, <2>2
<1>6. t = SubSeq(s, 1, k)
  <2>1. \A i \in 1..Len(t) : t[i] = SubSeq(s, 1, k)[i]
    BY <1>3, <1>4, <1>5
  <2> QED BY <1>3, <1>5, <2>1, SeqEqual
<1> QED BY <1>6 DEF s, t

\* Stored where the oldest was, in a full ring, it takes the place of that.
LEMMA HeldPush ==
  ASSUME NEW b \in Rings, NEW r \in Index, NEW x \in Bytes
  PROVE  Held(With(b, r, x), After(r, 1), TxBufSize) = Append(Tail(Held(b, r, TxBufSize)), x)
<1> DEFINE q == After(r, 1)
           n == TxBufSize - 1
           s == Held(b, r, TxBufSize)
<1>1. /\ 1 \in Amount /\ n \in Amount /\ n < TxBufSize /\ n + 1 = TxBufSize
      /\ TxBufSize \in Amount /\ 1 + n = TxBufSize /\ 1 \in Nat /\ 1 <= TxBufSize
  BY FileUartAssumption DEF Amount
<1>2. q \in Index /\ After(q, n) = r
  <2>1. q \in Index /\ 1 + n <= TxBufSize
    BY <1>1, Moving, FileUartAssumption
  <2>2. \A m \in Amount : 1 + m <= TxBufSize => After(q, m) = After(r, 1 + m)
    BY <1>1, Moving
  <2> HIDE DEF n
  <2>3. After(q, n) = After(r, TxBufSize)
    BY <1>1, <2>1, <2>2
  <2> QED BY <2>1, <2>3, Moving
<1>3. Held(With(b, r, x), q, n + 1) = Append(Held(b, q, n), x)
  <2>2. q \in Index /\ n \in Amount /\ n < TxBufSize
    BY <1>1, <1>2
  <2> HIDE DEF q, n
  <2>3. Held(With(b, After(q, n), x), q, n + 1) = Append(Held(b, q, n), x)
    BY <2>2, HeldPut
  <2> QED BY <1>2, <2>3
<1>4. Held(b, q, n) = SubSeq(s, 2, TxBufSize)
  <2>1. Held(b, q, TxBufSize - 1) = SubSeq(Held(b, r, TxBufSize), 1 + 1, TxBufSize)
    BY <1>1, HeldRest
  <2> QED BY <2>1
<1>5. Tail(s) = SubSeq(s, 2, TxBufSize)
  <2>1. s \in Seq(Bytes) /\ Len(s) = TxBufSize
    BY <1>1, HeldSeq
  <2> HIDE DEF s
  <2>2. s # <<>>
    BY <2>1, EmptySeq, FileUartAssumption
  <2> QED BY <2>1, <2>2, TailIsSubSeq
<1>6. n + 1 = TxBufSize
  BY FileUartAssumption
<1> HIDE DEF q, n, s
<1>7. Held(With(b, r, x), q, TxBufSize) = Append(Tail(s), x)
  BY <1>3, <1>4, <1>5, <1>6
<1> QED BY <1>7 DEF q, s

-----------------------------------------------------------------------------
(* The ring while no interrupt handler writes.                             *)

\* A task that adds a byte, or gives the oldest up for it; the flush that takes some off.
Adding(c) == pc[c] \in {"load", "count"} /\ count < TxBufSize
Pushing(c) == pc[c] \in {"loadrd", "rd"} \/ (pc[c] = "load" /\ count = TxBufSize)
Moved == fpc \in {"loadrd", "rd"}
Taking == fpc \in {"load", "count"}
Quiet == \A c \in Callers : ~Adding(c) /\ ~Pushing(c)

\* Where one index is ahead of the rest of the step the others are as they were loaded,
\* and the write index lies behind the bytes counted.
RingCounted ==
  /\ \A c \in Callers :
       /\ pc[c] = "byte" => old[c] = wt
       /\ pc[c] = "count" => old[c] = count
       /\ pc[c] = "rd" => old[c] = rd
       /\ Adding(c) => wt = After(rd, count + 1)
       /\ Pushing(c) => count = TxBufSize /\ wt = After(rd, 1)
  /\ fpc = "rd" => reg = rd
  /\ fpc = "count" => reg = count
  /\ Taking => written <= count /\ wt = After(rd, count - written)
  /\ ~Taking /\ Quiet => wt = After(rd, count)

\* What the ring will hold once the step under way is through.
Through ==
  /\ \A c \in Callers : /\ Adding(c) => Settled = Held(buf, rd, count + 1)
                        /\ Pushing(c) => Settled = Held(buf, After(rd, 1), count)
  /\ Quiet /\ Moved => Settled = Held(buf, After(rd, written), count - written)
  /\ Quiet /\ Taking => Settled = Held(buf, rd, count - written)
  /\ Quiet /\ ~Moved /\ ~Taking => Settled = Held(buf, rd, count)

\* At most one of them is there.
LEMMA OneInRing ==
  ASSUME TypeOK, Mutex, Amounts
  PROVE  /\ \A c \in Callers :
              Adding(c) \/ Pushing(c) =>
                ~Moved /\ ~Taking /\ \A d \in Callers : d # c => ~Adding(d) /\ ~Pushing(d)
         /\ \A c \in Callers : ~(Adding(c) /\ Pushing(c))
BY FileUartAssumption DEF TypeOK, Mutex, Amounts, Adding, Pushing, Moved, Taking, Amount

LEMMA SettledIs == TypeOK /\ Mutex /\ Amounts => Through
<1> SUFFICES ASSUME TypeOK, Mutex, Amounts PROVE Through
  OBVIOUS
<1> DEFINE put == \E c \in Callers : pc[c] \in {"load", "count"} /\ count < TxBufSize
           push == \E c \in Callers :
                     pc[c] \in {"loadrd", "rd"} \/ (pc[c] = "load" /\ count = TxBufSize)
           r == IF push THEN After(rd, 1)
                ELSE IF fpc \in {"loadrd", "rd"} THEN After(rd, written) ELSE rd
           n == IF put THEN count + 1
                ELSE IF fpc \in {"loadrd", "rd", "load", "count"} THEN count - written
                ELSE count
<1>1. Settled = Held(buf, r, n)
  BY DEF Settled, Held
<1>2. put <=> \E c \in Callers : Adding(c)
  BY DEF Adding
<1>3. push <=> \E c \in Callers : Pushing(c)
  BY DEF Pushing
<1> HIDE DEF put, push
<1>4. ASSUME NEW c \in Callers, Adding(c) PROVE r = rd /\ n = count + 1
  BY <1>2, <1>3, <1>4, OneInRing DEF Moved
<1>5. ASSUME NEW c \in Callers, Pushing(c) PROVE r = After(rd, 1) /\ n = count
  BY <1>2, <1>3, <1>5, OneInRing DEF Moved, Taking
<1>6. ASSUME Quiet
      PROVE  /\ Moved => r = After(rd, written) /\ n = count - written
             /\ Taking => r = rd /\ n = count - written
             /\ ~Moved /\ ~Taking => r = rd /\ n = count
  BY <1>2, <1>3, <1>6 DEF Quiet, Moved, Taking
<1> HIDE DEF r, n
<1> QED BY <1>1, <1>4, <1>5, <1>6 DEF Through

LEMMA IInvSettled == IInv => Through
BY SettledIs DEF IInv

LEMMA IInvSettledNext == IInv' => Through'
BY IInvSettled, PTL

\* Steps that move nothing of the ring move nothing of what it holds.
LEMMA SettledSame ==
  ASSUME UNCHANGED <<buf, rd, count, written>>,
         \A c \in Callers : (Adding(c)' <=> Adding(c)) /\ (Pushing(c)' <=> Pushing(c)),
         Moved' <=> Moved, Taking' <=> Taking
  PROVE  Settled' = Settled
<1> DEFINE put == \E c \in Callers : pc[c] \in {"load", "count"} /\ count < TxBufSize
           push == \E c \in Callers :
                     pc[c] \in {"loadrd", "rd"} \/ (pc[c] = "load" /\ count = TxBufSize)
           r == IF push THEN After(rd, 1)
                ELSE IF fpc \in {"loadrd", "rd"} THEN After(rd, written) ELSE rd
           n == IF put THEN count + 1
                ELSE IF fpc \in {"loadrd", "rd", "load", "count"} THEN count - written
                ELSE count
<1>1. Settled = Held(buf, r, n) /\ Settled' = Held(buf', r', n')
  BY DEF Settled, Held
<1>2. (put' <=> put) /\ (push' <=> push)
  BY DEF Adding, Pushing
<1> HIDE DEF put, push
<1>3. r' = r
  BY <1>2 DEF Moved
<1>4. n' = n
  BY <1>2 DEF Moved, Taking
<1> HIDE DEF r, n
<1> QED BY <1>1, <1>3, <1>4

\* Most steps only look at the ring.
Looks ==
  /\ UNCHANGED <<buf, rd, count, written>> /\ UNCHANGED out
  /\ \A c \in Callers : (Adding(c)' <=> Adding(c)) /\ (Pushing(c)' <=> Pushing(c))
  /\ (Moved' <=> Moved) /\ (Taking' <=> Taking)

\* A task outside its stores.
LEMMA TaskLooks ==
  ASSUME IInv, RingCounted, NEW c \in Callers,
         \/ Take(c) \/ LoadCount(c) \/ LoadRd(c) \/ Give(c) \/ Schedule(c) \/ QueueWork(c)
         \/ (\E d \in Mounts : Mount(c, d)) \/ Umount(c) \/ Suspend(c) \/ Resume(c)
  PROVE  Looks /\ RingCounted'
<1> USE FileUartAssumption
    DEF IInv, Mutex, Amounts, TypeOK, At, Go, Load, ring, file, caller, flusher, Amount,
        Adding, Pushing, Moved, Taking, Quiet
<1> DEFINE Same == /\ UNCHANGED <<buf, rd, wt, count, fpc, written, reg, out>>
                   /\ \A d \in Callers \ {c} : pc'[d] = pc[d] /\ old'[d] = old[d]
<1>1. ASSUME Same, pc[c] \notin {"load", "count", "loadrd", "rd"},
             pc'[c] \notin {"load", "count", "loadrd", "rd"},
             pc'[c] = "byte" => old'[c] = wt
      PROVE  Looks /\ RingCounted'
  BY <1>1 DEF Looks, RingCounted
<1>2. ASSUME Take(c) PROVE Looks /\ RingCounted'
  BY <1>1, <1>2 DEF Take
<1>3. ASSUME LoadCount(c) PROVE Looks /\ RingCounted'
  BY <1>3 DEF LoadCount, Looks, RingCounted
<1>4. ASSUME LoadRd(c) PROVE Looks /\ RingCounted'
  BY <1>4 DEF LoadRd, Looks, RingCounted
<1>5. ASSUME Give(c) \/ Schedule(c) \/ QueueWork(c) PROVE Looks /\ RingCounted'
  BY <1>1, <1>5 DEF Give, Schedule, QueueWork
<1>6. ASSUME \/ \E d \in Mounts : Mount(c, d)
             \/ Umount(c) \/ Suspend(c) \/ Resume(c)
      PROVE  Looks /\ RingCounted'
  BY <1>1, <1>6 DEF Mount, Umount, Suspend, Resume
<1> QED BY <1>2, <1>3, <1>4, <1>5, <1>6

\* The flush outside its stores and the write.
LEMMA FlushLooks ==
  ASSUME IInv, RingCounted,
         \/ Start \/ FlushTake \/ FlushOpen \/ FlushChunk \/ FlushWriteFails
         \/ FlushLoadRd \/ FlushLoadCount \/ FlushSync \/ FlushGive \/ FlushSchedule \/ FlushQueue
  PROVE  Looks /\ RingCounted'
<1> USE DEF ring, file, caller, flusher, Adding, Pushing, Moved, Taking, Quiet, Looks, RingCounted
<1>1. ASSUME Start \/ FlushTake \/ FlushOpen \/ FlushChunk PROVE Looks /\ RingCounted'
  BY <1>1 DEF Start, FlushTake, FlushOpen, FlushChunk
<1>2. ASSUME FlushWriteFails \/ FlushLoadRd \/ FlushLoadCount PROVE Looks /\ RingCounted'
  BY <1>2 DEF FlushWriteFails, FlushLoadRd, FlushLoadCount
<1>3. ASSUME FlushSync \/ FlushGive \/ FlushSchedule \/ FlushQueue PROVE Looks /\ RingCounted'
  BY <1>3 DEF FlushSync, FlushGive, FlushSchedule, FlushQueue
<1> QED BY <1>1, <1>2, <1>3

\* A task counts its byte, or gives the oldest up, as was told already.
LEMMA TaskCounts ==
  ASSUME IInv, IInv', RingCounted, NEW c \in Callers, StoreCount(c) \/ StoreRd(c)
  PROVE  RingCounted' /\ Settled' = Settled /\ UNCHANGED out
<1> USE FileUartAssumption DEF At, Go, ring, file, caller, flusher
<1>0. TypeOK /\ Mutex /\ Amounts /\ Mutex' /\ Through /\ Through'
  BY IInvSettled, IInvSettledNext DEF IInv
<1>1. CASE StoreCount(c)
  <2>1. /\ pc[c] = "count" /\ old[c] = count /\ count < TxBufSize /\ count' = count + 1
        /\ UNCHANGED <<buf, rd, wt, written, fpc, reg, out, old>> /\ pc' = [pc EXCEPT ![c] = "give"]
    BY <1>0, <1>1 DEF StoreCount, RingCounted, Amounts
  <2>2. Adding(c) /\ ~Moved /\ ~Taking /\ \A d \in Callers : d # c => ~Adding(d) /\ ~Pushing(d)
    BY <1>0, <2>1, OneInRing DEF Adding
  <2>3. pc'[c] = "give" /\ \A d \in Callers : d # c => pc'[d] \notin {"byte", "load", "count", "loadrd", "rd", "give"}
    BY <1>0, <2>1 DEF TypeOK, Mutex
  <2>4. Quiet' /\ ~Moved' /\ ~Taking'
    BY <2>1, <2>2, <2>3 DEF Quiet, Adding, Pushing, Moved, Taking
  <2>5. Settled = Held(buf, rd, count + 1) /\ Settled' = Held(buf', rd', count')
    BY <1>0, <2>2, <2>4 DEF Through
  <2>6. wt' = After(rd', count')
    BY <2>1, <2>2 DEF RingCounted
  <2>7. RingCounted'
    BY <2>1, <2>3, <2>4, <2>6 DEF RingCounted, Quiet, Taking, Moved
  <2> QED BY <2>1, <2>5, <2>7
<1>2. CASE StoreRd(c)
  <2>1. /\ pc[c] = "rd" /\ old[c] = rd /\ rd' = After(rd, 1)
        /\ UNCHANGED <<buf, count, wt, written, fpc, reg, out, old>> /\ pc' = [pc EXCEPT ![c] = "give"]
    BY <1>2 DEF StoreRd, RingCounted
  <2>2. Pushing(c) /\ ~Moved /\ ~Taking /\ \A d \in Callers : d # c => ~Adding(d) /\ ~Pushing(d)
    BY <1>0, <2>1, OneInRing DEF Pushing
  <2>3. pc'[c] = "give" /\ \A d \in Callers : d # c => pc'[d] \notin {"byte", "load", "count", "loadrd", "rd", "give"}
    BY <1>0, <2>1 DEF TypeOK, Mutex
  <2>4. Quiet' /\ ~Moved' /\ ~Taking'
    BY <2>1, <2>2, <2>3 DEF Quiet, Adding, Pushing, Moved, Taking
  <2>5. Settled = Held(buf, After(rd, 1), count) /\ Settled' = Held(buf', rd', count')
    BY <1>0, <2>2, <2>4 DEF Through
  <2>6. wt' = After(rd', count')
    <3>1. rd \in Index /\ 1 \in Amount
      BY <1>0 DEF TypeOK, Amount
    <3>2. rd' \in Index /\ count' = TxBufSize /\ wt' = rd'
      BY <2>1, <2>2, <3>1, Moving DEF RingCounted
    <3> QED BY <3>2, Moving
  <2>7. RingCounted'
    BY <2>1, <2>3, <2>4, <2>6 DEF RingCounted, Quiet, Taking, Moved
  <2> QED BY <2>1, <2>5, <2>7
<1> QED BY <1>1, <1>2

\* A task stores its byte: it is the last one held, and if there was no room the first
\* one is gone.
LEMMA TaskPuts ==
  ASSUME IInv, IInv', RingCounted, NEW c \in Callers, StoreByte(c)
  PROVE  /\ RingCounted' /\ UNCHANGED out
         /\ \E b \in Bytes :
              Settled' = Append(IF Len(Settled) = TxBufSize THEN Tail(Settled) ELSE Settled, b)
<1> USE FileUartAssumption DEF At, Go, ring, file, caller, flusher
<1>0. TypeOK /\ Mutex /\ Amounts /\ Mutex' /\ Amounts' /\ TypeOK' /\ Through /\ Through'
  BY IInvSettled, IInvSettledNext DEF IInv
<1>1. /\ pc[c] = "byte" /\ old[c] = wt /\ wt' = After(wt, 1)
      /\ UNCHANGED <<count, rd, written, fpc, reg, out, old>> /\ pc' = [pc EXCEPT ![c] = "load"]
  BY DEF StoreByte, RingCounted
<1>2. PICK b \in Bytes : buf' = With(buf, wt, b)
  BY <1>1 DEF StoreByte, With
<1>3. /\ pc'[c] = "load"
      /\ \A d \in Callers : d # c =>
           pc[d] \notin {"byte", "load", "count", "loadrd", "rd"} /\ pc'[d] = pc[d]
      /\ ~Moved /\ ~Taking /\ ~Moved' /\ ~Taking'
  BY <1>0, <1>1 DEF TypeOK, Mutex, Moved, Taking
<1>4. Quiet
  BY <1>1, <1>3 DEF Quiet, Adding, Pushing
<1>5. Settled = Held(buf, rd, count) /\ wt = After(rd, count)
  BY <1>0, <1>3, <1>4 DEF Through, RingCounted
<1>6. rd \in Index /\ count \in Amount /\ buf \in Rings /\ 1 \in Amount
  BY <1>0 DEF TypeOK, Rings, Amount
<1>7. Len(Settled) = count
  BY <1>5, <1>6, HeldSeq
<1>8. CASE count < TxBufSize
  <2>1. Adding(c)' /\ ~Pushing(c)'
    BY <1>1, <1>3, <1>8 DEF Adding, Pushing
  <2>2. wt' = After(rd', count' + 1)
    <3>1. count + 1 <= TxBufSize
      BY <1>6, <1>8 DEF Amount
    <3>2. After(After(rd, count), 1) = After(rd, count + 1)
      BY <1>6, <3>1, Moving
    <3> QED BY <1>1, <1>5, <3>2
  <2>3. RingCounted'
    BY <1>1, <1>3, <2>1, <2>2 DEF RingCounted, Quiet, Adding, Pushing, Taking
  <2>4. Settled' = Held(buf', rd', count' + 1)
    BY <1>0, <2>1 DEF Through
  <2>5. Settled' = Append(Settled, b)
    BY <1>1, <1>2, <1>5, <1>6, <1>8, <2>4, HeldPut
  <2>6. Len(Settled) # TxBufSize
    BY <1>6, <1>7, <1>8 DEF Amount
  <2> QED BY <1>1, <2>3, <2>5, <2>6
<1>9. CASE count = TxBufSize
  <2>1. Pushing(c)' /\ ~Adding(c)'
    BY <1>1, <1>3, <1>9 DEF Adding, Pushing
  <2>2. wt = rd /\ wt' = After(rd', 1)
    BY <1>1, <1>5, <1>6, <1>9, Moving
  <2>3. RingCounted'
    BY <1>1, <1>3, <1>9, <2>1, <2>2 DEF RingCounted, Quiet, Adding, Pushing, Taking
  <2>4. Settled' = Held(buf', After(rd', 1), count')
    BY <1>0, <2>1 DEF Through
  <2>5. Settled' = Append(Tail(Settled), b)
    BY <1>1, <1>2, <1>5, <1>6, <1>9, <2>2, <2>4, HeldPush
  <2> QED BY <1>1, <1>7, <1>9, <2>3, <2>5
<1> QED BY <1>6, <1>8, <1>9 DEF Amount

\* The flush moves tx_rd and takes what was written off tx_count, as was told already.
LEMMA FlushCounts ==
  ASSUME IInv, IInv', RingCounted, FlushStoreRd \/ FlushStoreCount
  PROVE  RingCounted' /\ Settled' = Settled /\ UNCHANGED out
<1> USE FileUartAssumption DEF ring, file, caller, flusher
<1>0. TypeOK /\ Mutex /\ Amounts /\ TypeOK' /\ Mutex' /\ Through /\ Through'
  BY IInvSettled, IInvSettledNext DEF IInv
<1>1. /\ UNCHANGED <<pc, old, buf, wt>> /\ UNCHANGED out
      /\ \A c \in Callers : pc[c] \notin {"byte", "load", "count", "loadrd", "rd", "give"}
  BY <1>0 DEF FlushStoreRd, FlushStoreCount, Mutex
<1>2. Quiet /\ Quiet'
  BY <1>1 DEF Quiet, Adding, Pushing
<1>3. rd \in Index /\ count \in Amount /\ written \in Amount
  BY <1>0 DEF TypeOK
<1>4. CASE FlushStoreRd
  <2>1. /\ fpc = "rd" /\ fpc' = "load" /\ UNCHANGED <<count, written>> /\ written <= count
        /\ rd' = After(rd, written)
    BY <1>0, <1>3, <1>4 DEF FlushStoreRd, RingCounted, Amounts, TypeOK, Amount
  <2>2. Settled = Held(buf, After(rd, written), count - written)
    BY <1>0, <1>2, <2>1 DEF Through, Moved
  <2>3. Settled' = Held(buf', rd', count' - written')
    BY <1>0, <1>2, <2>1 DEF Through, Taking
  <2>4. wt' = After(rd', count' - written')
    <3>1. PICK rest \in Amount : rest = count - written /\ written + rest = count
      <4>1. count - written \in Amount /\ written + (count - written) = count
        BY <1>3, <2>1 DEF Amount
      <4> QED BY <4>1
    <3>2. written + rest <= TxBufSize
      BY <1>3, <3>1 DEF Amount
    <3>3. After(After(rd, written), rest) = After(rd, written + rest)
      BY <1>3, <3>2, Moving
    <3>4. wt = After(rd, count)
      BY <1>2, <2>1 DEF RingCounted, Taking
    <3> QED BY <1>1, <2>1, <3>1, <3>3, <3>4
  <2>5. RingCounted'
    BY <1>1, <1>2, <2>1, <2>4 DEF RingCounted, Quiet, Taking
  <2> QED BY <1>1, <2>1, <2>2, <2>3, <2>5
<1>5. CASE FlushStoreCount
  <2>1. /\ fpc = "count" /\ fpc' \in {"sync", "chunk"} /\ UNCHANGED rd
        /\ count' = count - written
    BY <1>5 DEF FlushStoreCount, RingCounted
  <2>2. Settled = Held(buf, rd, count - written)
    BY <1>0, <1>2, <2>1 DEF Through, Taking
  <2>3. Settled' = Held(buf', rd', count')
    BY <1>0, <1>2, <2>1 DEF Through, Taking, Moved
  <2>4. wt' = After(rd', count')
    BY <1>1, <2>1 DEF RingCounted, Taking
  <2>5. RingCounted'
    BY <1>1, <1>2, <2>1, <2>4 DEF RingCounted, Quiet, Taking
  <2> QED BY <1>1, <2>1, <2>2, <2>3, <2>5
<1> QED BY <1>4, <1>5

\* The first of the bytes held are written, and the others stay.
LEMMA FlushWrites ==
  ASSUME IInv, IInv', RingCounted, FlushWrite
  PROVE  /\ RingCounted'
         /\ \E k \in 1..Len(Settled) :
              /\ out' = SubSeq(Settled, 1, k)
              /\ Settled' = SubSeq(Settled, k + 1, Len(Settled))
<1> USE FileUartAssumption DEF ring, file, caller, flusher
<1>0. TypeOK /\ Mutex /\ Amounts /\ TypeOK' /\ Through /\ Through'
  BY IInvSettled, IInvSettledNext DEF IInv
<1>1. /\ fpc = "write" /\ fpc' = "loadrd" /\ UNCHANGED <<buf, rd, wt, count, pc, old>>
      /\ \A c \in Callers : pc[c] \notin {"byte", "load", "count", "loadrd", "rd", "give"}
  BY <1>0 DEF FlushWrite, Mutex
<1>2. Quiet /\ Quiet' /\ ~Moved /\ ~Taking /\ Moved' /\ ~Taking'
  BY <1>1 DEF Quiet, Adding, Pushing, Moved, Taking
<1>3. rd \in Index /\ count \in Amount /\ buf \in Rings
  BY <1>0 DEF TypeOK, Rings
<1>4. PICK k \in 1..chunk : written' = k /\ out' = [i \in 1..k |-> buf[After(rd, i - 1)]]
  BY DEF FlushWrite
<1>5. k \in Nat /\ 1 <= k /\ k <= count
  BY <1>0, <1>1, <1>3 DEF TypeOK, Amounts, Amount
<1>6. out' = Held(buf, rd, k)
  BY <1>4 DEF Held
<1>7. Settled = Held(buf, rd, count) /\ Settled' = Held(buf, After(rd, k), count - k)
  <2>1. Settled' = Held(buf', After(rd', written'), count' - written')
    BY <1>0, <1>2 DEF Through
  <2> QED BY <1>0, <1>1, <1>2, <1>4, <2>1 DEF Through
<1>8. Len(Settled) = count
  BY <1>3, <1>7, HeldSeq
<1>9. out' = SubSeq(Settled, 1, k) /\ Settled' = SubSeq(Settled, k + 1, count)
  BY <1>3, <1>5, <1>6, <1>7, HeldFirst, HeldRest
<1>10. k \in 1..Len(Settled)
  BY <1>3, <1>5, <1>8 DEF Amount
<1>11. RingCounted'
  BY <1>1, <1>2 DEF RingCounted, Quiet, Adding, Pushing
<1> QED BY <1>8, <1>9, <1>10, <1>11

RingInv == noisy = FALSE => RingCounted

\* Storing a byte is the log's Put, the write is its Write, and no other step is seen.
LEMMA StepImplementsLog ==
  ASSUME IInv, IInv', RingInv, Next
  PROVE  /\ RingInv'
         /\ [Log!Next]_<<IF noisy THEN <<>> ELSE Settled, IF noisy THEN <<>> ELSE out>>
<1>0. noisy' = noisy /\ noisy \in BOOLEAN
  BY DEF Next, IInv, TypeOK
<1>1. CASE noisy = TRUE
  BY <1>0, <1>1 DEF RingInv
<1>2. CASE noisy = FALSE
  <2> DEFINE Shown == \/ UNCHANGED <<Settled, out>>
                      \/ /\ \E b \in Bytes :
                              Settled' = Append(IF Len(Settled) = TxBufSize
                                                THEN Tail(Settled) ELSE Settled, b)
                         /\ UNCHANGED out
                      \/ \E k \in 1..Len(Settled) :
                           /\ out' = SubSeq(Settled, 1, k)
                           /\ Settled' = SubSeq(Settled, k + 1, Len(Settled))
  <2>1. RingCounted
    BY <1>2 DEF RingInv
  <2>2. ASSUME Looks, RingCounted' PROVE RingCounted' /\ Shown
    BY <2>2, SettledSame DEF Looks
  <2>3. ASSUME NEW c \in Callers,
               \/ Take(c) \/ WriteStep(c)
               \/ \E d \in Mounts : Mount(c, d)
               \/ Umount(c) \/ Suspend(c) \/ Resume(c)
        PROVE  RingCounted' /\ Shown
    <3>1. CASE StoreByte(c)
      <4>1. /\ RingCounted' /\ UNCHANGED out
            /\ \E b \in Bytes :
                 Settled' = Append(IF Len(Settled) = TxBufSize THEN Tail(Settled)
                                   ELSE Settled, b)
        BY <2>1, <3>1, TaskPuts
      <4> QED BY <4>1
    <3>2. CASE StoreCount(c) \/ StoreRd(c)
      <4>1. RingCounted' /\ Settled' = Settled /\ UNCHANGED out
        BY <2>1, <3>2, TaskCounts
      <4> QED BY <4>1
    <3>3. CASE \/ Take(c) \/ LoadCount(c) \/ LoadRd(c) \/ Give(c) \/ Schedule(c)
               \/ QueueWork(c) \/ (\E d \in Mounts : Mount(c, d)) \/ Umount(c)
               \/ Suspend(c) \/ Resume(c)
      <4>1. Looks /\ RingCounted'
        BY <2>1, <3>3, TaskLooks
      <4> QED BY <2>2, <4>1
    <3> QED BY <2>3, <3>1, <3>2, <3>3 DEF WriteStep
  <2>4. ASSUME FlushTake \/ FlushStep PROVE RingCounted' /\ Shown
    <3>1. CASE FlushStoreRd \/ FlushStoreCount
      <4>1. RingCounted' /\ Settled' = Settled /\ UNCHANGED out
        BY <2>1, <3>1, FlushCounts
      <4> QED BY <4>1
    <3>2. CASE FlushWrite
      <4>1. /\ RingCounted'
            /\ \E k \in 1..Len(Settled) :
                 /\ out' = SubSeq(Settled, 1, k)
                 /\ Settled' = SubSeq(Settled, k + 1, Len(Settled))
        BY <2>1, <3>2, FlushWrites
      <4> QED BY <4>1
    <3>3. CASE \/ Start \/ FlushTake \/ FlushOpen \/ FlushChunk \/ FlushWriteFails
               \/ FlushLoadRd \/ FlushLoadCount \/ FlushSync \/ FlushGive
               \/ FlushSchedule \/ FlushQueue
      <4>1. Looks /\ RingCounted'
        BY <2>1, <3>3, FlushLooks
      <4> QED BY <2>2, <4>1
    <3> QED BY <2>4, <3>1, <3>2, <3>3 DEF FlushStep
  <2>5. ~IsrWrite
    BY <1>2 DEF IsrWrite
  <2>6. RingCounted' /\ Shown
    BY <2>3, <2>4, <2>5 DEF Next
  <2>7. /\ (IF noisy THEN <<>> ELSE Settled) = Settled
        /\ (IF noisy' THEN <<>> ELSE Settled') = Settled'
        /\ (IF noisy THEN <<>> ELSE out) = out
        /\ (IF noisy' THEN <<>> ELSE out') = out'
    BY <1>0, <1>2
  <2> HIDE DEF Shown
  <2>8. RingInv'
    BY <2>6 DEF RingInv
  <2>9. [Log!Next]_<<IF noisy THEN <<>> ELSE Settled, IF noisy THEN <<>> ELSE out>>
    BY <2>6, <2>7 DEF Shown, Log!Next, Log!Put, Log!Write
  <2> QED BY <2>8, <2>9
<1> QED BY <1>0, <1>1, <1>2

\* While no handler writes, what reaches the file is what the tasks wrote, in order and
\* once, for any size of the ring: a byte is lost only when there is no room, and it is
\* the oldest; a short write, an error or a suspension loses none
\* (fileuart.c:90-150, 205-217).
THEOREM SpecImplementsLog == Spec => ImplementsLog
<1>1. Init => RingInv /\ Log!Init
  <2> SUFFICES ASSUME Init PROVE RingCounted /\ Settled = <<>> /\ out = <<>>
    BY DEF RingInv, Log!Init
  <2>1. TypeOK /\ Mutex /\ Amounts
    BY FileUartAssumption DEF Init, TypeOK, Mutex, Amounts, Index, Amount
  <2>2. Quiet /\ ~Moved /\ ~Taking
    BY DEF Init, Quiet, Adding, Pushing, Moved, Taking
  <2>3. rd \in Index /\ count = 0 /\ count \in Amount /\ buf \in Rings /\ wt = rd
    BY <2>1 DEF Init, TypeOK, Rings
  <2>4. Settled = <<>>
    <3>1. Settled = Held(buf, rd, count)
      BY <2>1, <2>2, SettledIs DEF Through
    <3>2. Settled \in Seq(Bytes) /\ Len(Settled) = 0
      BY <2>3, <3>1, HeldSeq
    <3> QED BY <3>2, EmptySeq
  <2>5. RingCounted
    BY <2>2, <2>3, Moving DEF Init, RingCounted, Quiet
  <2> QED BY <2>4, <2>5 DEF Init
<1>2. /\ IInv /\ IInv' /\ RingInv /\ [Next]_vars => RingInv'
      /\ IInv /\ IInv' /\ RingInv /\ [Next]_vars =>
           [Log!Next]_<<IF noisy THEN <<>> ELSE Settled, IF noisy THEN <<>> ELSE out>>
  <2>1. ASSUME UNCHANGED vars
        PROVE  /\ RingInv => RingInv'
               /\ UNCHANGED <<IF noisy THEN <<>> ELSE Settled, IF noisy THEN <<>> ELSE out>>
    BY <2>1 DEF vars, log, ring, caller, flusher, RingInv, RingCounted, Quiet, Adding,
                Pushing, Taking, Settled
  <2> QED BY <2>1, StepImplementsLog
<1>3. Spec => []RingInv
  BY <1>1, <1>2, SpecIInv, PTL DEF Spec
<1> QED
  BY <1>1, <1>2, <1>3, SpecIInv, PTL DEF Spec, ImplementsLog, Log!Spec
=============================================================================
