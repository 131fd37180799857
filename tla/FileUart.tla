------------------------------ MODULE FileUart ------------------------------
(***************************************************************************)
(* The log file of drivers/fileuart/fileuart.c: a byte ring filled by      *)
(* tasks under a mutex and by interrupt handlers without it, and emptied   *)
(* into a file by a work on the low-priority queue, while the file system  *)
(* under it is mounted, unmounted and suspended.                           *)
(*                                                                         *)
(* The code under the mutex is split where an interrupt can tell: at its   *)
(* loads and stores of the ring's indices, those that size a chunk taken   *)
(* together.  A write is of one byte; fileuart_enqueue repeats it.         *)
(***************************************************************************)
EXTENDS Naturals, Sequences

CONSTANTS
  TxBufSize,     \* CONFIG_FILEUART_TX_BUF_SIZE
  SyncBytes,     \* FILEUART_SYNC_INTERVAL_BYTES
  Bytes,         \* what is written
  Callers,       \* tasks that call write, the mount notifier and suspend
  Mounts,        \* names of mounts
  MaxDepth,      \* bound on suspend_depth
  NULL

Worker == "worker"

ASSUME FileUartAssumption ==
  /\ TxBufSize \in Nat \ {0} /\ SyncBytes \in Nat \ {0} /\ MaxDepth \in Nat
  /\ NULL \notin Mounts /\ NULL \notin Callers /\ Worker \notin Callers \cup {NULL}

VARIABLES
  buf, rd, wt, count,    \* tx_buf, tx_rd, tx_wt, tx_count
  dirty,                 \* dirty_bytes, up to SyncBytes
  fd,                    \* the mount the log is open on, NULL when closed
  devname,               \* NULL when empty
  depth,                 \* suspend_depth
  queued,                \* the work is on the work queue
  sem,                   \* the task that has the mutex, NULL when free
  pc, old,               \* where a caller is, and the index it loaded
  fpc,                   \* where the work's callback is, "off" when not running
  chunk, written, reg,   \* its locals, and the index it loaded
  out,                   \* history: the bytes last written to the file
  noisy                  \* interrupt handlers write too; fixed from the start

ring == <<buf, rd, wt, count>>
file == <<dirty, fd, devname, depth>>
caller == <<pc, old>>
flusher == <<fpc, chunk, written, reg, out>>
log == <<ring, file, queued, sem, caller, flusher>>
vars == <<log, noisy>>

Index == 0..(TxBufSize - 1)
Amount == 0..TxBufSize

TypeOK ==
  /\ buf \in [Index -> Bytes] /\ rd \in Index /\ wt \in Index /\ count \in Amount
  /\ dirty \in 0..SyncBytes
  /\ fd \in Mounts \cup {NULL} /\ devname \in Mounts \cup {NULL}
  /\ depth \in 0..MaxDepth
  /\ queued \in BOOLEAN
  /\ sem \in Callers \cup {Worker, NULL}
  /\ pc \in [Callers -> {"idle", "byte", "load", "count", "loadrd", "rd", "give",
                         "sched", "queue"}]
  /\ old \in [Callers -> Amount]
  /\ fpc \in {"off", "take", "open", "chunk", "write", "loadrd", "rd", "load",
              "count", "sync", "give", "sched", "queue"}
  /\ chunk \in Amount /\ written \in Amount /\ reg \in Amount
  /\ out \in Seq(Bytes)
  /\ noisy \in BOOLEAN

Init ==
  /\ \E b \in Bytes : buf = [i \in Index |-> b]
  /\ rd = 0 /\ wt = 0 /\ count = 0
  /\ dirty = 0 /\ fd = NULL /\ devname = NULL /\ depth = 0
  /\ queued = FALSE /\ sem = NULL
  /\ pc = [c \in Callers |-> "idle"] /\ old = [c \in Callers |-> 0]
  /\ fpc = "off" /\ chunk = 0 /\ written = 0 /\ reg = 0 /\ out = <<>>
  /\ noisy \in BOOLEAN

At(c, place) == pc[c] = place
Go(c, place) == pc' = [pc EXCEPT ![c] = place]
Load(c, n) == old' = [old EXCEPT ![c] = n]

After(i, n) == (i + n) % TxBufSize

\* fileuart_schedule_flush queues the work; the test is not atomic with it.
WouldQueue == depth = 0 /\ devname # NULL /\ ~queued

-----------------------------------------------------------------------------
(* fileuart_write in a task.                                               *)

Take(c) ==
  /\ At(c, "idle") /\ sem = NULL
  /\ sem' = c
  /\ Load(c, wt)
  /\ Go(c, "byte")
  /\ UNCHANGED <<ring, file, queued, flusher>>

\* fileuart_enqueue_byte: the byte stored and tx_wt moved,
StoreByte(c) ==
  /\ At(c, "byte")
  /\ \E b \in Bytes : buf' = [buf EXCEPT ![old[c]] = b]
  /\ wt' = After(old[c], 1)
  /\ Go(c, "load")
  /\ UNCHANGED <<rd, count, file, queued, sem, old, flusher>>

LoadCount(c) ==
  /\ At(c, "load")
  /\ Load(c, count)
  /\ Go(c, IF count < TxBufSize THEN "count" ELSE "loadrd")
  /\ UNCHANGED <<ring, file, queued, sem, flusher>>

\* one byte more,
StoreCount(c) ==
  /\ At(c, "count")
  /\ count' = old[c] + 1
  /\ Go(c, "give")
  /\ UNCHANGED <<buf, rd, wt, file, queued, sem, old, flusher>>

\* or, full, the oldest byte given up.
LoadRd(c) ==
  /\ At(c, "loadrd")
  /\ Load(c, rd)
  /\ Go(c, "rd")
  /\ UNCHANGED <<ring, file, queued, sem, flusher>>

StoreRd(c) ==
  /\ At(c, "rd")
  /\ rd' = After(old[c], 1)
  /\ Go(c, "give")
  /\ UNCHANGED <<buf, wt, count, file, queued, sem, old, flusher>>

Give(c) ==
  /\ At(c, "give")
  /\ sem' = NULL
  /\ Load(c, 0)
  /\ Go(c, "sched")
  /\ UNCHANGED <<ring, file, queued, flusher>>

\* fileuart_schedule_flush, outside the mutex.
Schedule(c) ==
  /\ At(c, "sched")
  /\ Go(c, IF WouldQueue THEN "queue" ELSE "idle")
  /\ UNCHANGED <<ring, file, queued, sem, old, flusher>>

QueueWork(c) ==
  /\ At(c, "queue")
  /\ queued' = TRUE
  /\ Go(c, "idle")
  /\ UNCHANGED <<ring, file, sem, old, flusher>>

\* fileuart_write in an interrupt handler: the same without the mutex, and all
\* at once for the tasks.
IsrWrite ==
  /\ noisy
  /\ \E b \in Bytes : buf' = [buf EXCEPT ![wt] = b]
  /\ wt' = After(wt, 1)
  /\ IF count < TxBufSize
     THEN count' = count + 1 /\ UNCHANGED rd
     ELSE rd' = After(rd, 1) /\ UNCHANGED count
  /\ queued' = (queued \/ WouldQueue)
  /\ UNCHANGED <<file, sem, caller, flusher>>

-----------------------------------------------------------------------------
(* fileuart_delayed_work on the worker thread of the low-priority queue.   *)

Start ==
  /\ fpc = "off" /\ queued
  /\ queued' = FALSE
  /\ fpc' = "take"
  /\ UNCHANGED <<ring, file, sem, caller, chunk, written, reg, out>>

\* The mutex taken; nothing to do while suspended or empty.
FlushTake ==
  /\ fpc = "take" /\ sem = NULL
  /\ sem' = Worker
  /\ fpc' = IF depth = 0 /\ count > 0 THEN "open" ELSE "give"
  /\ UNCHANGED <<ring, file, queued, caller, chunk, written, reg, out>>

\* fileuart_open_mounted_log_locked; the open may fail.
FlushOpen ==
  /\ fpc = "open"
  /\ \/ fd # NULL /\ fpc' = "chunk" /\ UNCHANGED <<fd, dirty>>
     \/ fd = NULL /\ devname # NULL /\ fd' = devname /\ dirty' = 0 /\ fpc' = "chunk"
     \/ fd = NULL /\ fpc' = "give" /\ UNCHANGED <<fd, dirty>>
  /\ UNCHANGED <<ring, devname, depth, queued, sem, caller, chunk, written, reg, out>>

Least(m, n) == IF m < n THEN m ELSE n

\* Fault: the piece is not capped by tx_count.
PieceUncapped == IF rd < wt THEN wt - rd ELSE TxBufSize - rd

\* What lies in one piece from tx_rd.
PieceAtRd == Least(IF rd < wt THEN wt - rd ELSE TxBufSize - rd, count)

FlushChunk ==
  /\ fpc = "chunk"
  /\ IF count > 0
     THEN chunk' = PieceAtRd /\ fpc' = "write"
     ELSE fpc' = "sync" /\ UNCHANGED chunk
  /\ UNCHANGED <<ring, file, queued, sem, caller, written, reg, out>>

\* write(): the chunk or the first part of it.
FlushWrite ==
  /\ fpc = "write"
  /\ written' \in 1..chunk
  /\ out' = [i \in 1..written' |-> buf[After(rd, i - 1)]]
  /\ fpc' = "loadrd"
  /\ UNCHANGED <<ring, file, queued, sem, caller, chunk, reg>>

\* write() fails: the log is closed, to be opened again by the next flush.
FlushWriteFails ==
  /\ fpc = "write"
  /\ fd' = NULL /\ dirty' = 0
  /\ chunk' = 0
  /\ fpc' = "give"
  /\ UNCHANGED <<ring, devname, depth, queued, sem, caller, written, reg, out>>

FlushLoadRd ==
  /\ fpc = "loadrd"
  /\ reg' = rd
  /\ fpc' = "rd"
  /\ UNCHANGED <<ring, file, queued, sem, caller, chunk, written, out>>

\* Fault: the whole chunk taken for written.
FlushStoreRdChunk ==
  /\ fpc = "rd"
  /\ rd' = After(reg, chunk)
  /\ fpc' = "load"
  /\ UNCHANGED <<buf, wt, count, file, queued, sem, caller, chunk, written, reg, out>>

FlushStoreRd ==
  /\ fpc = "rd"
  /\ rd' = After(reg, written)
  /\ fpc' = "load"
  /\ UNCHANGED <<buf, wt, count, file, queued, sem, caller, chunk, written, reg, out>>

FlushLoadCount ==
  /\ fpc = "load"
  /\ reg' = count
  /\ fpc' = "count"
  /\ UNCHANGED <<ring, file, queued, sem, caller, chunk, written, out>>

\* After a short write the loop is left.
FlushStoreCount ==
  /\ fpc = "count"
  /\ count' = reg - written
  /\ dirty' = Least(dirty + written, SyncBytes)
  /\ fpc' = IF written < chunk THEN "sync" ELSE "chunk"
  /\ chunk' = 0 /\ written' = 0 /\ reg' = 0
  /\ UNCHANGED <<buf, rd, wt, fd, devname, depth, queued, sem, caller, out>>

\* fsync once enough was written; the log is closed if it fails.
FlushSync ==
  /\ fpc = "sync"
  /\ IF dirty >= SyncBytes THEN dirty' = 0 /\ fd' \in {fd, NULL}
                           ELSE UNCHANGED <<dirty, fd>>
  /\ fpc' = "give"
  /\ UNCHANGED <<ring, devname, depth, queued, sem, caller, chunk, written, reg, out>>

\* Fault: what is left waits for the next write.
FlushGiveUp ==
  /\ fpc = "give"
  /\ sem' = NULL
  /\ fpc' = "off"
  /\ UNCHANGED <<ring, file, queued, caller, chunk, written, reg, out>>

\* Again later if bytes are left, whatever the reason.
FlushGive ==
  /\ fpc = "give"
  /\ sem' = NULL
  /\ fpc' = IF depth = 0 /\ count > 0 /\ devname # NULL THEN "sched" ELSE "off"
  /\ UNCHANGED <<ring, file, queued, caller, chunk, written, reg, out>>

FlushSchedule ==
  /\ fpc = "sched"
  /\ fpc' = IF WouldQueue THEN "queue" ELSE "off"
  /\ UNCHANGED <<ring, file, queued, sem, caller, chunk, written, reg, out>>

FlushQueue ==
  /\ fpc = "queue"
  /\ queued' = TRUE
  /\ fpc' = "off"
  /\ UNCHANGED <<ring, file, sem, caller, chunk, written, reg, out>>

-----------------------------------------------------------------------------
(* Mounts and suspension, each under the mutex.                            *)

\* Fault: the log stays open on the mount it was on.
MountKeepsLog(c, d) ==
  /\ At(c, "idle") /\ sem = NULL
  /\ devname' = d
  /\ Go(c, "sched")
  /\ UNCHANGED <<ring, fd, dirty, depth, queued, sem, old, flusher>>

\* USB_MSC_NOTIFY_MOUNT: a log on another mount is closed.
Mount(c, d) ==
  /\ At(c, "idle") /\ sem = NULL
  /\ devname' = d
  /\ IF devname \notin {d, NULL} THEN fd' = NULL /\ dirty' = 0
                                 ELSE UNCHANGED <<fd, dirty>>
  /\ Go(c, "sched")
  /\ UNCHANGED <<ring, depth, queued, sem, old, flusher>>

\* USB_MSC_NOTIFY_UMOUNT of the mount the log is on.
Umount(c) ==
  /\ At(c, "idle") /\ sem = NULL
  /\ devname # NULL
  /\ fd' = NULL /\ dirty' = 0 /\ devname' = NULL
  /\ UNCHANGED <<ring, depth, queued, sem, caller, flusher>>

\* fileuart_set_storage_suspended(1)
Suspend(c) ==
  /\ At(c, "idle") /\ sem = NULL
  /\ depth < MaxDepth
  /\ depth' = depth + 1
  /\ fd' = NULL /\ dirty' = 0
  /\ UNCHANGED <<ring, devname, queued, sem, caller, flusher>>

\* Fault: nothing is scheduled on resume.
ResumeQuietly(c) ==
  /\ At(c, "idle") /\ sem = NULL
  /\ depth' = IF depth > 0 THEN depth - 1 ELSE 0
  /\ UNCHANGED <<ring, dirty, fd, devname, queued, sem, caller, flusher>>

\* fileuart_set_storage_suspended(0)
Resume(c) ==
  /\ At(c, "idle") /\ sem = NULL
  /\ depth' = IF depth > 0 THEN depth - 1 ELSE 0
  /\ IF depth' = 0 /\ count > 0 /\ devname # NULL THEN Go(c, "sched") ELSE UNCHANGED pc
  /\ UNCHANGED <<ring, dirty, fd, devname, queued, sem, old, flusher>>

-----------------------------------------------------------------------------

WriteStep(c) ==
  \/ StoreByte(c) \/ LoadCount(c) \/ StoreCount(c) \/ LoadRd(c) \/ StoreRd(c)
  \/ Give(c) \/ Schedule(c) \/ QueueWork(c)

FlushStep ==
  \/ Start \/ FlushOpen \/ FlushChunk \/ FlushWrite \/ FlushWriteFails
  \/ FlushLoadRd \/ FlushStoreRd \/ FlushLoadCount \/ FlushStoreCount
  \/ FlushSync \/ FlushGive \/ FlushSchedule \/ FlushQueue

Next ==
  /\ \/ \E c \in Callers :
          \/ Take(c) \/ WriteStep(c)
          \/ \E d \in Mounts : Mount(c, d)
          \/ Umount(c) \/ Suspend(c) \/ Resume(c)
     \/ IsrWrite
     \/ FlushTake \/ FlushStep
  /\ UNCHANGED noisy

Spec == Init /\ [][Next]_vars

\* Tasks go on, the low-priority queue runs what is queued, and the worker
\* gets the mutex although others take it again and again.
FairSpec ==
  /\ Spec
  /\ \A c \in Callers : WF_log(WriteStep(c))
  /\ WF_log(FlushStep) /\ SF_log(FlushTake)

-----------------------------------------------------------------------------
(* What the log is asked.                                                  *)

\* While the storage is suspended, or once its mount is gone or has been
\* replaced, the log is not open on it, so that it can be unmounted
\* (fileuart.c:75-88, 160-168, 187-193, 226-229).
ClosedWhenItMust == fd # NULL => fd = devname /\ depth = 0

\* Bytes that could be written are not forgotten: the work is queued, or some
\* task is still on its way to queue it, whatever was suspended, unmounted or
\* refused meanwhile (fileuart.c:152-158, 212-216, 233-238).
NotForgotten ==
  count > 0 /\ devname # NULL /\ depth = 0 =>
    \/ queued
    \/ fpc # "off"
    \/ \E c \in Callers : pc[c] \in {"give", "sched", "queue"}

\* A flush is tried for bytes that can be written.
FlushTried ==
  count > 0 /\ devname # NULL /\ depth = 0 ~>
    fpc \in {"open", "write"} \/ count = 0 \/ devname = NULL \/ depth > 0

\* The ring as it will be once the step under way is through.
Settled ==
  LET put == \E c \in Callers : pc[c] \in {"load", "count"} /\ count < TxBufSize
      push == \E c \in Callers :
                pc[c] \in {"loadrd", "rd"} \/ (pc[c] = "load" /\ count = TxBufSize)
      r == IF push THEN After(rd, 1)
           ELSE IF fpc \in {"loadrd", "rd"} THEN After(rd, written) ELSE rd
      n == IF put THEN count + 1
           ELSE IF fpc \in {"loadrd", "rd", "load", "count"} THEN count - written
           ELSE count
  IN  [i \in 1..n |-> buf[After(r, i - 1)]]

\* While no interrupt handler writes, the bytes reach the file in order, the
\* oldest lost when there is no room (fileuart.c:90-150, 205-217).
Log == INSTANCE ByteLog WITH Room <- TxBufSize,
                             pending <- IF noisy THEN <<>> ELSE Settled,
                             out <- IF noisy THEN <<>> ELSE out
ImplementsLog == Log!Spec
=============================================================================
