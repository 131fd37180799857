-------------------------------- MODULE Kshm --------------------------------
(***************************************************************************)
(* The kshm ring of drivers/kshm/kshm.c: one writer in kshm_write and one  *)
(* reader in kshm_read, two tasks that share the descriptor without a lock *)
(* and interleave between its loads and stores.  The buffer holds records  *)
(* that are never split: one that does not fit before the end is written   *)
(* at the base, and the reader skips the same bytes because it knows the   *)
(* size of the record it asks for: each record tells the size of the next  *)
(* one, and that is all that is kept of its contents.                      *)
(*                                                                         *)
(* cfg.size is Size, ROUNDUP(.., 32) rounds to Align, and the counters     *)
(* wt_times and rd_times, used modulo 2 only, are their parities.  Locals  *)
(* are 0 outside the call they belong to.                                  *)
(***************************************************************************)
EXTENDS Naturals, Sequences

CONSTANTS
  Size,     \* cfg.size
  Align,    \* 32
  Sizes,    \* the record sizes used
  First     \* the size of the first record, known to both sides

Roundup(s) == ((s + Align - 1) \div Align) * Align

ASSUME KshmAssumption ==
  /\ Size \in Nat /\ Align \in Nat \ {0}
  /\ Sizes \subseteq Nat \ {0} /\ First \in Sizes
  /\ \A s \in Sizes : Roundup(s) < Size

VARIABLES
  index, rd, wt, reserved,   \* the descriptor
  rdOdd, wtOdd,              \* rd_times % 2 and wt_times % 2
  mem,                       \* the buffer: the record each line belongs to
  wpc, wptr, wnext, wsize,   \* the writer: request, the record and its size
  rpc, ridx, rwt, rptr,      \* the reader: the locals index and wt, request
  rodd, rsize, got,          \* rd_times as loaded, the size, the record read
  unread,                    \* history: the records between rd and wt
  overtaken                  \* history: rd_times cleared while it was bumped

desc == <<index, rd, wt, reserved, rdOdd, wtOdd>>
writer == <<wpc, wptr, wnext, wsize>>
reader == <<rpc, ridx, rwt, rptr, rodd, rsize, got>>
vars == <<desc, mem, writer, reader, unread, overtaken>>

Offset == 0..(Size - 1)
Lines == 0..(Size \div Align - 1)
Side == {0, 1}

\* What is known of a record in the buffer: where it is, how long, and the
\* parity of wt_times its cache lines were flushed by.
Extent == [rec : Sizes, at : Offset, size : Sizes, odd : BOOLEAN]

TypeOK ==
  /\ index \in Side
  /\ rd \in [Side -> Offset] /\ wt \in [Side -> Offset]
  /\ reserved \in [Side -> 0..Size]
  /\ rdOdd \in BOOLEAN /\ wtOdd \in BOOLEAN
  /\ mem \in [Lines -> Sizes]
  /\ wpc \in {"idle", "clear", "flip", "times", "copy", "update"}
  /\ wptr \in Offset /\ wnext \in Sizes /\ wsize \in Sizes
  /\ rpc \in {"idle", "wt", "rd", "copy", "update", "load", "store"}
  /\ ridx \in Side /\ rwt \in Offset /\ rptr \in Offset
  /\ rodd \in BOOLEAN /\ rsize \in Sizes /\ got \in Sizes
  /\ unread \in Seq(Extent)
  /\ overtaken \in BOOLEAN

Init ==
  /\ index = 0
  /\ rd = [i \in Side |-> 0] /\ wt = [i \in Side |-> 0]
  /\ reserved = [i \in Side |-> 0]
  /\ rdOdd = FALSE /\ wtOdd = FALSE
  /\ mem = [a \in Lines |-> First] /\ wnext = First /\ got = First
  /\ wpc = "idle" /\ wptr = 0 /\ wsize = First
  /\ rpc = "idle" /\ ridx = 0 /\ rwt = 0 /\ rptr = 0 /\ rodd = FALSE
  /\ rsize = First
  /\ unread = <<>> /\ overtaken = FALSE

-----------------------------------------------------------------------------
(* Arithmetic shared by the two sides.                                     *)

\* Fault: the end of the buffer is not folded back to its base.
AdvanceUnfolded(p, s) == IF p + Roundup(s) > Size THEN Roundup(s) ELSE p + Roundup(s)

\* rd or wt moved past a record of s bytes.
Advance(p, s) ==
  LET end == p + Roundup(s)
  IN  IF end > Size THEN Roundup(s) ELSE IF end = Size THEN 0 ELSE end

\* Bytes one reads or writes without wrapping.
Avail(w, r) ==
  IF w >= r THEN w - r ELSE IF Size - r > w THEN Size - r ELSE w

TailRoom(w, r) == IF w >= r THEN Size - w ELSE r - w
HeadRoom(w, r) == IF w >= r THEN r ELSE 0

\* The lines of the buffer that s bytes at p take.
LinesOf(p, s) == (p \div Align)..((p + s - 1) \div Align)

-----------------------------------------------------------------------------
(* The writer: kshm_write.                                                 *)

\* Fault: the head may be filled up to the reader.
WriteAtToTheBrim(w, r, s) ==
  IF TailRoom(w, r) >= Roundup(s) THEN {w}
  ELSE IF HeadRoom(w, r) >= Roundup(s) THEN {0} ELSE {}

\* Fault: the head is never used, nor the tail when the record fills it.
WriteAtTailOnly(w, r, s) == IF TailRoom(w, r) > Roundup(s) THEN {w} ELSE {}

\* Where kshm_request_write puts s bytes, if anywhere.
WriteAt(w, r, s) ==
  LET tail == TailRoom(w, r)  head == HeadRoom(w, r)  n == Roundup(s)
  IN  IF tail > n \/ (tail = n /\ head > 0) THEN {w}
      ELSE IF head > n THEN {0} ELSE {}

\* Neither side has the room, with the reserve.
Short(w, r, s) ==
  LET need == reserved[index] + Roundup(s)
  IN  HeadRoom(w, r) < need /\ TailRoom(w, r) < need

\* kshm_request_write: a place, or an empty ring whose two parts are both too
\* short, which is abandoned for the other one.
RequestWrite ==
  /\ wpc = "idle"
  /\ LET w == wt[index]  r == rd[index] IN
       \/ /\ ~Short(w, r, wsize)
          /\ wptr' \in WriteAt(w, r, wsize)
          /\ wpc' = "copy"
       \/ /\ Short(w, r, wsize) /\ r = w
          /\ wptr' = 0
          /\ wpc' = "clear"
  /\ UNCHANGED <<desc, mem, wnext, wsize, reader, unread, overtaken>>

\* kshm_special_reset: the other ring emptied,
ResetClear ==
  /\ wpc = "clear"
  /\ rd' = [rd EXCEPT ![1 - index] = 0]
  /\ wt' = [wt EXCEPT ![1 - index] = 0]
  /\ reserved' = [reserved EXCEPT ![1 - index] = 0]
  /\ wpc' = "flip"
  /\ UNCHANGED <<index, rdOdd, wtOdd, mem, wptr, wnext, wsize, reader, unread,
                 overtaken>>

\* made the current one,
ResetFlip ==
  /\ wpc = "flip"
  /\ index' = 1 - index
  /\ wpc' = "times"
  /\ UNCHANGED <<rd, wt, reserved, rdOdd, wtOdd, mem, wptr, wnext, wsize, reader,
                 unread, overtaken>>

\* Fault: only the writer's counter is cleared.
ResetWriteTimes ==
  /\ wpc = "times"
  /\ wtOdd' = FALSE
  /\ overtaken' = (rpc \in {"load", "store"})
  /\ wpc' = "copy"
  /\ UNCHANGED <<index, rd, wt, reserved, rdOdd, mem, wptr, wnext, wsize, reader,
                 unread>>

\* and the counters cleared; then request_write sleeps 100 ms.
ResetTimes ==
  /\ wpc = "times"
  /\ rdOdd' = FALSE /\ wtOdd' = FALSE
  /\ overtaken' = (rpc \in {"load", "store"})
  /\ wpc' = "copy"
  /\ UNCHANGED <<index, rd, wt, reserved, mem, wptr, wnext, wsize, reader, unread>>

\* Fault: the record goes to wt, not to the place that was requested.
CopyInAtWt ==
  /\ wpc = "copy"
  /\ wnext' \in Sizes
  /\ mem' = [a \in Lines |->
               IF a \in LinesOf(wt[index], wsize) THEN wnext' ELSE mem[a]]
  /\ wpc' = "update"
  /\ UNCHANGED <<desc, wptr, wsize, reader, unread, overtaken>>

\* memcpy, or dma_copy and dma_wait; dma_copy is taken to find a channel.
CopyIn ==
  /\ wpc = "copy"
  /\ wnext' \in Sizes
  /\ mem' = [a \in Lines |-> IF a \in LinesOf(wptr, wsize) THEN wnext' ELSE mem[a]]
  /\ wpc' = "update"
  /\ UNCHANGED <<desc, wptr, wsize, reader, unread, overtaken>>

\* kshm_update_write: the record is there once wt is stored.
UpdateWrite ==
  /\ wpc = "update"
  /\ wt' = [wt EXCEPT ![index] = Advance(@, wsize)]
  /\ wtOdd' = ~wtOdd
  /\ unread' = Append(unread, [rec |-> wnext, at |-> wptr, size |-> wsize,
                               odd |-> wtOdd])
  /\ wsize' = wnext
  /\ wpc' = "idle" /\ wptr' = 0
  /\ UNCHANGED <<index, rd, reserved, rdOdd, mem, wnext, reader, overtaken>>

\* kshm_update_reserved, by the writer.
UpdateReserved ==
  /\ wpc = "idle"
  /\ \E s \in Sizes : reserved' = [reserved EXCEPT ![index] = Roundup(s)]
  /\ UNCHANGED <<index, rd, wt, rdOdd, wtOdd, mem, writer, reader, unread,
                 overtaken>>

-----------------------------------------------------------------------------
(* The reader: kshm_read.                                                  *)

\* kshm_request_read loads index,
RequestRead ==
  /\ rpc = "idle"
  /\ ridx' = index
  /\ rpc' = "wt"
  /\ UNCHANGED <<desc, mem, writer, rwt, rptr, rodd, rsize, got, unread, overtaken>>

\* wt,
LoadWt ==
  /\ rpc = "wt"
  /\ rwt' = wt[ridx]
  /\ rpc' = "rd"
  /\ UNCHANGED <<desc, mem, writer, ridx, rptr, rodd, rsize, got, unread, overtaken>>

\* and rd, and finds the record, or too few bytes.
LoadRd ==
  /\ rpc = "rd"
  /\ LET r == rd[ridx]  n == Roundup(rsize) IN
       IF Avail(rwt, r) < n
       THEN rpc' = "idle" /\ ridx' = 0 /\ UNCHANGED <<rptr, rodd>>
       ELSE /\ rptr' = IF r + n > Size THEN 0 ELSE r
            /\ rodd' = rdOdd
            /\ rpc' = "copy"
            /\ UNCHANGED ridx
  /\ rwt' = 0
  /\ UNCHANGED <<desc, mem, writer, rsize, got, unread, overtaken>>

\* memcpy; what is read says how long the next record is.
CopyOut ==
  /\ rpc = "copy"
  /\ got' = mem[rptr \div Align]
  /\ rpc' = "update"
  /\ UNCHANGED <<desc, mem, writer, ridx, rwt, rptr, rodd, rsize, unread, overtaken>>

\* kshm_update_read: the bytes are the writer's again once rd is stored,
UpdateRead ==
  /\ rpc = "update"
  /\ rd' = [rd EXCEPT ![index] = Advance(@, rsize)]
  /\ unread' = Tail(unread)
  /\ rsize' = got
  /\ rpc' = "load" /\ ridx' = 0 /\ rptr' = 0
  /\ UNCHANGED <<index, wt, reserved, rdOdd, wtOdd, mem, writer, rwt, rodd, got,
                 overtaken>>

\* then rd_times is loaded,
LoadTimes ==
  /\ rpc = "load"
  /\ rodd' = rdOdd
  /\ rpc' = "store"
  /\ UNCHANGED <<desc, mem, writer, ridx, rwt, rptr, rsize, got, unread, overtaken>>

\* and stored, one more.
StoreTimes ==
  /\ rpc = "store"
  /\ rdOdd' = ~rodd
  /\ rpc' = "idle" /\ rodd' = FALSE
  /\ UNCHANGED <<index, rd, wt, reserved, wtOdd, mem, writer, ridx, rwt, rptr,
                 rsize, got, unread, overtaken>>

-----------------------------------------------------------------------------

\* kshm_reset, with both sides stopped; they start again from the first record.
Reset ==
  /\ wpc = "idle" /\ rpc = "idle"
  /\ index' = 0
  /\ rd' = [i \in Side |-> 0] /\ wt' = [i \in Side |-> 0]
  /\ reserved' = [i \in Side |-> 0]
  /\ rdOdd' = FALSE /\ wtOdd' = FALSE
  /\ wsize' = First /\ rsize' = First
  /\ unread' = <<>> /\ overtaken' = FALSE
  /\ UNCHANGED <<mem, wpc, wptr, wnext, rpc, ridx, rwt, rptr, rodd, got>>

ResetStep == ResetClear \/ ResetFlip \/ ResetTimes

WriterStep == RequestWrite \/ ResetStep \/ CopyIn \/ UpdateWrite

ReaderStep ==
  RequestRead \/ LoadWt \/ LoadRd \/ CopyOut \/ UpdateRead \/ LoadTimes \/ StoreTimes

Next == WriterStep \/ UpdateReserved \/ ReaderStep \/ Reset

Spec == Init /\ [][Next]_vars

\* Both callers try again what was refused.
FairSpec == Spec /\ WF_vars(WriterStep) /\ WF_vars(ReaderStep)

-----------------------------------------------------------------------------
(* What the two sides rely on.                                             *)

\* The writer never has lines of a record that is still to be read, or being
\* read, and stays in the buffer; the reader reads what was written
\* (kshm.c:376-406, 237-272).
NoOverwrite ==
  /\ wpc \in {"copy", "update"} =>
       /\ wptr + wsize <= Size
       /\ \A i \in DOMAIN unread :
            LinesOf(wptr, wsize) \cap LinesOf(unread[i].at, unread[i].size) = {}
  /\ rpc \in {"copy", "update"} =>
       /\ unread # <<>>
       /\ rptr = unread[1].at /\ rsize = unread[1].size

\* The records come out whole, once and in order.
Contents == [i \in DOMAIN unread |-> unread[i].rec]
Fifo == INSTANCE RecordFifo
          WITH Records <- Sizes,
               fifo <- IF rpc = "update" THEN Tail(Contents) ELSE Contents,
               out <- got
ImplementsFifo == Fifo!Spec

\* The reader drops its cache lines for a record by the parity of rd_times, the
\* writer flushed them by that of wt_times: they must be the same record's.
\* They are, unless kshm_special_reset came between the two stores of
\* kshm_update_read (kshm.c:198-215, 265-277, 313-314, 466-470).
ParityAgrees ==
  rpc = "copy" /\ ~overtaken => unread # <<>> /\ rodd = unread[1].odd

\* The one spot in which an empty ring refuses a record: when it is exactly as long
\* as the part before the two offsets, and longer than the part behind them.
Hole == rd[index] = wt[index] /\ Roundup(wsize) = wt[index]

\* A writer that tries again and a reader that asks again get a record through
\* again and again, unless the writer is caught in that spot or the channel is
\* reset again and again.
WriterProgress ==
  \/ []<><<UpdateWrite>>_vars
  \/ []<><<Reset>>_vars
  \/ []<>Hole
=============================================================================
