------------------------------ MODULE I2cRead ------------------------------
(***************************************************************************)
(* Reading from an I2C device, drivers/i2c/hc-i2c.c: a task starts the     *)
(* controller and either polls its FIFO, or lets the interrupt handler     *)
(* take bytes while it waits for a completion with a time limit and then   *)
(* polls for the rest.  Which of the two depends on the length and on a    *)
(* flag that hc_i2c_transfer sets before it takes the lock.  The transfers *)
(* are of two or three messages, of which the last is the read.            *)
(***************************************************************************)
EXTENDS Naturals, Sequences

CONSTANTS
  Tasks,
  Short, Long,   \* lengths read by polling and by interrupt (above 32)
  FifoDepth,
  NULL

VARIABLES
  eddc_flag,
  owner, at_i2c, rlen, eddc,   \* who holds the lock, and its place, length and kind
  wants,                       \* the transfer each other task waits to do, or NULL
  ridx, trig,                  \* priv->ridx; the FIFO interrupt is enabled
  i2c_done,                    \* priv->completion has a token
  rfifo, came,                 \* the controller's FIFO; bytes the device has sent
  rdata, idx,                  \* the buffer, NULL where nothing was stored; local i
  result,
  flagged,                     \* history: the flag changed under a transfer
  gave_up,                     \* history: all ten attempts failed
  cut                          \* history: a polled read ended for want of bytes

call == <<owner, rlen, eddc, wants>>
hw == <<rfifo, came>>
buffer == <<rdata, idx, ridx>>
history == <<flagged, gave_up, cut>>
vars == <<eddc_flag, call, at_i2c, trig, i2c_done, hw, buffer, result, history>>

Lens == {Short, Long}
Kinds == [rlen : Lens, eddc : BOOLEAN]

TypeOK ==
  /\ eddc_flag \in BOOLEAN /\ owner \in Tasks \cup {NULL}
  /\ at_i2c \in {"free", "start", "ready", "wait", "rest", "poll"}
  /\ rlen \in Lens \cup {0} /\ eddc \in BOOLEAN
  /\ wants \in [Tasks -> Kinds \cup {NULL}]
  /\ ridx \in 0..Long /\ idx \in 0..Long /\ trig \in BOOLEAN /\ i2c_done \in BOOLEAN
  /\ rfifo \in Seq(1..Long) /\ Len(rfifo) <= FifoDepth /\ came \in 0..Long
  /\ rdata \in [1..Long -> (1..Long) \cup {NULL}]
  /\ result \in {"none", "ok", "error"}
  /\ flagged \in BOOLEAN /\ gave_up \in BOOLEAN /\ cut \in BOOLEAN

Empty == [i \in 1..Long |-> NULL]

Init ==
  /\ eddc_flag = FALSE /\ owner = NULL /\ at_i2c = "free" /\ rlen = 0 /\ eddc = FALSE
  /\ wants = [t \in Tasks |-> NULL]
  /\ ridx = 0 /\ idx = 0 /\ trig = FALSE /\ i2c_done = FALSE
  /\ rfifo = <<>> /\ came = 0 /\ rdata = Empty
  /\ result = "none"
  /\ flagged = FALSE /\ gave_up = FALSE /\ cut = FALSE

-----------------------------------------------------------------------------
(* hc_i2c_transfer: the flag, then the lock; a read message follows.       *)

SetFlag(t, k) ==
  /\ owner # t /\ wants[t] = NULL
  /\ wants' = [wants EXCEPT ![t] = k]
  /\ eddc_flag' = k.eddc
  /\ flagged' = (flagged \/ (owner # NULL /\ k.eddc # eddc))
  /\ UNCHANGED <<owner, rlen, eddc, at_i2c, trig, i2c_done, hw, buffer, result, gave_up, cut>>

Lock(t) ==
  /\ owner = NULL /\ wants[t] # NULL
  /\ owner' = t /\ at_i2c' = "start"
  /\ rlen' = wants[t].rlen /\ eddc' = wants[t].eddc
  /\ wants' = [wants EXCEPT ![t] = NULL]
  /\ rdata' = Empty /\ idx' = 0 /\ result' = "none"
  /\ cut' = FALSE
  /\ flagged' = (flagged \/ eddc_flag # eddc')
  /\ UNCHANGED <<eddc_flag, trig, i2c_done, hw, ridx, gave_up>>

\* hc_i2c_wait_host_ready times out.
HostBusy(t) ==
  /\ owner = NULL /\ wants[t] # NULL
  /\ wants' = [wants EXCEPT ![t] = NULL]
  /\ result' = "error"
  /\ UNCHANGED <<eddc_flag, owner, rlen, eddc, at_i2c, trig, i2c_done, hw, buffer, history>>

Return(r) ==
  /\ owner' = NULL /\ at_i2c' = "free" /\ result' = r
  /\ UNCHANGED <<rlen, eddc, wants>>

-----------------------------------------------------------------------------
(* hc_i2c_read_msg.                                                        *)

\* An attempt: the FIFO is cleared and the controller started.
Start ==
  /\ at_i2c = "start"
  /\ rfifo' = <<>> /\ came' = 0
  /\ IF rlen = Long \/ eddc_flag
     THEN ridx' = 0 /\ i2c_done' = FALSE /\ trig' = TRUE
     ELSE UNCHANGED <<ridx, i2c_done, trig>>
  /\ at_i2c' = "ready"
  /\ UNCHANGED <<eddc_flag, call, rdata, idx, result, history>>

\* Ready, not ready and tried again, or not ready ten times.
Ready ==
  /\ at_i2c = "ready"
  /\ at_i2c' = IF rlen = Long \/ eddc_flag THEN "wait" ELSE "poll"
  /\ UNCHANGED <<eddc_flag, call, trig, i2c_done, hw, buffer, result, history>>

TryAgain ==
  /\ at_i2c = "ready"
  /\ at_i2c' = "start"
  /\ UNCHANGED <<eddc_flag, call, trig, i2c_done, hw, buffer, result, history>>

GiveUp ==
  /\ at_i2c = "ready"
  /\ Return("error")
  /\ gave_up' = TRUE
  /\ UNCHANGED <<eddc_flag, trig, i2c_done, hw, buffer, flagged, cut>>

\* Fault: the interrupt stays enabled.
WaitedEnabled ==
  /\ at_i2c = "wait"
  /\ i2c_done' = FALSE
  /\ at_i2c' = "rest"
  /\ UNCHANGED <<eddc_flag, call, trig, hw, buffer, result, history>>

\* Completed or timed out, which nobody asks.
Waited ==
  /\ at_i2c = "wait"
  /\ i2c_done' = FALSE /\ trig' = FALSE
  /\ at_i2c' = "rest"
  /\ UNCHANGED <<eddc_flag, call, hw, buffer, result, history>>

Take(i) ==
  /\ rdata' = [rdata EXCEPT ![i] = Head(rfifo)]
  /\ rfifo' = Tail(rfifo) /\ UNCHANGED came

\* Fault: a byte is stored where one was.
RestBehind ==
  /\ at_i2c = "rest" /\ ridx < rlen /\ rfifo # <<>>
  /\ Take(IF ridx = 0 THEN 1 ELSE ridx)
  /\ ridx' = ridx + 1
  /\ UNCHANGED <<eddc_flag, call, at_i2c, trig, i2c_done, idx, result, history>>

\* The rest by polling,
Rest ==
  /\ at_i2c = "rest" /\ ridx < rlen /\ rfifo # <<>>
  /\ Take(ridx + 1)
  /\ ridx' = ridx + 1
  /\ UNCHANGED <<eddc_flag, call, at_i2c, trig, i2c_done, idx, result, history>>

\* which ends with the last byte, or when none comes.
RestEnds ==
  /\ at_i2c = "rest" /\ (ridx >= rlen \/ rfifo = <<>>)
  /\ Return(IF ridx < rlen THEN "error" ELSE "ok")
  /\ UNCHANGED <<eddc_flag, trig, i2c_done, hw, buffer, history>>

\* A polled read does the same but for its result.
Poll ==
  /\ at_i2c = "poll" /\ idx < rlen /\ rfifo # <<>>
  /\ Take(idx + 1)
  /\ idx' = idx + 1
  /\ UNCHANGED <<eddc_flag, call, at_i2c, trig, i2c_done, ridx, result, history>>

PollEnds ==
  /\ at_i2c = "poll" /\ (idx = rlen \/ rfifo = <<>>)
  /\ Return("ok")
  /\ cut' = (idx < rlen)
  /\ UNCHANGED <<eddc_flag, trig, i2c_done, hw, buffer, flagged, gave_up>>

-----------------------------------------------------------------------------
(* The controller and hc_i2c_interrupt.                                    *)

Arrive ==
  /\ at_i2c \notin {"free", "start"} /\ came < rlen /\ Len(rfifo) < FifoDepth
  /\ came' = came + 1
  /\ rfifo' = Append(rfifo, came')
  /\ UNCHANGED <<eddc_flag, call, at_i2c, trig, i2c_done, buffer, result, history>>

Isr ==
  /\ trig /\ rfifo # <<>> /\ ridx <= rlen
  /\ LET n == IF Len(rfifo) < rlen - ridx THEN Len(rfifo) ELSE rlen - ridx IN
       /\ rdata' = [i \in 1..Long |-> IF i \in (ridx + 1)..(ridx + n) THEN rfifo[i - ridx]
                                      ELSE rdata[i]]
       /\ rfifo' = SubSeq(rfifo, n + 1, Len(rfifo))
       /\ ridx' = ridx + n
       /\ i2c_done' = (i2c_done \/ ridx' = rlen)
  /\ UNCHANGED <<eddc_flag, call, at_i2c, trig, came, idx, result, history>>

-----------------------------------------------------------------------------

Reader ==
  \/ Start \/ Ready \/ TryAgain \/ GiveUp \/ Waited \/ Rest \/ RestEnds
  \/ Poll \/ PollEnds

Next ==
  \/ \E t \in Tasks : Lock(t) \/ HostBusy(t) \/ \E k \in Kinds : SetFlag(t, k)
  \/ Reader \/ Arrive \/ Isr

Spec == Init /\ [][Next]_vars

-----------------------------------------------------------------------------
(* What a reader is promised.                                              *)

\* A read that succeeds has stored every byte at its place, whoever of task and
\* handler took it and whenever the wait ended; unless the flag was changed under
\* the lock, the handler was left enabled, or a polled read ran out of bytes
\* (hc-i2c.c:250-269, 350-379, 512-517).
ReadIsWhole ==
  result = "ok" /\ ~flagged /\ ~gave_up /\ ~cut =>
    \A i \in 1..rlen : rdata[i] = i

\* With the bus free no interrupt can store into the buffer of a reader gone by,
\* with the same exceptions (hc-i2c.c:345-348, 353-354).
QuietWhenFree == owner = NULL /\ ~flagged /\ ~gave_up => ~trig
=============================================================================
