------------------------------- MODULE Input -------------------------------
(***************************************************************************)
(* Key events of one input device, drivers/input/input.c: a driver's task  *)
(* reports presses, releases and repeats of its own, the same one twice if *)
(* it likes (input_event, which takes no lock), a timer repeats the key    *)
(* pressed last (input_repeat_key, in a critical section), and both put    *)
(* events into the same kfifo, from which a reader takes them.  kfifo_put  *)
(* is split at its load and its stores; a handler that has expired may     *)
(* still be about to run when its timer is stopped.                        *)
(***************************************************************************)
EXTENDS Naturals, FiniteSets

CONSTANTS
  Keys,
  FifoSize,    \* of dev->kfifo; its indices count modulo 2 * FifoSize
  NULL

VARIABLES
  key,             \* dev->key: the keys whose bit is set
  buf, in, out,    \* dev->kfifo
  src, ev, old,    \* where input_event is, its event, and the index it loaded
  repeat_key,      \* the key pressed last, NULL before the first
  timer, firing,   \* dev->timer is pending; its handler is about to run
  seen,            \* history: the keys the reader takes for pressed
  odd,             \* history: the reader saw the timer repeat a key not pressed
  dropped,         \* history: an event found the kfifo full
  trampled         \* history: the handler ran in the middle of a kfifo_put, or between
                   \* the bit of a press and the press of the key it repeats

fifo == <<buf, in, out>>
source == <<src, ev, old>>
repeat == <<repeat_key, timer, firing>>
reader == <<seen, odd>>
vars == <<key, fifo, source, repeat, reader, dropped, trampled>>

\* Events; who put one is not in it, and told apart only by the history odd.
Event == [key : Keys \cup {NULL}, value : 0..2, by : {"driver", "timer"}]
Sync == [key |-> NULL, value |-> 1, by |-> "timer"]

TypeOK ==
  /\ key \subseteq Keys /\ seen \subseteq Keys
  /\ buf \in [0..(FifoSize - 1) -> Event]
  /\ in \in 0..(2 * FifoSize - 1) /\ out \in 0..(2 * FifoSize - 1)
  /\ src \in {"idle", "load", "slot", "in", "repeat"} /\ ev \in Event
  /\ old \in 0..(2 * FifoSize - 1)
  /\ repeat_key \in Keys \cup {NULL}
  /\ timer \in BOOLEAN /\ firing \in BOOLEAN
  /\ odd \in BOOLEAN /\ dropped \in BOOLEAN /\ trampled \in BOOLEAN

Init ==
  /\ key = {} /\ seen = {}
  /\ buf = [i \in 0..(FifoSize - 1) |-> Sync] /\ in = 0 /\ out = 0
  /\ src = "idle" /\ ev = Sync /\ old = 0
  /\ repeat_key = NULL /\ timer = FALSE /\ firing = FALSE
  /\ odd = FALSE /\ dropped = FALSE /\ trampled = FALSE

\* After an event was lost, or a report trampled on, the device is not followed further.
Over == dropped \/ trampled

Plus(i, n) == (i + n) % (2 * FifoSize)
Used(i) == (i + 2 * FifoSize - out) % (2 * FifoSize)
\* Fault: one event more than fits.
FullLate(i) == Used(i) > FifoSize
Full(i) == Used(i) >= FifoSize
Slot(i) == i % FifoSize

-----------------------------------------------------------------------------
(* input_event in the driver's task.                                       *)

\* Fault: a repeat of the driver's own changes the bit as a press does.
BitOfRepeat(k, v) == IF v = 0 THEN key \ {k} ELSE key \cup {k}
\* The keys pressed after the event: the driver's repeats change none.
Bits(k, v) == IF v = 0 THEN key \ {k} ELSE IF v = 1 THEN key \cup {k} ELSE key

\* input_get_disposition sets the bit and passes every event on, new or not.
Report(k, v) ==
  /\ src = "idle"
  /\ key' = Bits(k, v)
  /\ ev' = [key |-> k, value |-> v, by |-> "driver"]
  /\ src' = "load"
  /\ UNCHANGED <<fifo, old, repeat, reader, dropped, trampled>>

\* kfifo_put: dropped when full,
PutLoad ==
  /\ src = "load"
  /\ old' = in
  /\ src' = IF Full(in) THEN "repeat" ELSE "slot"
  /\ dropped' = (dropped \/ Full(in))
  /\ UNCHANGED <<key, fifo, ev, repeat, reader, trampled>>

\* stored,
PutSlot ==
  /\ src = "slot"
  /\ buf' = [buf EXCEPT ![Slot(old)] = ev]
  /\ src' = "in"
  /\ UNCHANGED <<key, in, out, ev, old, repeat, reader, dropped, trampled>>

\* and counted.
PutIn ==
  /\ src = "in"
  /\ in' = Plus(old, 1)
  /\ src' = "repeat"
  /\ UNCHANGED <<key, buf, out, ev, old, repeat, reader, dropped, trampled>>

\* A press starts the timer, a release of any key stops it, a repeat does neither.
Autorepeat ==
  /\ src = "repeat"
  /\ repeat_key' = IF ev.value = 1 THEN ev.key ELSE repeat_key
  /\ timer' = IF ev.value = 2 THEN timer ELSE ev.value = 1
  /\ src' = "idle" /\ ev' = Sync /\ old' = 0
  /\ UNCHANGED <<key, fifo, firing, reader, dropped, trampled>>

-----------------------------------------------------------------------------
(* The timer.                                                              *)

Expire ==
  /\ timer
  /\ timer' = FALSE /\ firing' = TRUE
  /\ UNCHANGED <<key, fifo, source, repeat_key, reader, dropped, trampled>>

\* The handler comes at a moment of input_event that it spoils.
Torn ==
  \/ src \in {"slot", "in"}
  \/ src = "load" /\ ev.value = 1 /\ ev.key = repeat_key

\* Two puts in a row, each of which does nothing when the kfifo is full.
PutBoth(a, b) ==
  LET i == IF Full(in) THEN in ELSE Plus(in, 1)
      x == IF Full(in) THEN buf ELSE [buf EXCEPT ![Slot(in)] = a]
  IN  /\ buf' = IF Full(i) THEN x ELSE [x EXCEPT ![Slot(i)] = b]
      /\ in' = IF Full(i) THEN i ELSE Plus(i, 1)

\* Fault: the key is repeated whether it is pressed or not.
RepeatAlways ==
  /\ firing
  /\ firing' = FALSE
  /\ PutBoth([key |-> repeat_key, value |-> 2, by |-> "timer"], Sync)
  /\ timer' = TRUE
  /\ trampled' = (trampled \/ Torn)
  /\ UNCHANGED <<out, key, source, repeat_key, reader, dropped>>

\* input_repeat_key
RepeatKey ==
  /\ firing
  /\ firing' = FALSE
  /\ IF repeat_key \in key
     THEN /\ PutBoth([key |-> repeat_key, value |-> 2, by |-> "timer"], Sync)
          /\ timer' = TRUE
          /\ trampled' = (trampled \/ Torn)
     ELSE UNCHANGED <<buf, in, timer, trampled>>
  /\ UNCHANGED <<out, key, source, repeat_key, reader, dropped>>

-----------------------------------------------------------------------------

\* input_read, and what a reader makes of the event.  What a slot held is
\* forgotten with it: nothing looks there again unless the indices have crossed.
Read ==
  /\ in # out
  /\ LET e == buf[Slot(out)] IN
       /\ seen' = IF e.key = NULL \/ e.value = 2 THEN seen
                  ELSE IF e.value = 0 THEN seen \ {e.key} ELSE seen \cup {e.key}
       /\ odd' = (odd \/ (e.value = 2 /\ e.by = "timer" /\ e.key \notin seen))
  /\ out' = Plus(out, 1)
  /\ buf' = [buf EXCEPT ![Slot(out)] = Sync]
  /\ UNCHANGED <<key, in, source, repeat, dropped, trampled>>

Lost == Over /\ UNCHANGED vars

Next ==
  \/ /\ ~Over
     /\ \/ \E k \in Keys, v \in 0..2 : Report(k, v)
        \/ PutLoad \/ PutSlot \/ PutIn \/ Autorepeat
        \/ Expire \/ RepeatKey \/ Read
  \/ Lost

Spec == Init /\ [][Next]_vars

-----------------------------------------------------------------------------
(* What the reader and the keyboard agree on.                              *)

Settled == src = "idle" /\ in = out

\* Once the events are read the reader has the keys that are pressed, however often
\* the driver reported one of them; unless the kfifo overflowed or a report was
\* trampled on by the timer (input.c:177-204, 280-296, 471-484).
ReaderAgrees == Settled /\ ~Over => seen = key

\* The reader sees the timer repeat no key before its press or after its release,
\* also when it expires while the driver reports another key, its release, or has put
\* the press; with the same exceptions (input.c:578-600).
RepeatsPressed == ~Over => ~odd
=============================================================================
