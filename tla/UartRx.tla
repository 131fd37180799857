------------------------------- MODULE UartRx -------------------------------
(***************************************************************************)
(* Receiving from the UART, drivers/uart/uart.c: the interrupt handler     *)
(* stores into a ring that readers take from under rlock.  The first open  *)
(* allocates the ring and installs the handler, the last close removes     *)
(* both; which is first and last is told from refcnt, under no lock, and   *)
(* the first open sleeps in between.  The indices of the ring stay.        *)
(***************************************************************************)
EXTENDS Integers, Sequences

CONSTANTS
  Tasks,      \* that open and close
  RxSize,     \* CONFIG_UART_RX_BUF_SIZE
  RxBytes,
  MaxRef,     \* bound on the files open at once, and on refcnt when it is off
  NULL        \* what memory holds that was just allocated, or is no longer

VARIABLES
  refcnt,
  rx_buf, rx_wt, rx_rd,
  rx_ring,    \* dev->rx_buf points to a ring that is allocated
  rx_isr,     \* sci_isr is installed
  at_rx,      \* where each task is in sci_open or sci_close
  rx_cnt,     \* the refcnt it loaded
  rx_open,    \* files open
  unread,     \* history: bytes received and not yet read
  overrun,    \* history: a byte came when the ring had no room
  leftover,   \* history: the ring was freed or replaced with bytes unread
  misread,    \* history: a reader got another byte than the next
  stray,      \* history: a byte was stored or read with no ring there
  collided,   \* history: an open or a close began while another was under way
  dangling    \* an open failed and left its freed instance in instance_list

ring == <<rx_buf, rx_wt, rx_rd>>
life == <<refcnt, rx_ring, rx_isr, at_rx, rx_cnt, rx_open, collided, dangling>>
bytes == <<unread, overrun, misread, stray>>
vars == <<ring, life, bytes, leftover>>

Index == 0..(RxSize - 1)
Unknown == [i \in Index |-> NULL]

TypeOK ==
  /\ refcnt \in Int /\ rx_cnt \in [Tasks -> Int] /\ rx_open \in 0..MaxRef
  /\ at_rx \in [Tasks -> {"idle", "ring", "hook", "load", "store", "drop", "unhook", "free"}]
  /\ rx_buf \in [Index -> RxBytes \cup {NULL}] /\ rx_wt \in Index /\ rx_rd \in Index
  /\ rx_ring \in BOOLEAN /\ rx_isr \in BOOLEAN
  /\ unread \in Seq(RxBytes)
  /\ overrun \in BOOLEAN /\ leftover \in BOOLEAN /\ misread \in BOOLEAN
  /\ stray \in BOOLEAN /\ collided \in BOOLEAN /\ dangling \in BOOLEAN

Init ==
  /\ refcnt = 0 /\ rx_cnt = [t \in Tasks |-> 0] /\ rx_open = 0
  /\ at_rx = [t \in Tasks |-> "idle"]
  /\ rx_buf = Unknown /\ rx_wt = 0 /\ rx_rd = 0 /\ rx_ring = FALSE /\ rx_isr = FALSE
  /\ unread = <<>> /\ overrun = FALSE /\ leftover = FALSE /\ misread = FALSE
  /\ stray = FALSE /\ collided = FALSE /\ dangling = FALSE

Goes(t, a, b) == at_rx[t] = a /\ at_rx' = [at_rx EXCEPT ![t] = b]
Loads(t, n) == rx_cnt' = [rx_cnt EXCEPT ![t] = n]

\* Whether another call is under way.
Busy(t) == \E u \in Tasks \ {t} : at_rx[u] # "idle"

\* The ring, if there was one, is dev->rx_buf no more.
RingGone == rx_buf' = Unknown /\ leftover' = (leftover \/ rx_wt # rx_rd)

\* sci_open finds no memory for the instance.
NoInstance(t) == at_rx[t] = "idle" /\ UNCHANGED vars

\* sci_open as it looks at refcnt.  Linking an instance to a freed one, and unlinking one
\* from it, is not followed.  Bound: after two calls have met, an open is begun only while
\* no other call is under way.
OpenTest(t) ==
  /\ rx_open < MaxRef /\ refcnt < MaxRef /\ ~dangling /\ (collided => ~Busy(t))
  /\ Goes(t, "idle", IF refcnt = 0 THEN "ring" ELSE "load")
  /\ collided' = (collided \/ Busy(t))
  /\ UNCHANGED <<ring, bytes, leftover, refcnt, rx_ring, rx_isr, rx_cnt, rx_open, dangling>>

GetRing(t) ==
  /\ Goes(t, "ring", "hook")
  /\ RingGone /\ rx_ring' = TRUE
  /\ UNCHANGED <<rx_wt, rx_rd, bytes, refcnt, rx_isr, rx_cnt, rx_open, collided, dangling>>

\* No memory for the ring: the instance is freed, and stays in the list.
NoRing(t) ==
  /\ Goes(t, "ring", "idle")
  /\ RingGone /\ rx_ring' = FALSE
  /\ dangling' = TRUE
  /\ UNCHANGED <<rx_wt, rx_rd, bytes, refcnt, rx_isr, rx_cnt, rx_open, collided>>

\* The device was reset and its mode set, which sleeps.
InstallIsr(t) ==
  /\ Goes(t, "hook", "load")
  /\ rx_isr' = TRUE
  /\ UNCHANGED <<ring, bytes, leftover, refcnt, rx_ring, rx_cnt, rx_open, collided, dangling>>

\* refcnt++ is a load and a store.
OpenLoad(t) ==
  /\ Goes(t, "load", "store")
  /\ Loads(t, refcnt)
  /\ UNCHANGED <<ring, bytes, leftover, refcnt, rx_ring, rx_isr, rx_open, collided, dangling>>

OpenStore(t) ==
  /\ Goes(t, "store", "idle")
  /\ rx_open < MaxRef
  /\ refcnt' = rx_cnt[t] + 1 /\ Loads(t, 0)
  /\ rx_open' = rx_open + 1
  /\ UNCHANGED <<ring, bytes, leftover, rx_ring, rx_isr, collided, dangling>>

\* sci_close of a file; so is refcnt--.  Bound: a count that is off is not taken below zero.
CloseLoad(t) ==
  /\ rx_open > 0 /\ refcnt > 0 /\ ~dangling
  /\ Goes(t, "idle", "drop")
  /\ rx_open' = rx_open - 1
  /\ Loads(t, refcnt)
  /\ collided' = (collided \/ Busy(t))
  /\ UNCHANGED <<ring, bytes, leftover, refcnt, rx_ring, rx_isr, dangling>>

\* What is stored is also what is tested: the build keeps it in a register.
CloseStore(t) ==
  /\ Goes(t, "drop", IF rx_cnt[t] = 1 THEN "unhook" ELSE "idle")
  /\ refcnt' = rx_cnt[t] - 1 /\ Loads(t, 0)
  /\ UNCHANGED <<ring, bytes, leftover, rx_ring, rx_isr, rx_open, collided, dangling>>

\* Fault: the last close leaves the handler installed.
RemoveNothing(t) ==
  /\ Goes(t, "unhook", "free")
  /\ UNCHANGED <<ring, bytes, leftover, refcnt, rx_ring, rx_isr, rx_cnt, rx_open, collided,
                 dangling>>

RemoveIsr(t) ==
  /\ Goes(t, "unhook", "free")
  /\ rx_isr' = FALSE
  /\ UNCHANGED <<ring, bytes, leftover, refcnt, rx_ring, rx_cnt, rx_open, collided, dangling>>

FreeRing(t) ==
  /\ Goes(t, "free", "idle")
  /\ RingGone /\ rx_ring' = FALSE
  /\ UNCHANGED <<rx_wt, rx_rd, bytes, refcnt, rx_isr, rx_cnt, rx_open, collided, dangling>>

\* Fault: the index is not folded back.
Next1Unfolded(i) == i + 1

Next1(i) == (i + 1) % RxSize

\* sci_isr, one byte.  Of bytes that come after an overrun or after others were lost with
\* their ring nothing is promised; and what comes after a byte was stored into memory that
\* is no ring, or the handler went through a list with a freed instance, is not followed.
Receive(b) ==
  /\ rx_isr /\ ~overrun /\ ~leftover /\ ~stray /\ ~dangling
  /\ rx_buf' = [rx_buf EXCEPT ![rx_wt] = b]
  /\ rx_wt' = Next1(rx_wt)
  /\ unread' = Append(unread, b)
  /\ overrun' = (Next1(rx_wt) = rx_rd)
  /\ stray' = (stray \/ ~rx_ring)
  /\ UNCHANGED <<rx_rd, life, leftover, misread>>

\* A byte is taken from place i; memory that is no ring may hold anything.
Take(i) ==
  /\ rx_open > 0 /\ rx_wt # rx_rd /\ ~stray
  /\ misread' = (misread \/ ~rx_ring \/ rx_buf[i] # Head(unread))
  /\ stray' = (stray \/ ~rx_ring)
  /\ unread' = Tail(unread)
  /\ rx_rd' = Next1(rx_rd)
  /\ UNCHANGED <<rx_buf, rx_wt, life, overrun, leftover>>

\* Fault: the byte at the other index.
ReadAtWt == Take(rx_wt)

\* sci_16550uart_read of a byte that is there.
Read == Take(rx_rd)

Next ==
  \/ \E t \in Tasks :
       \/ NoInstance(t) \/ OpenTest(t) \/ GetRing(t) \/ NoRing(t) \/ InstallIsr(t)
       \/ OpenLoad(t) \/ OpenStore(t)
       \/ CloseLoad(t) \/ CloseStore(t) \/ RemoveIsr(t) \/ FreeRing(t)
  \/ Read
  \/ \E b \in RxBytes : Receive(b)

Spec == Init /\ [][Next]_vars

\* Readers get the bytes that came, in order, and the ring looks empty only when
\* all were read, whoever opens and closes meanwhile; unless it overflowed, which
\* empties it, or was freed or replaced with bytes in it, or while it was in use
\* (uart.c:310-335, 379-391, 536-597).
ReadsWhatCame ==
  ~overrun /\ ~leftover /\ ~stray => ~misread /\ (rx_wt = rx_rd <=> unread = <<>>)

\* A file that is open has a ring and a handler that stores into it, and when the last
\* was closed neither is left; as long as opens and closes came one after the other
\* (uart.c:554-570, 584-590).
OpenReceives ==
  ~collided =>
    /\ rx_open > 0 => rx_ring /\ rx_isr
    /\ rx_open = 0 /\ (\A t \in Tasks : at_rx[t] = "idle") => ~rx_ring /\ ~rx_isr
=============================================================================
