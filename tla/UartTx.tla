------------------------------- MODULE UartTx -------------------------------
(***************************************************************************)
(* Writing to the UART, drivers/uart/uart.c: the task that holds wlock     *)
(* fills the transmit FIFO in chunks and waits for the interrupt of an     *)
(* empty FIFO, which calls complete at once, whatever the task is doing.   *)
(* A handler may write meanwhile, which it ends by polling for an empty    *)
(* FIFO.                                                                   *)
(***************************************************************************)
EXTENDS Naturals, Sequences, FiniteSets

CONSTANTS
  FifoMax,    \* FIFO_MAX
  MaxText     \* bound on the length of a write

Texts == UNION {[1..n -> {"x", "nl"}] : n \in 1..MaxText}

VARIABLES
  text, std,    \* what is written, and whether to stdout or stderr
  at_tx,        \* where sci_16550uart_write_bytes is
  sent, add_cr, fifo_n,   \* its locals; fifo_n is "fifo"
  tx_done,      \* dev->completion has a token
  level,        \* bytes in the transmit FIFO
  wire,         \* history: bytes of this write given to the FIFO
  lost,         \* history: the FIFO was full when given one
  early         \* history: the FIFO got empty in the middle of a chunk

local == <<text, std, sent, add_cr, fifo_n>>
vars == <<local, at_tx, tx_done, level, wire, lost, early>>

TypeOK ==
  /\ text \in Texts \cup {<<>>} /\ std \in BOOLEAN
  /\ at_tx \in {"idle", "chunk", "cr", "char", "wait", "poll"}
  /\ sent \in 0..MaxText /\ add_cr \in BOOLEAN /\ fifo_n \in 0..FifoMax
  /\ tx_done \in BOOLEAN /\ level \in 0..FifoMax
  /\ lost \in BOOLEAN /\ early \in BOOLEAN

Init ==
  /\ text = <<>> /\ std = FALSE /\ sent = 0 /\ add_cr = TRUE /\ fifo_n = 0
  /\ at_tx = "idle" /\ tx_done = FALSE /\ level = 0
  /\ wire = <<>> /\ lost = FALSE /\ early = FALSE

Filling == at_tx \in {"cr", "char"}

\* A byte into urbr_utbr.
Out(b) ==
  /\ wire' = Append(wire, b)
  /\ level' = IF level < FifoMax THEN level + 1 ELSE level
  /\ lost' = (lost \/ level = FifoMax)
  /\ fifo_n' = fifo_n + 1

-----------------------------------------------------------------------------
(* sci_16550uart_write_bytes.                                              *)

\* sci_write takes wlock.
Write(t, s) ==
  /\ at_tx = "idle"
  /\ text' = t /\ std' = s /\ sent' = 0 /\ add_cr' = TRUE /\ fifo_n' = 0
  /\ wire' = <<>>
  /\ at_tx' = "chunk"
  /\ UNCHANGED <<tx_done, level, lost, early>>

\* init_completion
Chunk ==
  /\ at_tx = "chunk"
  /\ tx_done' = FALSE /\ fifo_n' = 0
  /\ at_tx' = "cr"
  /\ UNCHANGED <<text, std, sent, add_cr, level, wire, lost, early>>

\* Fault: a chunk that ends with the return has forgotten it.
PutCrForgets ==
  /\ at_tx = "cr"
  /\ IF std /\ text[sent + 1] = "nl" /\ add_cr
     THEN /\ Out("cr")
          /\ at_tx' = IF fifo_n' = FifoMax THEN "wait" ELSE "char"
     ELSE at_tx' = "char" /\ UNCHANGED <<wire, level, lost, fifo_n>>
  /\ UNCHANGED <<add_cr, text, std, sent, tx_done, early>>

\* A return before the newline, unless the last chunk ended with it.
PutCr ==
  /\ at_tx = "cr"
  /\ IF std /\ text[sent + 1] = "nl" /\ add_cr
     THEN /\ Out("cr")
          /\ add_cr' = (fifo_n' # FifoMax)
          /\ at_tx' = IF fifo_n' = FifoMax THEN "wait" ELSE "char"
     ELSE at_tx' = "char" /\ UNCHANGED <<wire, level, lost, fifo_n, add_cr>>
  /\ UNCHANGED <<text, std, sent, tx_done, early>>

PutChar ==
  /\ at_tx = "char"
  /\ Out(text[sent + 1])
  /\ sent' = sent + 1 /\ add_cr' = TRUE
  /\ at_tx' = IF fifo_n' < FifoMax /\ sent' < Len(text) THEN "cr" ELSE "wait"
  /\ UNCHANGED <<text, std, tx_done, early>>

NextChunk == at_tx' = IF sent < Len(text) THEN "chunk" ELSE "idle"

\* wait_for_completion_timeout
Completed ==
  /\ at_tx = "wait" /\ tx_done
  /\ tx_done' = FALSE
  /\ NextChunk
  /\ UNCHANGED <<local, level, wire, lost, early>>

\* Fault: after the timeout the FIFO is not polled.
TimedOutUnpolled ==
  /\ at_tx = "wait" /\ ~tx_done
  /\ NextChunk
  /\ UNCHANGED <<local, tx_done, level, wire, lost, early>>

TimedOut ==
  /\ at_tx = "wait" /\ ~tx_done
  /\ at_tx' = "poll"
  /\ UNCHANGED <<local, tx_done, level, wire, lost, early>>

\* Fault: polled for the FIFO not to be empty.
PollThreInverted ==
  /\ at_tx = "poll" /\ level # 0
  /\ NextChunk
  /\ UNCHANGED <<local, tx_done, level, wire, lost, early>>

PollThre ==
  /\ at_tx = "poll" /\ level = 0
  /\ NextChunk
  /\ UNCHANGED <<local, tx_done, level, wire, lost, early>>

-----------------------------------------------------------------------------
(* The transmitter and its interrupt.                                      *)

\* A byte has gone; sci_isr completes when it was the last one there.
Drain ==
  /\ level > 0
  /\ level' = level - 1
  /\ tx_done' = (tx_done \/ level = 1)
  /\ early' = (early \/ (level = 1 /\ Filling))
  /\ UNCHANGED <<local, at_tx, wire, lost>>

\* sci_16550uart_write_bytes_from_isr leaves the FIFO empty, and the interrupt
\* is served after it.
WriteFromIsr ==
  /\ level' = 0 /\ tx_done' = TRUE
  /\ early' = (early \/ Filling)
  /\ UNCHANGED <<local, at_tx, wire, lost>>

-----------------------------------------------------------------------------

Writer == Chunk \/ PutCr \/ PutChar \/ Completed \/ TimedOut \/ PollThre

Next ==
  \/ \E t \in Texts, s \in BOOLEAN : Write(t, s)
  \/ Writer \/ Drain \/ WriteFromIsr

Spec == Init /\ [][Next]_vars

\* The writer goes on, or else the FIFO drains.
Fairness == WF_vars(Writer \/ Drain)

FairSpec == Spec /\ Fairness

-----------------------------------------------------------------------------
(* What a write is asked.                                                  *)

\* The returns that belong before the end of the first n characters.
Returns(n) == IF std THEN Cardinality({i \in 1..n : text[i] = "nl"}) ELSE 0

\* Every character of the text is sent once and in order, each newline of stdout
\* behind one return, wherever the chunks end (uart.c:464-483).
WireIsText ==
  at_tx = "idle" =>
    /\ Len(wire) = Len(text) + Returns(Len(text))
    /\ \A i \in 1..Len(text) :
         /\ wire[i + Returns(i)] = text[i]
         /\ std /\ text[i] = "nl" => wire[i + Returns(i) - 1] = "cr"

\* No byte is written into a full FIFO, unless it had run empty in the middle of
\* a chunk, so that the wait for that chunk was over before it began
\* (uart.c:462-491, 339-341, 359-361).
FifoTakesAll == lost => early

\* A write comes to an end, with the interrupt or without (uart.c:485-491).
WriteEnds == []<>(at_tx = "idle")
=============================================================================
