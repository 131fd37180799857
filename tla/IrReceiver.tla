----------------------------- MODULE IrReceiver -----------------------------
(***************************************************************************)
(* From infrared light to scancodes: the receiver (drivers/input/rc,       *)
(* hc_rc.c), whose interrupt hands over samples, the FIFO of pulses and    *)
(* spaces with the thread that empties it (rc-ir-raw.c), and the decoder   *)
(* of the NEC protocol (ir-nec-decoder.c).  A remote control sends frames, *)
(* whole or cut off, a little too long or too short.  Time is counted in   *)
(* quarters of NEC_UNIT, and a byte has ByteLen bits, its first the        *)
(* highest.                                                                *)
(***************************************************************************)
EXTENDS Integers, Sequences

CONSTANTS
  NULL,
  ByteLen,      \* 8
  Codes,        \* scancodes that are sent
  Skew,         \* by how much a pulse may come too long, and a space too short
  MaxSample,    \* the longest run the receiver puts into one sample
  HwTimeout,    \* the length of a space after which the receiver is idle
  Timeout,      \* dev->timeout
  RawSize       \* MAX_IR_EVENT_SIZE

VARIABLES
  runs,         \* the rest of the pulses and spaces on their way to the receiver
  frame,        \* what they mean: a scancode, Rpt, or NULL
  silent,       \* the receiver has timed out
  idle, this_ev,
  kfifo,
  nec,          \* the state of the decoder
  at_raw, runnable,
                \* the thread: its place, and whether it is to go on
  owed,          \* history: what has been sent, and is to be reported
  repeatable,   \* history: a repeat of the extended variant would be one of the frame
                \* before it
  overflowed,   \* history: the FIFO was full
  mistaken      \* history: something else was reported than what was sent

air == <<runs, frame, silent, repeatable>>
receiver == <<idle, this_ev>>
thread == <<at_raw, runnable>>
vars == <<air, receiver, kfifo, nec, thread, owed, overflowed, mistaken>>

-----------------------------------------------------------------------------
(* What a remote control sends.                                            *)

Unit == 4
Bits == 4 * ByteLen     \* NEC_NBITS
Run(pulse, n) == [pulse |-> pulse, duration |-> n]

\* bitrev8
Reversed(byte) == [i \in DOMAIN byte |-> byte[Len(byte) + 1 - i]]
Complement(byte) == [i \in DOMAIN byte |-> 1 - byte[i]]

\* ir_nec_scancode_to_raw: the bytes as they are sent, each with its lowest bit first.
Bytes(c) ==
  CASE c.proto = "nec32" -> <<c.address, c.not_address, c.command, c.not_command>>
    [] c.proto = "necx" -> <<c.address, c.not_address, c.command, Complement(c.command)>>
    [] c.proto = "nec" -> <<c.address, Complement(c.address), c.command, Complement(c.command)>>

Raw(c) ==
  LET b == Bytes(c) IN Reversed(b[1]) \o Reversed(b[2]) \o Reversed(b[3]) \o Reversed(b[4])

\* The codes of each variant: one whose bytes are complements is a code of the variant
\* before (ir_nec_bytes_to_scancode).
Words == [1..ByteLen -> {0, 1}]
NecCodes ==
  [proto : {"nec"}, address : Words, command : Words]
  \cup {c \in [proto : {"necx"}, address : Words, not_address : Words, command : Words] :
          c.not_address # Complement(c.address)}
  \cup {c \in [proto : {"nec32"}, address : Words, not_address : Words, command : Words,
                not_command : Words] : c.not_command # Complement(c.command)}

Header(x) == Run(TRUE, IF x THEN 8 * Unit ELSE 16 * Unit)
Bit(b) == <<Run(TRUE, Unit), Run(FALSE, IF b = 1 THEN 3 * Unit ELSE Unit)>>
Silence == Run(FALSE, HwTimeout)

\* A key, of the extended variant if x.
Key(c, x) ==
  <<Header(x), Run(FALSE, 8 * Unit)>>
    \o [i \in 1..2 * Bits |-> Bit(Raw(c)[(i + 1) \div 2])[2 - (i % 2)]] \o <<Run(TRUE, Unit)>>

\* The repeat of a key.
Repeat(x) ==
  IF x THEN <<Header(x), Run(FALSE, 8 * Unit)>> \o Bit(0) \o <<Run(TRUE, Unit)>>
  ELSE <<Header(x), Run(FALSE, 4 * Unit), Run(TRUE, Unit)>>

\* As the receiver sees it.
Skewed(s, d) ==
  [i \in DOMAIN s |->
     [s[i] EXCEPT !.duration = IF s[i].pulse THEN @ + d ELSE @ - d]]

-----------------------------------------------------------------------------

NoEvent == Run(FALSE, 0)
Event == [pulse : BOOLEAN, duration : Nat]
Rpt == [proto |-> "repeat"]
Reports == Codes \cup {Rpt}

States == {"inactive", "header_space", "bit_pulse", "bit_space", "trailer_pulse",
           "trailer_space"}

TypeOK ==
  /\ runs \in Seq(Event) /\ frame \in Reports \cup {NULL} /\ silent \in BOOLEAN
  /\ idle \in BOOLEAN /\ this_ev \in Event
  /\ kfifo \in Seq(Event) /\ Len(kfifo) <= RawSize
  /\ nec.state \in States /\ nec.bits \in Seq({0, 1}) /\ Len(nec.bits) <= Bits
  /\ nec.is_nec_x \in BOOLEAN /\ nec.necx_repeat \in BOOLEAN
  /\ at_raw \in {"drain", "set", "check", "schedule", "asleep"} /\ runnable \in BOOLEAN
  /\ owed \in Seq(Reports) /\ repeatable \in BOOLEAN
  /\ overflowed \in BOOLEAN /\ mistaken \in BOOLEAN

Init ==
  /\ runs = <<>> /\ frame = NULL /\ silent = TRUE
  /\ idle = TRUE /\ this_ev = NoEvent
  /\ kfifo = <<>>
  /\ nec = [state |-> "inactive", bits |-> <<>>, is_nec_x |-> FALSE, necx_repeat |-> FALSE]
  /\ at_raw = "drain" /\ runnable = TRUE
  /\ owed = <<>> /\ repeatable = FALSE
  /\ overflowed = FALSE /\ mistaken = FALSE

-----------------------------------------------------------------------------
(* The remote control.                                                     *)

\* A frame is sent when the one before has been heard to its end, and no more than one
\* is still to be reported.  The extended variant is repeated only behind its own frames.
\* After an event was dropped nothing is followed any more.
Send ==
  /\ silent /\ ~overflowed /\ Len(owed) <= 1
  /\ \E d \in Skew, x \in BOOLEAN, r \in Reports :
       /\ x /\ r = Rpt => repeatable
       /\ runs' = Skewed(IF r = Rpt THEN Repeat(x) ELSE Key(r, x), d) \o <<Silence>>
       /\ frame' = r
       /\ repeatable' = x
  /\ silent' = FALSE
  /\ UNCHANGED <<receiver, kfifo, nec, thread, owed, overflowed, mistaken>>

\* The light is cut off behind a pulse, but not that of the second bit, where a key of
\* the extended variant looks like its repeat.
Cut ==
  /\ Len(runs) > 1 /\ Len(runs) # 2 * Bits - 1
  /\ this_ev.pulse /\ ~Head(runs).pulse
  /\ runs' = <<Silence>>
  /\ frame' = NULL /\ repeatable' = FALSE
  /\ UNCHANGED <<silent, receiver, kfifo, nec, thread, owed, overflowed, mistaken>>

-----------------------------------------------------------------------------
(* The interrupt handler.                                                  *)

Smaller(m, n) == IF m <= n THEN m ELSE n

\* ir_raw_event_store of each of the events: what there is no room for is dropped.
Store(events) ==
  LET room == RawSize - Len(kfifo) IN
  /\ kfifo' = kfifo \o SubSeq(events, 1, Smaller(Len(events), room))
  /\ overflowed' = (overflowed \/ Len(events) > room)

\* Fault: a new sample replaces the one before even if that was of the same kind.
MergedLast(ev) == ev

\* A sample is added to the event that is being put together.
Merged(ev) ==
  IF this_ev.duration # 0 /\ ev.pulse = this_ev.pulse
  THEN [ev EXCEPT !.duration = @ + this_ev.duration] ELSE ev

\* ir_raw_event_store_with_filter
StoreWithFilter(ev) ==
  IF idle /\ ~ev.pulse THEN Store(<<>>) /\ UNCHANGED receiver
  ELSE
    LET m == Merged(ev)
        ended == this_ev.duration # 0 /\ ev.pulse # this_ev.pulse
        idles == ~ev.pulse /\ m.duration >= Timeout
    IN /\ Store((IF ended THEN <<this_ev>> ELSE <<>>) \o IF idles THEN <<m>> ELSE <<>>)
       /\ this_ev' = IF idles THEN NoEvent ELSE m
       /\ idle' = idles

\* ir_raw_event_handle
Handle == runnable' = TRUE /\ at_raw' = IF at_raw = "asleep" THEN "drain" ELSE at_raw

\* hc_rc_rx_interrupt, for one sample of those the receiver has.
Sample ==
  /\ runs # <<>>
  /\ LET run == Head(runs)
         n == Smaller(run.duration, MaxSample)
     IN /\ StoreWithFilter(Run(run.pulse, n))
        /\ runs' = IF n = run.duration THEN Tail(runs)
                   ELSE <<Run(run.pulse, run.duration - n)>> \o Tail(runs)
  /\ Handle
  /\ UNCHANGED <<frame, silent, repeatable, nec, owed, mistaken>>

\* hc_rc_rx_interrupt, when the receiver has timed out: ir_raw_event_set_idle.
TimedOut ==
  /\ runs = <<>> /\ ~silent
  /\ silent' = TRUE
  /\ Store(<<this_ev>>)
  /\ this_ev' = NoEvent /\ idle' = TRUE
  /\ owed' = IF frame = NULL THEN owed ELSE Append(owed, frame)
  /\ frame' = NULL
  /\ Handle
  /\ UNCHANGED <<runs, repeatable, nec, mistaken>>

-----------------------------------------------------------------------------
(* ir_nec_decode.  bits holds what was shifted in since the header, so     *)
(* that count is its length; both and is_nec_x are of no use when inactive.*)

\* eq_margin and geq_margin
Near(n, m, margin) == m - margin < n /\ n < m + margin
AtLeast(n, m, margin) == m - margin < n

IsTrailer(ev) == ~ev.pulse /\ AtLeast(ev.duration, 10 * Unit, Unit \div 2)
IsBitPulse(ev) == ev.pulse /\ Near(ev.duration, Unit, Unit \div 2)

To(state) == [nec EXCEPT !.state = state]
Inactive == [nec EXCEPT !.state = "inactive", !.bits = <<>>, !.is_nec_x = FALSE]

\* The state of the decoder after an event.
Decoded(ev) ==
  CASE nec.state = "inactive" ->
         IF ev.pulse /\ Near(ev.duration, 16 * Unit, 2 * Unit)
         THEN [To("header_space") EXCEPT !.is_nec_x = FALSE, !.necx_repeat = FALSE]
         ELSE IF ev.pulse /\ Near(ev.duration, 8 * Unit, Unit \div 2)
         THEN [To("header_space") EXCEPT !.is_nec_x = TRUE]
         ELSE Inactive
    [] nec.state = "header_space" ->
         IF ~ev.pulse /\ Near(ev.duration, 8 * Unit, Unit) THEN To("bit_pulse")
         ELSE IF ~ev.pulse /\ Near(ev.duration, 4 * Unit, Unit \div 2) THEN To("trailer_pulse")
         ELSE Inactive
    [] nec.state = "bit_pulse" -> IF IsBitPulse(ev) THEN To("bit_space") ELSE Inactive
    [] nec.state = "bit_space" ->
         LET n == [nec EXCEPT !.necx_repeat = @ /\ Len(nec.bits) <= 1]
             With(b) == [n EXCEPT !.bits = Append(@, b),
                                  !.state = IF Len(nec.bits) + 1 = Bits
                                            THEN "trailer_pulse" ELSE "bit_pulse"]
         IN IF ev.pulse THEN Inactive
            ELSE IF Near(ev.duration, 3 * Unit, Unit \div 2) THEN With(1)
            ELSE IF Near(ev.duration, Unit, Unit \div 2) THEN With(0)
            ELSE [Inactive EXCEPT !.necx_repeat = n.necx_repeat]
    [] nec.state = "trailer_pulse" -> IF IsBitPulse(ev) THEN To("trailer_space") ELSE Inactive
    [] nec.state = "trailer_space" ->
         [Inactive EXCEPT !.necx_repeat =
            @ \/ (IsTrailer(ev) /\ Len(nec.bits) = Bits /\ nec.is_nec_x)]

\* The k-th byte received; bitrev8 puts its first bit lowest.
Byte(k) == Reversed(SubSeq(nec.bits, (k - 1) * ByteLen + 1, k * ByteLen))

\* ir_nec_bytes_to_scancode
Scancode ==
  CASE Byte(4) # Complement(Byte(3)) ->
         [proto |-> "nec32", address |-> Byte(1), not_address |-> Byte(2),
          command |-> Byte(3), not_command |-> Byte(4)]
    [] Byte(4) = Complement(Byte(3)) /\ Byte(2) # Complement(Byte(1)) ->
         [proto |-> "necx", address |-> Byte(1), not_address |-> Byte(2), command |-> Byte(3)]
    [] OTHER -> [proto |-> "nec", address |-> Byte(1), command |-> Byte(3)]

\* What it reports: a scancode (rc_keydown), Rpt (rc_repeat), or nothing.
Reported(ev) ==
  CASE nec.state = "bit_space" /\ nec.necx_repeat /\ Len(nec.bits) = 1 /\ IsTrailer(ev) ->
         Rpt
    [] nec.state = "trailer_space" /\ IsTrailer(ev) ->
         IF Len(nec.bits) = Bits THEN Scancode ELSE Rpt
    [] OTHER -> NULL

-----------------------------------------------------------------------------
(* ir_raw_event_thread                                                     *)

\* An event is decoded, under ir_raw_handler_lock.
Decode ==
  /\ at_raw = "drain" /\ kfifo # <<>>
  /\ kfifo' = Tail(kfifo)
  /\ nec' = Decoded(Head(kfifo))
  /\ LET r == Reported(Head(kfifo)) IN
       IF r = NULL THEN UNCHANGED <<owed, mistaken>>
       ELSE /\ mistaken' = (mistaken \/ owed = <<>> \/ r # Head(owed))
            /\ owed' = IF owed = <<>> THEN owed ELSE Tail(owed)
  /\ UNCHANGED <<air, receiver, thread, overflowed>>

\* With the FIFO empty it declares that it is going to sleep,
Drained ==
  /\ at_raw = "drain" /\ kfifo = <<>>
  /\ at_raw' = "set"
  /\ UNCHANGED <<air, receiver, kfifo, nec, runnable, owed, overflowed, mistaken>>

Declare ==
  /\ at_raw = "set"
  /\ at_raw' = "check" /\ runnable' = FALSE
  /\ UNCHANGED <<air, receiver, kfifo, nec, owed, overflowed, mistaken>>

\* Fault: it does not look again.
CheckNothing ==
  /\ at_raw = "check"
  /\ at_raw' = "schedule"
  /\ UNCHANGED <<air, receiver, kfifo, nec, runnable, owed, overflowed, mistaken>>

\* looks at the FIFO again,
Check ==
  /\ at_raw = "check"
  /\ at_raw' = "schedule" /\ runnable' = (runnable \/ kfifo # <<>>)
  /\ UNCHANGED <<air, receiver, kfifo, nec, owed, overflowed, mistaken>>

\* and sleeps unless it was woken since.
Schedule ==
  /\ at_raw = "schedule"
  /\ at_raw' = IF runnable THEN "drain" ELSE "asleep"
  /\ UNCHANGED <<air, receiver, kfifo, nec, runnable, owed, overflowed, mistaken>>

\* After an event was dropped nothing is followed any more.
Ended == overflowed /\ UNCHANGED vars

Next ==
  \/ Ended
  \/ ~overflowed /\ (Send \/ Cut \/ Sample \/ TimedOut
                     \/ Decode \/ Drained \/ Declare \/ Check \/ Schedule)

Spec == Init /\ [][Next]_vars

-----------------------------------------------------------------------------

\* What is reported is what was sent, in order: no frame is taken for another one, and
\* one that was cut off is not reported and does not spoil the next, unless an event
\* was dropped (rc-ir-raw.c:82-179, ir-nec-decoder.c:41-171).
ReportsWhatIsSent == ~overflowed => ~mistaken

\* A thread that sleeps has left nothing in the FIFO, and in silence then there is
\* nothing that was sent and not reported (rc-ir-raw.c:32-69, 173-179).
SentIsReported ==
  at_raw = "asleep" /\ ~overflowed => kfifo = <<>> /\ (silent => owed = <<>>)
=============================================================================
