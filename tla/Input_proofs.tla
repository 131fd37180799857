---------------------------- MODULE Input_proofs ----------------------------
(***************************************************************************)
(* The input devices of a board, for any sizes, times and codes.  Who      *)
(* reads an input device has the keys pressed.  A table of scancodes stays *)
(* within its allocation, and the search by halving finds what was put     *)
(* into it.  The infrared frames reported are those sent: each event on    *)
(* its way is labelled with the frame it belongs to.  At the end, the      *)
(* types of the whole board.                                               *)
(***************************************************************************)
EXTENDS Drivers_proofs

-----------------------------------------------------------------------------
(* The input core.                                                         *)

\* A remainder of what is less than twice the divisor.
LEMMA WrapsOnce ==
  ASSUME NEW d \in Nat \ {0}, NEW n \in Nat, n < 2 * d
  PROVE  n % d = IF n < d THEN n ELSE n - d
<1> DEFINE q == n \div d
           r == n % d
<1>1. q \in Nat /\ r \in 0..d-1 /\ n = d * q + r
  BY Divides
<1>2. q < 2
  BY DividesBelow
<1> HIDE DEF q, r
<1>3. q = 0 \/ q = 1
  BY <1>1, <1>2
<1>4. CASE q = 0
  <2>1. d * q = 0
    BY <1>4
  <2> QED BY <1>1, <2>1 DEF r
<1>5. CASE q = 1
  <2>1. d * q = d
    BY <1>5
  <2> QED BY <1>1, <2>1 DEF r
<1> QED BY <1>3, <1>4, <1>5

\* The slot of the event j places behind index o, and how many there are up to i.
Index == 0..(2 * FifoSize - 1)
Cell(o, j) ==
  LET p == IF o + j < 2 * FifoSize THEN o + j ELSE o + j - 2 * FifoSize
  IN  IF p < FifoSize THEN p ELSE p - FifoSize
Waiting(i, o) == IF i >= o THEN i - o ELSE i + 2 * FifoSize - o

\* The index arithmetic of the kfifo.
LEMMA InputIndices ==
  /\ \A i \in Index : I!Slot(i) = Cell(i, 0)
  /\ \A i \in Index : I!Plus(i, 1) = IF i + 1 = 2 * FifoSize THEN 0 ELSE i + 1
  /\ out \in Index => \A i \in Index : I!Used(i) = Waiting(i, out)
<1>1. ASSUME NEW i \in Index PROVE I!Slot(i) = Cell(i, 0)
  <2>1. i \in Nat /\ i < 2 * FifoSize
    BY InputAssumption DEF Index
  <2>2. i % FifoSize = IF i < FifoSize THEN i ELSE i - FifoSize
    BY <2>1, WrapsOnce, InputAssumption
  <2> QED BY <2>1, <2>2, InputAssumption DEF I!Slot, Cell
<1>2. ASSUME NEW n \in Nat, n < 2 * (2 * FifoSize)
      PROVE  n % (2 * FifoSize) = IF n < 2 * FifoSize THEN n ELSE n - 2 * FifoSize
  <2>1. 2 * FifoSize \in Nat \ {0}
    BY InputAssumption
  <2> QED BY <1>2, <2>1, WrapsOnce
<1>3. ASSUME NEW i \in Index
      PROVE  I!Plus(i, 1) = IF i + 1 = 2 * FifoSize THEN 0 ELSE i + 1
  BY <1>2, InputAssumption DEF Index, I!Plus
<1>4. ASSUME out \in Index, NEW i \in Index
      PROVE  I!Used(i) = Waiting(i, out)
  <2>1. i \in Nat /\ out \in Nat /\ i < 2 * FifoSize /\ out < 2 * FifoSize /\ 2 * FifoSize \in Nat
    BY <1>4, InputAssumption DEF Index
  <2> DEFINE m == 2 * FifoSize
             x == i + m - out
  <2>2. x \in Nat /\ x < 2 * m
    BY <2>1
  <2>3. x % m = IF x < m THEN x ELSE x - m
    BY <1>2, <2>2
  <2> HIDE DEF m
  <2>4. (IF x < m THEN x ELSE x - m) = (IF i >= out THEN i - out ELSE i + m - out)
    BY <2>1 DEF m
  <2> QED BY <2>3, <2>4 DEF I!Used, Waiting, m
<1> QED BY <1>1, <1>3, <1>4

\* Slots of waiting events are slots, and no two events share one.
LEMMA InputCells ==
  ASSUME NEW o \in Index
  PROVE  /\ \A j \in 0..FifoSize : Cell(o, j) \in 0..FifoSize - 1
         /\ \A j, k \in 0..FifoSize : j < k /\ k < j + FifoSize => Cell(o, j) # Cell(o, k)
         /\ \A j \in 0..FifoSize - 1 :
              Cell(IF o + 1 = 2 * FifoSize THEN 0 ELSE o + 1, j) = Cell(o, j + 1)
         /\ \A i \in Index : /\ Waiting(i, o) \in Nat
                             /\ (Waiting(i, o) = 0) <=> (i = o)
                             /\ Waiting(i, o) <= FifoSize => Cell(o, Waiting(i, o)) = Cell(i, 0)
BY InputAssumption DEF Index, Cell, Waiting

\* The slot to be written is the one behind the events waiting.
LEMMA InputPlace ==
  ASSUME NEW o \in Index, NEW i \in Index, Waiting(i, o) < FifoSize
  PROVE  Waiting(i, o) \in Nat /\ I!Slot(i) = Cell(o, Waiting(i, o))
<1>1. Waiting(i, o) \in Nat /\ Waiting(i, o) <= FifoSize
  BY InputAssumption DEF Index, Waiting
<1>2. Cell(o, Waiting(i, o)) = Cell(i, 0)
  BY <1>1, InputCells
<1> QED BY <1>1, <1>2, InputIndices

\* Writing an event makes one more wait, reading one makes it one less.
LEMMA InputCounts ==
  ASSUME NEW o \in Index, NEW i \in Index
  PROVE  /\ Waiting(i, o) < FifoSize =>
              Waiting(IF i + 1 = 2 * FifoSize THEN 0 ELSE i + 1, o) = Waiting(i, o) + 1
         /\ i # o =>
              Waiting(i, IF o + 1 = 2 * FifoSize THEN 0 ELSE o + 1) = Waiting(i, o) - 1
BY InputAssumption DEF Index, Waiting

\* What the reader makes of an event, and which of them are as they should be.
Made(e, s) ==
  IF e.key = NULL \/ e.value = 2 THEN s
  ELSE IF e.value = 0 THEN s \ {e.key} ELSE s \cup {e.key}
Fits(e, s) == e.value = 2 /\ e.by = "timer" => e.key \in s

\* Whoever has the keys q and reads the events from index o to i gets to the keys t.
Replay(b, i, o, q, t) ==
  \E s \in [0..Waiting(i, o) -> SUBSET InputKeys] :
    /\ s[0] = q /\ s[Waiting(i, o)] = t
    /\ \A j \in 0..(Waiting(i, o) - 1) :
         s[j + 1] = Made(b[Cell(o, j)], s[j]) /\ Fits(b[Cell(o, j)], s[j])

Bufs == [0..(FifoSize - 1) -> I!Event]

\* The slot behind the events is none of theirs.
LEMMA ReplaySlot ==
  ASSUME NEW b \in Bufs, NEW i \in Index, NEW o \in Index, NEW q, NEW t, NEW e,
         Replay(b, i, o, q, t), Waiting(i, o) < FifoSize
  PROVE  Replay([b EXCEPT ![I!Slot(i)] = e], i, o, q, t)
<1> DEFINE c == [b EXCEPT ![I!Slot(i)] = e]
           n == Waiting(i, o)
<1>1. n \in Nat /\ n < FifoSize /\ I!Slot(i) = Cell(o, n)
  BY InputPlace
<1>2. \A j \in 0..n-1 : Cell(o, j) # I!Slot(i) /\ Cell(o, j) \in 0..FifoSize - 1
  <2> HIDE DEF n
  <2> SUFFICES ASSUME NEW j \in 0..n-1
               PROVE  Cell(o, j) # I!Slot(i) /\ Cell(o, j) \in 0..FifoSize - 1
    OBVIOUS
  <2>1. j \in 0..FifoSize /\ n \in 0..FifoSize /\ j < n /\ n < j + FifoSize
    BY <1>1, InputAssumption
  <2> QED BY <1>1, <2>1, InputCells
<1>3. \A j \in 0..n-1 : c[Cell(o, j)] = b[Cell(o, j)]
  BY <1>2 DEF Bufs
<1> QED BY <1>3 DEF Replay

\* An event counted is one more to read.
LEMMA ReplayCount ==
  ASSUME NEW b \in Bufs, NEW i \in Index, NEW o \in Index, NEW q, NEW t,
         Replay(b, i, o, q, t), Waiting(i, o) < FifoSize,
         b[I!Slot(i)] \in I!Event, Fits(b[I!Slot(i)], t)
  PROVE  Replay(b, I!Plus(i, 1), o, q, Made(b[I!Slot(i)], t))
<1> DEFINE n == Waiting(i, o)
           e == b[I!Slot(i)]
           u == Made(e, t)
<1>0. I!Plus(i, 1) = IF i + 1 = 2 * FifoSize THEN 0 ELSE i + 1
  BY InputIndices
<1>1. n \in Nat /\ n < FifoSize /\ I!Slot(i) = Cell(o, n) /\ Waiting(I!Plus(i, 1), o) = n + 1
  BY <1>0, InputPlace, InputCounts
<1>2. PICK s \in [0..n -> SUBSET InputKeys] :
        /\ s[0] = q /\ s[n] = t
        /\ \A j \in 0..n-1 : s[j + 1] = Made(b[Cell(o, j)], s[j]) /\ Fits(b[Cell(o, j)], s[j])
  BY DEF Replay
<1>3. e = b[Cell(o, n)] /\ Fits(e, t) /\ e \in I!Event
  BY <1>1
<1> HIDE DEF n, e
<1>4. u \in SUBSET InputKeys
  <2>1. t \in SUBSET InputKeys
    BY <1>1, <1>2
  <2> QED BY <1>3, <2>1 DEF Made, I!Event
<1> HIDE DEF u
<1> DEFINE r == [j \in 0..(n + 1) |-> IF j <= n THEN s[j] ELSE u]
<1>5. r \in [0..(n + 1) -> SUBSET InputKeys]
  BY <1>1, <1>2, <1>4
<1>6. r[0] = q /\ r[n + 1] = u /\ r[n] = t
  BY <1>1, <1>2
<1>7. ASSUME NEW j \in 0..n
      PROVE  r[j + 1] = Made(b[Cell(o, j)], r[j]) /\ Fits(b[Cell(o, j)], r[j])
  <2>1. CASE j = n
    BY <1>1, <1>3, <1>6, <2>1 DEF u
  <2>2. CASE j # n
    <3>1. j \in 0..n-1 /\ j + 1 <= n /\ j <= n /\ j + 1 \in 0..n+1 /\ j \in 0..n+1
      BY <1>1, <2>2
    <3>2. r[j + 1] = s[j + 1] /\ r[j] = s[j]
      BY <3>1
    <3> QED BY <1>2, <3>1, <3>2
  <2> QED BY <2>1, <2>2
<1> HIDE DEF r
<1>8. (n + 1) - 1 = n
  BY <1>1
<1> QED BY <1>1, <1>5, <1>6, <1>7, <1>8 DEF Replay, u, e

\* Both together: kfifo_put.
LEMMA ReplayPut ==
  ASSUME NEW b \in Bufs, NEW i \in Index, NEW o \in Index, NEW q, NEW t, NEW e \in I!Event,
         Replay(b, i, o, q, t), Waiting(i, o) < FifoSize, Fits(e, t)
  PROVE  /\ [b EXCEPT ![I!Slot(i)] = e] \in Bufs
         /\ Replay([b EXCEPT ![I!Slot(i)] = e], I!Plus(i, 1), o, q, Made(e, t))
<1> DEFINE c == [b EXCEPT ![I!Slot(i)] = e]
<1>1. I!Slot(i) \in 0..FifoSize - 1
  BY InputIndices, InputCells, InputAssumption
<1>2. c \in Bufs /\ c[I!Slot(i)] = e
  BY <1>1 DEF Bufs
<1>3. Replay(c, i, o, q, t)
  BY ReplaySlot
<1> HIDE DEF c
<1>4. Replay(c, I!Plus(i, 1), o, q, Made(c[I!Slot(i)], t))
  BY <1>2, <1>3, ReplayCount
<1> QED BY <1>2, <1>4 DEF c

\* The first event is read, and its slot forgotten.
LEMMA ReplayRead ==
  ASSUME NEW b \in Bufs, NEW i \in Index, NEW o \in Index, NEW q, NEW t, NEW e,
         Replay(b, i, o, q, t), i # o, Waiting(i, o) <= FifoSize
  PROVE  /\ Fits(b[I!Slot(o)], q)
         /\ Replay([b EXCEPT ![I!Slot(o)] = e], i, I!Plus(o, 1), Made(b[I!Slot(o)], q), t)
<1> DEFINE n == Waiting(i, o)
           p == I!Plus(o, 1)
           c == [b EXCEPT ![I!Slot(o)] = e]
<1>1. /\ n \in Nat /\ n > 0 /\ n <= FifoSize /\ I!Slot(o) = Cell(o, 0)
      /\ p = (IF o + 1 = 2 * FifoSize THEN 0 ELSE o + 1) /\ Waiting(i, p) = n - 1
  BY InputIndices, InputCells, InputCounts, InputAssumption
<1>2. PICK s \in [0..n -> SUBSET InputKeys] :
        /\ s[0] = q /\ s[n] = t
        /\ \A j \in 0..n-1 : s[j + 1] = Made(b[Cell(o, j)], s[j]) /\ Fits(b[Cell(o, j)], s[j])
  BY DEF Replay
<1>3. \A j \in 0..FifoSize - 1 : Cell(p, j) = Cell(o, j + 1)
  BY <1>1, InputCells
<1> HIDE DEF n, p
<1>4. s[1] = Made(b[I!Slot(o)], q) /\ Fits(b[I!Slot(o)], q)
  <2>1. 0 \in 0..n-1
    BY <1>1
  <2>2. s[0 + 1] = Made(b[Cell(o, 0)], s[0]) /\ Fits(b[Cell(o, 0)], s[0])
    BY <1>2, <2>1
  <2> QED BY <1>1, <1>2, <2>2
<1> DEFINE r == [j \in 0..(n - 1) |-> s[j + 1]]
<1>5. r \in [0..(n - 1) -> SUBSET InputKeys] /\ r[0] = s[1] /\ r[n - 1] = t
  BY <1>1, <1>2
<1>6. ASSUME NEW j \in 0..(n - 2)
      PROVE  r[j + 1] = Made(c[Cell(p, j)], r[j]) /\ Fits(c[Cell(p, j)], r[j])
  <2>1. j + 1 \in 0..n-1 /\ j \in 0..n-1 /\ j \in 0..FifoSize-1 /\ j + 1 \in 0..FifoSize
        /\ 0 \in 0..FifoSize /\ 0 < j + 1 /\ j + 1 < 0 + FifoSize
    BY <1>1, InputAssumption
  <2>2. Cell(p, j) = Cell(o, j + 1) /\ Cell(o, j + 1) # I!Slot(o) /\ Cell(o, j + 1) \in 0..FifoSize-1
    BY <1>1, <1>3, <2>1, InputCells
  <2>3. c[Cell(p, j)] = b[Cell(o, j + 1)]
    BY <2>2 DEF Bufs
  <2>4. r[j + 1] = s[(j + 1) + 1] /\ r[j] = s[j + 1]
    BY <2>1
  <2> QED BY <1>2, <2>1, <2>3, <2>4
<1> HIDE DEF r, c
<1>7. (n - 1) - 1 = n - 2
  BY <1>1
<1>8. Replay(c, i, p, s[1], t)
  BY <1>1, <1>5, <1>6, <1>7 DEF Replay
<1> QED BY <1>4, <1>8 DEF c, p

\* All events counted so far may tell of the keys t: those pressed, or those that the
\* event on its way makes those pressed.
Told(t) ==
  IF src \in {"load", "slot", "in"} THEN Made(ev, t) = key ELSE t = key
Replayed == \E t \in SUBSET InputKeys : Told(t) /\ Replay(buf, in, out, seen, t)

\* Where a report is, until an event is lost or a report trampled on.
Reporting ==
  /\ src \in {"load", "slot", "in"} => ev.by = "driver"
  /\ src \in {"slot", "in"} => old = in /\ Waiting(in, out) < FifoSize
  /\ src = "in" => buf[I!Slot(in)] = ev

InputFine == Waiting(in, out) <= FifoSize /\ ~odd /\ Reporting /\ Replayed
InputInv == I!TypeOK /\ (~I!Over => InputFine)

\* The types, in the terms of the lemmas above.
LEMMA InputTypes ==
  ASSUME I!TypeOK
  PROVE  /\ in \in Index /\ out \in Index /\ buf \in Bufs /\ I!Used(in) = Waiting(in, out)
         /\ I!Full(in) <=> Waiting(in, out) >= FifoSize
         /\ \A i \in Index : I!Plus(i, 1) \in Index /\ I!Slot(i) \in 0..FifoSize - 1
<1>1. in \in Index /\ out \in Index /\ buf \in Bufs
  BY DEF I!TypeOK, Index, Bufs
<1>2. \A i \in Index : I!Plus(i, 1) \in Index /\ I!Slot(i) \in 0..FifoSize - 1
  <2> SUFFICES ASSUME NEW i \in Index
               PROVE  I!Plus(i, 1) \in Index /\ I!Slot(i) \in 0..FifoSize - 1
    OBVIOUS
  <2>1. I!Plus(i, 1) = (IF i + 1 = 2 * FifoSize THEN 0 ELSE i + 1)
    BY InputIndices
  <2>2. I!Slot(i) = Cell(i, 0) /\ Cell(i, 0) \in 0..FifoSize - 1
    BY InputIndices, InputCells, InputAssumption
  <2> QED BY <2>1, <2>2, InputAssumption DEF Index
<1>3. I!Used(in) = Waiting(in, out)
  BY <1>1, InputIndices
<1> QED BY <1>1, <1>2, <1>3 DEF I!Full

\* At first no key is pressed and nothing to be read.
LEMMA InputInit == I!Init => InputInv
<1> SUFFICES ASSUME I!Init PROVE InputInv
  OBVIOUS
<1>1. I!Sync \in I!Event
  BY DEF I!Sync, I!Event
<1>2. 0 \in 0..(2 * FifoSize - 1)
  BY InputAssumption
<1>3. I!TypeOK
  BY <1>1, <1>2 DEF I!Init, I!TypeOK
<1>4. Waiting(in, out) = 0
  BY <1>2 DEF I!Init, Waiting
<1>5. Replayed
  <2> DEFINE s == [j \in 0..0 |-> seen]
  <2>1. seen = {} /\ key = {} /\ Told({})
    BY DEF I!Init, Told
  <2>2. s \in [0..0 -> SUBSET InputKeys] /\ s[0] = seen
    BY <2>1
  <2>3. 0..(0 - 1) = {}
    OBVIOUS
  <2>4. Replay(buf, in, out, seen, {})
    BY <1>4, <2>1, <2>2, <2>3 DEF Replay
  <2> QED BY <2>1, <2>4 DEF Replayed
<1>6. ~odd /\ src = "idle"
  BY DEF I!Init
<1> QED
  BY <1>3, <1>4, <1>5, <1>6, InputAssumption DEF InputInv, InputFine, Reporting

\* While nothing of the kfifo changes, what is read from it stays what it was.
LEMMA InputStill ==
  ASSUME UNCHANGED <<buf, in, out, seen>>
  PROVE  /\ Waiting(in, out)' = Waiting(in, out) /\ I!Slot(in)' = I!Slot(in)
         /\ \A t : Replay(buf, in, out, seen, t)' <=> Replay(buf, in, out, seen, t)
<1>1. Waiting(in, out)' = Waiting(in, out) /\ I!Slot(in)' = I!Slot(in)
  BY DEF Waiting, I!Slot
<1>2. \A t : Replay(buf, in, out, seen, t)' <=> Replay(buf, in, out, seen, t)
  OBVIOUS
<1> QED BY <1>1, <1>2

\* A driver reports: the bit is set, the event on its way (input.c:280-296, 471-484).
LEMMA InputReport ==
  ASSUME InputInv, ~I!Over, NEW k \in InputKeys, NEW v \in 0..2, I!Report(k, v)
  PROVE  InputInv'
<1>1. /\ src = "idle" /\ src' = "load" /\ key' = I!Bits(k, v)
      /\ ev' = [key |-> k, value |-> v, by |-> "driver"]
      /\ UNCHANGED <<buf, in, out, seen, odd, old, repeat_key, timer, firing, dropped, trampled>>
  BY DEF I!Report, I!fifo, I!repeat, I!reader
<1>2. ev' \in I!Event /\ key \subseteq InputKeys /\ key' \subseteq InputKeys
  BY <1>1 DEF I!Event, I!Bits, InputInv, I!TypeOK
<1>3. I!TypeOK'
  BY <1>1, <1>2 DEF InputInv, I!TypeOK
<1>4. PICK t \in SUBSET InputKeys : t = key /\ Replay(buf, in, out, seen, t)
  BY <1>1 DEF InputInv, InputFine, Replayed, Told
<1>5. Told(t)'
  <2>1. ev'.key = k /\ ev'.value = v /\ k # NULL
    BY <1>1, InputAssumption
  <2>2. Made(ev', t) = key'
    BY <1>1, <1>4, <2>1 DEF Made, I!Bits
  <2> QED BY <1>1, <2>2 DEF Told
<1>6. Replayed'
  BY <1>1, <1>4, <1>5, InputStill DEF Replayed
<1>7. Reporting' /\ Waiting(in, out)' <= FifoSize /\ ~odd'
  BY <1>1, InputStill DEF InputInv, InputFine, Reporting
<1> QED BY <1>3, <1>6, <1>7 DEF InputInv, InputFine

\* kfifo_put finds room or not.
LEMMA InputPutLoad ==
  ASSUME InputInv, ~I!Over, I!PutLoad
  PROVE  InputInv'
<1>1. /\ src = "load" /\ old' = in /\ src' = (IF I!Full(in) THEN "repeat" ELSE "slot")
      /\ dropped' = (dropped \/ I!Full(in))
      /\ UNCHANGED <<key, buf, in, out, ev, repeat_key, timer, firing, seen, odd, trampled>>
  BY DEF I!PutLoad, I!fifo, I!repeat, I!reader
<1>2. (I!Full(in) <=> Waiting(in, out) >= FifoSize) /\ Waiting(in, out) \in Nat
  BY InputTypes, InputCells DEF InputInv
<1>3. I!TypeOK'
  <2>1. (dropped \/ I!Full(in)) \in BOOLEAN
    BY <1>2 DEF InputInv, I!TypeOK
  <2>2. src' \in {"repeat", "slot"}
    BY <1>1
  <2> QED BY <1>1, <2>1, <2>2 DEF InputInv, I!TypeOK
<1>4. ASSUME ~I!Over' PROVE InputFine'
  <2>1. src' = "slot" /\ Waiting(in, out) < FifoSize
    <3>1. ~dropped'
      BY <1>4 DEF I!Over
    <3>2. ~I!Full(in)
      BY <1>1, <3>1
    <3> QED BY <1>1, <1>2, <3>2, InputAssumption
  <2>2. PICK t \in SUBSET InputKeys : Told(t) /\ Replay(buf, in, out, seen, t)
    BY DEF InputInv, InputFine, Replayed
  <2>3. Told(t)'
    BY <1>1, <2>1, <2>2 DEF Told
  <2>4. Replayed'
    BY <1>1, <2>2, <2>3, InputStill DEF Replayed
  <2>5. Reporting' /\ Waiting(in, out)' <= FifoSize /\ ~odd'
    BY <1>1, <2>1, InputStill DEF InputInv, InputFine, Reporting
  <2> QED BY <2>4, <2>5 DEF InputFine
<1> QED BY <1>3, <1>4 DEF InputInv

\* It writes the event behind those waiting.
LEMMA InputPutSlot ==
  ASSUME InputInv, ~I!Over, I!PutSlot
  PROVE  InputInv'
<1>1. /\ src = "slot" /\ src' = "in" /\ buf' = [buf EXCEPT ![I!Slot(old)] = ev]
      /\ UNCHANGED <<key, in, out, ev, old, repeat_key, timer, firing, seen, odd, dropped, trampled>>
  BY DEF I!PutSlot, I!repeat, I!reader
<1>2. I!TypeOK'
  BY <1>1 DEF InputInv, I!TypeOK
<1>3. old = in /\ Waiting(in, out) < FifoSize /\ Waiting(in, out) <= FifoSize /\ ~odd /\ Reporting
  BY <1>1 DEF InputInv, InputFine, Reporting
<1>4. PICK t \in SUBSET InputKeys : Told(t) /\ Replay(buf, in, out, seen, t)
  BY DEF InputInv, InputFine, Replayed
<1>5. in \in Index /\ out \in Index /\ buf \in Bufs /\ I!Slot(in) \in 0..FifoSize - 1
  BY InputTypes DEF InputInv
<1>6. Replay(buf', in', out', seen', t)
  <2>1. Replay([buf EXCEPT ![I!Slot(in)] = ev], in, out, seen, t)
    BY <1>3, <1>4, <1>5, ReplaySlot
  <2> QED BY <1>1, <1>3, <2>1
<1>7. Told(t)'
  BY <1>1, <1>4 DEF Told
<1>8. Replayed'
  BY <1>6, <1>7 DEF Replayed
<1>9. Waiting(in, out)' = Waiting(in, out) /\ I!Slot(in)' = I!Slot(in) /\ buf'[I!Slot(in)] = ev
  BY <1>1, <1>3, <1>5 DEF Waiting, I!Slot, Bufs
<1>10. Reporting'
  BY <1>1, <1>3, <1>9 DEF Reporting
<1> QED BY <1>1, <1>2, <1>3, <1>8, <1>9, <1>10 DEF InputInv, InputFine

\* It counts it: the keys it tells of are those pressed.
LEMMA InputPutIn ==
  ASSUME InputInv, ~I!Over, I!PutIn
  PROVE  InputInv'
<1>1. /\ src = "in" /\ src' = "repeat" /\ in' = I!Plus(old, 1)
      /\ UNCHANGED <<key, buf, out, ev, old, repeat_key, timer, firing, seen, odd, dropped, trampled>>
  BY DEF I!PutIn, I!repeat, I!reader
<1>2. I!TypeOK'
  <2>1. in' \in 0..(2 * FifoSize - 1)
    BY <1>1, InputTypes DEF InputInv, I!TypeOK, Index
  <2> QED BY <1>1, <2>1 DEF InputInv, I!TypeOK
<1>3. /\ old = in /\ Waiting(in, out) < FifoSize /\ ~odd
      /\ buf[I!Slot(in)] = ev /\ ev.by = "driver"
  BY <1>1 DEF InputInv, InputFine, Reporting
<1>4. PICK t \in SUBSET InputKeys : Told(t) /\ Replay(buf, in, out, seen, t)
  BY DEF InputInv, InputFine, Replayed
<1>5. in \in Index /\ out \in Index /\ buf \in Bufs /\ ev \in I!Event
  BY InputTypes DEF InputInv, I!TypeOK
<1>6. Made(ev, t) = key /\ Fits(ev, t)
  BY <1>1, <1>3, <1>4 DEF Told, Fits
<1>7. Replay(buf, in', out, seen, key)
  BY <1>1, <1>3, <1>4, <1>5, <1>6, ReplayCount
<1>8. Replayed'
  <2>1. PICK u \in SUBSET InputKeys : u = key
    BY DEF InputInv, I!TypeOK
  <2>2. Told(u)' /\ Replay(buf', in', out', seen', u)
    BY <1>1, <1>7, <2>1 DEF Told
  <2> QED BY <2>2 DEF Replayed
<1>9. Waiting(in, out)' <= FifoSize
  <2>1. in' = IF in + 1 = 2 * FifoSize THEN 0 ELSE in + 1
    BY <1>1, <1>3, <1>5, InputIndices
  <2>2. Waiting(in', out) = Waiting(in, out) + 1 /\ Waiting(in, out) \in Nat
    BY <1>3, <1>5, <2>1, InputCounts, InputCells
  <2>3. Waiting(in, out)' = Waiting(in', out)
    BY <1>1 DEF Waiting
  <2> QED BY <1>3, <2>2, <2>3, InputAssumption
<1>10. Reporting'
  BY <1>1 DEF Reporting
<1> QED BY <1>1, <1>2, <1>3, <1>8, <1>9, <1>10 DEF InputInv, InputFine

\* The timer is started, stopped or left alone; it expires; it has nothing to repeat.
LEMMA InputTimer ==
  ASSUME InputInv, ~I!Over, I!Autorepeat \/ I!Expire \/ (I!RepeatKey /\ repeat_key \notin key)
  PROVE  InputInv'
<1>1. /\ UNCHANGED <<key, buf, in, out, seen, odd, dropped, trampled>>
      /\ UNCHANGED <<src, ev, old>> \/ (src = "repeat" /\ src' = "idle")
  BY DEF I!Autorepeat, I!Expire, I!RepeatKey, I!fifo, I!source, I!repeat, I!reader
<1>2. I!TypeOK'
  <2>1. CASE I!Autorepeat
    <3>1. /\ src' = "idle" /\ ev' = I!Sync /\ old' = 0 /\ firing' = firing
          /\ repeat_key' \in {ev.key, repeat_key} /\ timer' \in {timer, (ev.value = 1)}
      BY <2>1 DEF I!Autorepeat
    <3>2. I!Sync \in I!Event /\ 0 \in 0..(2 * FifoSize - 1) /\ ev.key \in InputKeys \cup {NULL}
      BY InputAssumption DEF I!Sync, I!Event, InputInv, I!TypeOK
    <3>3. timer' \in BOOLEAN /\ repeat_key' \in InputKeys \cup {NULL}
      BY <3>1, <3>2 DEF InputInv, I!TypeOK
    <3> QED BY <1>1, <3>1, <3>2, <3>3 DEF InputInv, I!TypeOK
  <2>2. CASE I!Expire \/ (I!RepeatKey /\ repeat_key \notin key)
    <3>1. /\ timer' \in {FALSE, timer} /\ firing' \in {TRUE, FALSE}
          /\ UNCHANGED <<src, ev, old, repeat_key>>
      BY <2>2 DEF I!Expire, I!RepeatKey, I!source
    <3> QED BY <1>1, <3>1 DEF InputInv, I!TypeOK
  <2> QED BY <2>1, <2>2
<1>3. InputFine'
  <2>1. PICK t \in SUBSET InputKeys : Told(t) /\ Replay(buf, in, out, seen, t)
    BY DEF InputInv, InputFine, Replayed
  <2>2. Told(t)'
    BY <1>1, <2>1 DEF Told
  <2>3. Replayed'
    BY <1>1, <2>1, <2>2, InputStill DEF Replayed
  <2>4. Reporting'
    BY <1>1, InputStill DEF InputInv, InputFine, Reporting
  <2> QED BY <1>1, <2>3, <2>4, InputStill DEF InputInv, InputFine
<1> QED BY <1>2, <1>3 DEF InputInv

\* The timer repeats the key pressed last while it is pressed (input.c:578-600).
LEMMA InputRepeats ==
  ASSUME InputInv, ~I!Over, I!RepeatKey, repeat_key \in key
  PROVE  InputInv'
<1> DEFINE a == [key |-> repeat_key, value |-> 2, by |-> "timer"]
           i == IF I!Full(in) THEN in ELSE I!Plus(in, 1)
           x == IF I!Full(in) THEN buf ELSE [buf EXCEPT ![I!Slot(in)] = a]
<1>1. /\ firing' = FALSE /\ timer' = TRUE /\ trampled' = (trampled \/ I!Torn)
      /\ buf' = (IF I!Full(i) THEN x ELSE [x EXCEPT ![I!Slot(i)] = I!Sync])
      /\ in' = (IF I!Full(i) THEN i ELSE I!Plus(i, 1))
      /\ UNCHANGED <<key, out, src, ev, old, repeat_key, seen, odd, dropped>>
  BY DEF I!RepeatKey, I!PutBoth, I!source, I!reader
<1>2. /\ in \in Index /\ out \in Index /\ buf \in Bufs
      /\ \A m \in Index : /\ I!Plus(m, 1) \in Index /\ I!Slot(m) \in 0..FifoSize - 1
                          /\ I!Full(m) <=> Waiting(m, out) >= FifoSize
                          /\ Waiting(m, out) \in Nat
  BY InputTypes, InputIndices, InputCells DEF InputInv, I!Full
<1>3. a \in I!Event /\ I!Sync \in I!Event /\ repeat_key \in InputKeys
  BY DEF I!Event, I!Sync, InputInv, I!TypeOK
<1>4. i \in Index /\ x \in Bufs
  BY <1>2, <1>3 DEF Bufs
<1>5. in' \in Index /\ buf' \in Bufs
  <2> HIDE DEF i, x
  <2> QED BY <1>1, <1>2, <1>3, <1>4 DEF Bufs
<1>6. I!TypeOK'
  <2>1. (trampled \/ I!Torn) \in BOOLEAN
    BY DEF InputInv, I!TypeOK, I!Torn
  <2> QED BY <1>1, <1>5, <2>1 DEF InputInv, I!TypeOK, Bufs, Index
<1>7. ASSUME ~I!Over' PROVE InputFine'
  <2>1. ~I!Torn /\ Waiting(in, out) <= FifoSize /\ ~odd /\ Reporting
    BY <1>1, <1>7 DEF I!Over, InputInv, InputFine
  <2>2. PICK t \in SUBSET InputKeys : Told(t) /\ Replay(buf, in, out, seen, t)
    BY DEF InputInv, InputFine, Replayed
  <2>3. repeat_key \in t
    <3>1. CASE src = "load"
      <4>1. Made(ev, t) = key /\ ~(ev.value = 1 /\ ev.key = repeat_key) /\ ev \in I!Event
        BY <2>1, <2>2, <3>1 DEF Told, I!Torn, InputInv, I!TypeOK
      <4> QED BY <4>1 DEF Made, I!Event
    <3>2. CASE src # "load"
      BY <2>1, <2>2, <3>2 DEF Told, I!Torn
    <3> QED BY <3>1, <3>2
  <2>4. Made(a, t) = t /\ Fits(a, t) /\ Made(I!Sync, t) = t /\ Fits(I!Sync, t)
    BY <2>3 DEF Made, Fits, I!Sync
  <2>5. Replay(x, i, out, seen, t) /\ Waiting(i, out) <= FifoSize
    <3>1. CASE I!Full(in)
      BY <2>1, <2>2, <3>1
    <3>2. CASE ~I!Full(in)
      <4>1. Waiting(in, out) < FifoSize /\ Waiting(in, out) \in Nat
        BY <1>2, <3>2, InputAssumption
      <4>2. Replay([buf EXCEPT ![I!Slot(in)] = a], I!Plus(in, 1), out, seen, Made(a, t))
        BY <1>2, <1>3, <2>2, <2>4, <4>1, ReplayPut
      <4>3. Waiting(I!Plus(in, 1), out) = Waiting(in, out) + 1
        BY <1>2, <4>1, InputIndices, InputCounts
      <4> QED BY <2>4, <3>2, <4>1, <4>2, <4>3, InputAssumption
    <3> QED BY <3>1, <3>2
  <2> HIDE DEF i, x, a
  <2>6. Replay(buf', in', out, seen, t) /\ Waiting(in', out) <= FifoSize
    <3>1. CASE I!Full(i)
      BY <1>1, <2>5, <3>1
    <3>2. CASE ~I!Full(i)
      <4>1. Waiting(i, out) < FifoSize /\ Waiting(i, out) \in Nat
        BY <1>2, <1>4, <3>2, InputAssumption
      <4>2. Replay([x EXCEPT ![I!Slot(i)] = I!Sync], I!Plus(i, 1), out, seen, Made(I!Sync, t))
        BY <1>2, <1>3, <1>4, <2>4, <2>5, <4>1, ReplayPut
      <4>3. Waiting(I!Plus(i, 1), out) = Waiting(i, out) + 1
        BY <1>2, <1>4, <4>1, InputIndices, InputCounts
      <4> QED BY <1>1, <2>4, <3>2, <4>1, <4>2, <4>3, InputAssumption
    <3> QED BY <3>1, <3>2
  <2>7. Told(t)' /\ Waiting(in, out)' = Waiting(in', out)
    BY <1>1, <2>2 DEF Told, Waiting
  <2>8. Reporting'
    BY <1>1, <2>1 DEF Reporting, I!Torn
  <2>9. Replayed'
    BY <1>1, <2>6, <2>7 DEF Replayed
  <2> QED BY <1>1, <2>1, <2>6, <2>7, <2>8, <2>9 DEF InputFine
<1> QED BY <1>6, <1>7 DEF InputInv

\* The reader takes an event (input.c:53-64).
LEMMA InputRead ==
  ASSUME InputInv, ~I!Over, I!Read
  PROVE  InputInv'
<1> DEFINE e == buf[I!Slot(out)]
<1>1. /\ in # out /\ seen' = Made(e, seen) /\ odd' = (odd \/ ~Fits(e, seen))
      /\ out' = I!Plus(out, 1) /\ buf' = [buf EXCEPT ![I!Slot(out)] = I!Sync]
      /\ UNCHANGED <<key, in, src, ev, old, repeat_key, timer, firing, dropped, trampled>>
  BY DEF I!Read, Made, Fits, I!source, I!repeat
<1>2. /\ in \in Index /\ out \in Index /\ buf \in Bufs /\ out' \in Index
      /\ I!Slot(out) \in 0..FifoSize - 1 /\ e \in I!Event /\ seen \subseteq InputKeys
  BY <1>1, InputTypes DEF InputInv, Bufs, I!TypeOK
<1>3. I!TypeOK'
  <2>1. seen' \subseteq InputKeys /\ odd' \in BOOLEAN
    BY <1>1, <1>2 DEF Made, I!Event, InputInv, I!TypeOK, Fits
  <2>2. I!Sync \in I!Event
    BY DEF I!Sync, I!Event
  <2>3. buf' \in Bufs
    BY <1>1, <1>2, <2>2 DEF Bufs
  <2> QED BY <1>1, <1>2, <2>1, <2>3 DEF InputInv, I!TypeOK, Bufs, Index
<1>4. InputFine'
  <2>1. Waiting(in, out) <= FifoSize /\ ~odd /\ Reporting
    BY DEF InputInv, InputFine
  <2>2. PICK t \in SUBSET InputKeys : Told(t) /\ Replay(buf, in, out, seen, t)
    BY DEF InputInv, InputFine, Replayed
  <2>3. Fits(e, seen) /\ Replay(buf', in, out', seen', t)
    BY <1>1, <1>2, <2>1, <2>2, ReplayRead
  <2>4. Waiting(in, out') = Waiting(in, out) - 1 /\ Waiting(in, out) \in Nat
        /\ Waiting(in, out) > 0
    <3>1. out' = IF out + 1 = 2 * FifoSize THEN 0 ELSE out + 1
      BY <1>1, <1>2, InputIndices
    <3>2. Waiting(in, out) \in Nat /\ Waiting(in, out) # 0
      BY <1>1, <1>2, InputCells
    <3> QED BY <1>1, <1>2, <3>1, <3>2, InputCounts
  <2>5. Waiting(in, out)' = Waiting(in, out')
    BY <1>1 DEF Waiting
  <2>6. ASSUME src \in {"slot", "in"}
        PROVE  buf'[I!Slot(in)] = buf[I!Slot(in)] /\ old = in
    <3>1. Waiting(in, out) < FifoSize /\ old = in
      BY <2>1, <2>6 DEF Reporting
    <3>2. I!Slot(in) = Cell(out, Waiting(in, out)) /\ I!Slot(out) = Cell(out, 0)
      BY <1>2, <3>1, InputPlace, InputIndices
    <3>3. Cell(out, 0) # Cell(out, Waiting(in, out))
      <4> DEFINE n == Waiting(in, out)
      <4>1. 0 \in 0..FifoSize /\ n \in 0..FifoSize /\ 0 < n /\ n < 0 + FifoSize
        BY <2>4, <3>1, InputAssumption
      <4> HIDE DEF n
      <4>2. Cell(out, 0) # Cell(out, n)
        BY <1>2, <4>1, InputCells
      <4> QED BY <4>2 DEF n
    <3>4. I!Slot(in) \in 0..FifoSize - 1
      BY InputTypes DEF InputInv
    <3> QED BY <1>1, <1>2, <3>1, <3>2, <3>3, <3>4 DEF Bufs
  <2>7. Reporting'
    <3>1. I!Slot(in)' = I!Slot(in)
      BY <1>1 DEF I!Slot
    <3>2. ASSUME src \in {"slot", "in"} PROVE Waiting(in, out)' < FifoSize
      <4>1. Waiting(in, out) < FifoSize
        BY <2>1, <3>2 DEF Reporting
      <4> QED BY <2>4, <2>5, <4>1, InputAssumption
    <3> QED BY <1>1, <2>1, <2>6, <3>1, <3>2 DEF Reporting
  <2>8. Waiting(in, out)' <= FifoSize
    BY <2>1, <2>4, <2>5, InputAssumption
  <2>9. Told(t)'
    BY <1>1, <2>2 DEF Told
  <2>10. Replayed'
    BY <1>1, <2>3, <2>9 DEF Replayed
  <2> QED BY <1>1, <2>1, <2>3, <2>7, <2>8, <2>10 DEF InputFine
<1> QED BY <1>3, <1>4 DEF InputInv

\* Every step of the driver, the timer and the reader.
LEMMA InputNext == InputInv /\ [I!Next]_InputVars => InputInv'
<1>1. ASSUME InputInv, UNCHANGED InputVars PROVE InputInv'
  <2>1. I!TypeOK'
    BY <1>1 DEF InputVars, InputInv, I!TypeOK
  <2>2. I!Over' = I!Over /\ (Replayed' <=> Replayed)
    <3>1. \A t : (Told(t)' <=> Told(t))
                 /\ (Replay(buf, in, out, seen, t)' <=> Replay(buf, in, out, seen, t))
      BY <1>1, InputStill DEF InputVars, Told
    <3> QED BY <1>1, <3>1 DEF InputVars, Replayed, I!Over
  <2>3. (Reporting' <=> Reporting) /\ Waiting(in, out)' = Waiting(in, out)
    BY <1>1, InputStill DEF InputVars, Reporting
  <2> QED BY <1>1, <2>1, <2>2, <2>3 DEF InputVars, InputInv, InputFine
<1>2. ASSUME InputInv, I!Lost PROVE InputInv'
  BY <1>1, <1>2
  DEF I!Lost, I!vars, I!fifo, I!source, I!repeat, I!reader, InputVars
<1>3. ASSUME InputInv, ~I!Over, I!RepeatKey PROVE InputInv'
  BY <1>3, InputTimer, InputRepeats
<1> QED
  BY <1>1, <1>2, <1>3, InputReport, InputPutLoad, InputPutSlot, InputPutIn, InputTimer,
     InputRead
  DEF I!Next

\* What the invariant of the input core promises.
LEMMA InputHolds == InputInv => I!TypeOK /\ I!ReaderAgrees /\ I!RepeatsPressed
<1> SUFFICES ASSUME InputInv PROVE I!TypeOK /\ I!ReaderAgrees /\ I!RepeatsPressed
  OBVIOUS
<1>1. ASSUME I!Settled, ~I!Over PROVE seen = key
  <2>1. Replay(buf, in, out, seen, key) /\ in = out /\ in \in Index
    BY <1>1, InputTypes DEF InputInv, InputFine, I!Settled, Replayed, Told
  <2>2. Waiting(in, out) = 0
    BY <2>1, InputAssumption DEF Waiting, Index
  <2> QED BY <2>1, <2>2 DEF Replay
<1> QED BY <1>1 DEF InputInv, InputFine, I!ReaderAgrees, I!RepeatsPressed

-----------------------------------------------------------------------------
(* The table of a remote control.                                          *)

\* Counting is the same wherever it is instantiated.
LEMMA KeymapCardinality == \A Z : K!Cardinality(Z) = Cardinality(Z)
BY DEF K!Cardinality, Cardinality

\* What is left of the table given, with what is in the table, fits into it, unless the
\* table given has a scancode twice; and what was copied is among what was given.
KeymapInv ==
  /\ scan \in Seq(K!Entries) /\ Len(scan) <= size
  /\ size \in K!Powers /\ size <= MaxSize
  /\ toload \in 0..MaxTable /\ failed \in BOOLEAN
  /\ loaded \subseteq Scancodes /\ doubled \in BOOLEAN
  /\ failed => doubled
  /\ toload > 0 /\ ~failed =>
       /\ \A i \in 1..Len(scan) : scan[i][1] \in loaded
       /\ ~doubled => Len(scan) + toload <= size

\* The sizes.
LEMMA KeymapSizes ==
  /\ \A p \in K!Powers : p \in Nat \ {0} /\ (p <= MaxSize /\ p < MaxSize => 2 * p <= MaxSize)
  /\ \A p \in K!Powers : p < MaxSize => 2 * p \in K!Powers
  /\ \A p \in K!Powers : p > 1 => p \div 2 \in K!Powers /\ 2 * (p \div 2) = p
  /\ \A n \in 1..MaxTable : K!RoundUp(n) \in K!Powers /\ n <= K!RoundUp(n) /\ K!RoundUp(n) <= MaxSize
<1> USE InputAssumption
<1>1. \A p \in K!Powers : p \in Nat \ {0} /\ (p < MaxSize => 2 * p <= MaxSize /\ 2 * p \in K!Powers)
  BY DEF K!Powers
<1>2. \A p \in K!Powers : p > 1 => p \div 2 \in K!Powers /\ 2 * (p \div 2) = p
  BY DEF K!Powers
<1>3. ASSUME NEW n \in 1..MaxTable
      PROVE  K!RoundUp(n) \in K!Powers /\ n <= K!RoundUp(n) /\ K!RoundUp(n) <= MaxSize
  <2>1. n \in Nat \ {0} /\ n <= MaxSize
    BY <1>1
  <2>2. \E p \in K!Powers : n <= p /\ p < 2 * n
    BY <2>1 DEF K!Powers
  <2>3. K!RoundUp(n) \in K!Powers /\ n <= K!RoundUp(n) /\ K!RoundUp(n) < 2 * n
    BY <2>2 DEF K!RoundUp
  <2>4. \A p \in K!Powers : n <= p /\ p < 2 * n => p <= MaxSize
    BY <2>1 DEF K!Powers
  <2> QED BY <2>3, <2>4
<1> QED BY <1>1, <1>2, <1>3

\* An empty table with room for the one given (rc-main.c:255-275).
LEMMA KeymapInit == K!Init => KeymapInv
<1> SUFFICES ASSUME K!Init PROVE KeymapInv
  OBVIOUS
<1>1. toload \in 1..MaxTable /\ size = K!RoundUp(toload) /\ failed = FALSE /\ loaded = {} /\ doubled = FALSE
      /\ scan = <<>>
  BY DEF K!Init
<1>2. size \in K!Powers /\ toload <= size /\ size <= MaxSize
  BY <1>1, KeymapSizes
<1>3. scan \in Seq(K!Entries) /\ Len(scan) = 0
  BY <1>1
<1>4. size \in Nat /\ toload \in 0..MaxTable /\ 1..Len(scan) = {} /\ Len(scan) + toload <= size
  BY <1>1, <1>2, <1>3, InputAssumption, KeymapSizes
<1>5. \A i \in 1..Len(scan) : scan[i][1] \in loaded
  BY <1>4
<1>6. loaded \subseteq Scancodes /\ Len(scan) <= size
  BY <1>1, <1>3, <1>4
<1>7. failed \in BOOLEAN /\ doubled \in BOOLEAN /\ (failed => doubled)
  BY <1>1
<1> QED BY <1>2, <1>3, <1>4, <1>5, <1>6, <1>7 DEF KeymapInv

\* Where a scancode goes is a place in the table or behind it.
LEMMA KeymapPlace ==
  ASSUME scan \in Seq(K!Entries), NEW s
  PROVE  K!Place(s) \in 1..Len(scan) + 1
<1> DEFINE lower == {i \in 1..Len(scan) : scan[i][1] < s}
<1> DEFINE top == Len(scan)
<1>0. top \in Nat
  OBVIOUS
<1>1. IsFiniteSet(1..top) /\ Cardinality(1..top) = top
  <2> HIDE DEF top
  <2>1. Cardinality(1..top) = IF 1 > top THEN 0 ELSE top - 1 + 1
    BY <1>0, FS_Interval
  <2> QED BY <1>0, <2>1, FS_Interval
<1>2. Cardinality(lower) \in Nat /\ Cardinality(lower) <= top
  BY <1>1, FS_Subset, FS_CardinalityType
<1>3. K!Place(s) = 1 + Cardinality(lower)
  BY KeymapCardinality DEF K!Place
<1> HIDE DEF lower
<1> QED BY <1>0, <1>2, <1>3

\* Taking an entry out adds none.
LEMMA KeymapRemove ==
  ASSUME NEW q \in Seq(K!Entries), NEW i \in 1..Len(q)
  PROVE  /\ K!TakenOut(q, i) \in Seq(K!Entries) /\ Len(K!TakenOut(q, i)) = Len(q) - 1
         /\ \A k \in 1..(Len(q) - 1) : K!TakenOut(q, i)[k] = IF k < i THEN q[k] ELSE q[k + 1]
         /\ \A k \in 1..Len(q) - 1 : \E n \in 1..Len(q) : K!TakenOut(q, i)[k] = q[n]
<1> DEFINE a == SubSeq(q, 1, i - 1)
           b == SubSeq(q, i + 1, Len(q))
<1>1. /\ a \in Seq(K!Entries) /\ Len(a) = i - 1
      /\ \A k \in 1..(i - 1) : a[k] = q[k]
  BY SubSeqProperties
<1>2. /\ b \in Seq(K!Entries) /\ Len(b) = Len(q) - i
      /\ \A k \in 1..(Len(q) - i) : b[k] = q[i + k]
  BY SubSeqProperties
<1>3. K!TakenOut(q, i) = a \o b
  BY DEF K!TakenOut
<1> HIDE DEF a, b
<1>4. /\ a \o b \in Seq(K!Entries) /\ Len(a \o b) = Len(a) + Len(b)
      /\ \A k \in 1..(Len(a) + Len(b)) :
           (a \o b)[k] = IF k <= Len(a) THEN a[k] ELSE b[k - Len(a)]
  BY <1>1, <1>2, ConcatProperties
<1>5. ASSUME NEW k \in 1..(Len(q) - 1)
      PROVE  (a \o b)[k] = IF k < i THEN q[k] ELSE q[k + 1]
  <2>0. k \in 1..(Len(a) + Len(b)) /\ Len(q) \in Nat /\ Len(a) = i - 1 /\ k \in Int /\ i \in Int
    BY <1>1, <1>2
  <2>1. CASE k < i
    BY <1>1, <1>4, <2>0, <2>1
  <2>2. CASE k >= i
    <3>1. PICK j \in 1..(Len(q) - i) : j = k - Len(a)
      BY <2>0, <2>2
    <3>2. (a \o b)[k] = b[j]
      BY <1>4, <2>0, <2>2, <3>1
    <3>3. b[j] = q[i + j] /\ i + j = k + 1
      BY <1>2, <2>0, <3>1
    <3> QED BY <2>0, <2>2, <3>2, <3>3
  <2> QED BY <2>0, <2>1, <2>2
<1>6. \A k \in 1..(Len(q) - 1) : \E n \in 1..Len(q) : (a \o b)[k] = q[n]
  <2>1. Len(q) \in Nat /\ \A k \in 1..(Len(q) - 1) : k \in 1..Len(q) /\ k + 1 \in 1..Len(q)
    OBVIOUS
  <2> QED BY <1>5, <2>1
<1>7. Len(a \o b) = Len(q) - 1
  BY <1>1, <1>2, <1>4
<1> QED BY <1>3, <1>4, <1>5, <1>6, <1>7

\* Putting an entry in moves those behind it up, and adds no other.
LEMMA KeymapInsert ==
  ASSUME NEW q \in Seq(K!Entries), NEW i \in 1..Len(q) + 1, NEW x \in K!Entries
  PROVE  /\ K!PutIn(q, i, x) \in Seq(K!Entries) /\ Len(K!PutIn(q, i, x)) = Len(q) + 1
         /\ K!PutIn(q, i, x)[i] = x
         /\ \A k \in 1..(Len(q) + 1) :
              k # i => K!PutIn(q, i, x)[k] = IF k < i THEN q[k] ELSE q[k - 1]
         /\ \A k \in 1..Len(q) + 1 : k # i => \E n \in 1..Len(q) : K!PutIn(q, i, x)[k] = q[n]
<1> DEFINE a == SubSeq(q, 1, i - 1)
           b == SubSeq(q, i, Len(q))
           c == a \o <<x>>
<1>1. /\ a \in Seq(K!Entries) /\ Len(a) = i - 1
      /\ \A k \in 1..(i - 1) : a[k] = q[k]
  BY SubSeqProperties
<1>2. /\ b \in Seq(K!Entries) /\ Len(b) = Len(q) - i + 1
      /\ \A k \in 1..(Len(q) - i + 1) : b[k] = q[i + k - 1]
  BY SubSeqProperties
<1>3. K!PutIn(q, i, x) = c \o b
  BY DEF K!PutIn
<1> HIDE DEF a, b
<1>4. /\ c \in Seq(K!Entries) /\ Len(c) = i /\ c[i] = x
      /\ \A k \in 1..(i - 1) : c[k] = q[k]
  <2>1. <<x>> \in Seq(K!Entries) /\ Len(<<x>>) = 1 /\ <<x>>[1] = x
    OBVIOUS
  <2>2. /\ c \in Seq(K!Entries) /\ Len(c) = Len(a) + 1
        /\ \A k \in 1..(Len(a) + 1) : c[k] = IF k <= Len(a) THEN a[k] ELSE <<x>>[k - Len(a)]
    BY <1>1, <2>1, ConcatProperties
  <2> HIDE DEF c
  <2> QED BY <1>1, <2>1, <2>2
<1> HIDE DEF c
<1>5. /\ c \o b \in Seq(K!Entries) /\ Len(c \o b) = Len(c) + Len(b)
      /\ \A k \in 1..(Len(c) + Len(b)) :
           (c \o b)[k] = IF k <= Len(c) THEN c[k] ELSE b[k - Len(c)]
  BY <1>2, <1>4, ConcatProperties
<1>6. ASSUME NEW k \in 1..(Len(q) + 1), k # i
      PROVE  (c \o b)[k] = IF k < i THEN q[k] ELSE q[k - 1]
  <2>0. k \in 1..(Len(c) + Len(b)) /\ Len(q) \in Nat /\ Len(c) = i /\ k \in Int /\ i \in Int
    BY <1>2, <1>4
  <2>1. CASE k < i
    BY <1>4, <1>5, <2>0, <2>1
  <2>2. CASE k > i
    <3>1. PICK j \in 1..(Len(q) - i + 1) : j = k - Len(c)
      BY <2>0, <2>2
    <3>2. (c \o b)[k] = b[j]
      BY <1>5, <2>0, <2>2, <3>1
    <3>3. b[j] = q[i + j - 1] /\ i + j - 1 = k - 1
      BY <1>2, <2>0, <3>1
    <3> QED BY <2>0, <2>2, <3>2, <3>3
  <2> QED BY <1>6, <2>0, <2>1, <2>2
<1>7. \A k \in 1..(Len(q) + 1) : k # i => \E n \in 1..Len(q) : (c \o b)[k] = q[n]
  <2>1. /\ Len(q) \in Nat
        /\ \A k \in 1..(Len(q) + 1) : (k < i => k \in 1..Len(q)) /\ (k > i => k - 1 \in 1..Len(q))
    OBVIOUS
  <2>2. \A k \in 1..(Len(q) + 1) : k # i => k < i \/ (k > i /\ ~(k < i))
    OBVIOUS
  <2> QED BY <1>6, <2>1, <2>2
<1>8. Len(c \o b) = Len(q) + 1 /\ (c \o b)[i] = x
  BY <1>2, <1>4, <1>5
<1> QED BY <1>3, <1>5, <1>6, <1>7, <1>8

\* ir_establish_scancode: the scancode has an entry, the others stay.
LEMMA KeymapEstablished ==
  ASSUME KeymapInv, NEW s \in Scancodes
  PROVE  /\ K!Established(s) \in Seq(K!Entries)
         /\ K!Place(s) \in 1..Len(K!Established(s))
         /\ Len(K!Established(s)) = IF K!Present(s) THEN Len(scan) ELSE Len(scan) + 1
         /\ ~K!Present(s) => K!Established(s)[K!Place(s)][2] = NULL
         /\ \A k \in 1..Len(K!Established(s)) :
              \/ K!Established(s)[k][1] = s
              \/ \E n \in 1..Len(scan) : K!Established(s)[k] = scan[n]
<1> DEFINE x == <<s, NULL>>
           p == K!Place(s)
<1>1. p \in 1..Len(scan) + 1 /\ x \in K!Entries /\ x[1] = s /\ x[2] = NULL /\ scan \in Seq(K!Entries)
  BY KeymapPlace DEF KeymapInv, K!Entries
<1>2. CASE K!Present(s)
  <2>1. p <= Len(scan) /\ K!Established(s) = scan
    BY <1>2 DEF K!Present, K!Established
  <2> QED BY <1>1, <1>2, <2>1
<1>3. CASE ~K!Present(s)
  <2>1. K!Established(s) = K!PutIn(scan, p, x)
    BY <1>3 DEF K!Established
  <2> HIDE DEF x, p
  <2>2. /\ K!PutIn(scan, p, x) \in Seq(K!Entries) /\ Len(K!PutIn(scan, p, x)) = Len(scan) + 1
        /\ K!PutIn(scan, p, x)[p] = x
        /\ \A k \in 1..Len(scan) + 1 : k # p => \E n \in 1..Len(scan) : K!PutIn(scan, p, x)[k] = scan[n]
    BY <1>1, KeymapInsert
  <2>3. p \in 1..Len(K!PutIn(scan, p, x))
    BY <1>1, <2>2
  <2> QED BY <1>1, <1>3, <2>1, <2>2, <2>3 DEF p
<1> QED BY <1>2, <1>3

\* ir_update_mapping: what is left fits into the size (rc-main.c:306-343).
LEMMA KeymapUpdate ==
  ASSUME KeymapInv, NEW q \in Seq(K!Entries), NEW i \in 1..Len(q), NEW k \in Keycodes \cup {NULL},
         NEW room \in K!Powers, room <= MaxSize, Len(q) <= room, K!Update(q, i, k, room)
  PROVE  /\ scan' \in Seq(K!Entries) /\ size' \in K!Powers /\ size' <= MaxSize
         /\ Len(scan') <= size' /\ Len(scan') <= Len(q)
         /\ q[i][2] = NULL => size' = room
         /\ \A m \in 1..Len(scan') : \E n \in 1..Len(q) : scan'[m][1] = q[n][1]
<1> DEFINE y == IF k = NULL THEN K!TakenOut(q, i) ELSE [q EXCEPT ![i] = <<@[1], k>>]
<1>1. /\ scan' = y
      /\ size' \in IF q[i][2] # NULL /\ room = size THEN {size, K!Resized(Len(y))} ELSE {room}
  BY DEF K!Update
<1>2. /\ y \in Seq(K!Entries) /\ Len(y) <= Len(q)
      /\ \A m \in 1..Len(y) : \E n \in 1..Len(q) : y[m][1] = q[n][1]
  <2>1. CASE k = NULL
    <3>1. y = K!TakenOut(q, i)
      BY <2>1
    <3> HIDE DEF y
    <3>2. /\ K!TakenOut(q, i) \in Seq(K!Entries) /\ Len(K!TakenOut(q, i)) = Len(q) - 1
          /\ \A m \in 1..Len(q) - 1 : \E n \in 1..Len(q) : K!TakenOut(q, i)[m] = q[n]
      BY KeymapRemove
    <3>3. Len(q) \in Nat
      OBVIOUS
    <3> QED BY <3>1, <3>2, <3>3
  <2>2. CASE k # NULL
    <3> DEFINE e == <<q[i][1], k>>
    <3>1. y = [q EXCEPT ![i] = e]
      BY <2>2
    <3>2. e \in K!Entries /\ e[1] = q[i][1]
      BY DEF K!Entries
    <3> HIDE DEF e, y
    <3>3. y \in Seq(K!Entries) /\ Len(y) = Len(q) /\ y[i] = e /\ \A m \in 1..Len(q) : m # i => y[m] = q[m]
      BY <3>1, <3>2
    <3>4. ASSUME NEW m \in 1..Len(y) PROVE \E n \in 1..Len(q) : y[m][1] = q[n][1]
      BY <3>2, <3>3
    <3> QED BY <3>3, <3>4
  <2> QED BY <2>1, <2>2
<1> HIDE DEF y
<1>3. Len(y) \in Nat /\ Len(y) <= room /\ room \in Nat /\ size \in K!Powers /\ size <= MaxSize /\ MaxSize \in Nat
  <2>1. Len(q) \in Nat
    OBVIOUS
  <2> QED BY <1>2, <2>1, KeymapSizes, InputAssumption DEF KeymapInv
<1>4. ASSUME room = size
      PROVE  /\ K!Resized(Len(y)) \in K!Powers /\ K!Resized(Len(y)) <= MaxSize
             /\ Len(y) <= K!Resized(Len(y))
  <2>0. size \in Nat /\ Len(y) <= size
    BY <1>3, <1>4
  <2>1. CASE Len(y) = size
    BY <1>3, <2>0, <2>1, KeymapSizes DEF K!Resized
  <2>2. CASE Len(y) # size /\ Len(y) * 3 < size /\ size > MinSize
    <3>1. size > 1 /\ K!Resized(Len(y)) = size \div 2
      BY <1>3, <2>0, <2>2, InputAssumption DEF K!Resized
    <3>2. size \div 2 \in K!Powers /\ 2 * (size \div 2) = size
      BY <1>3, <3>1, KeymapSizes
    <3>3. size \div 2 \in Nat
      BY <3>2, KeymapSizes
    <3> HIDE DEF K!Resized
    <3> QED BY <1>3, <2>0, <2>2, <3>1, <3>2, <3>3
  <2>3. CASE Len(y) # size /\ ~(Len(y) * 3 < size /\ size > MinSize)
    BY <1>3, <2>0, <2>3 DEF K!Resized
  <2> QED BY <2>1, <2>2, <2>3
<1> QED BY <1>1, <1>2, <1>3, <1>4

\* Copying an entry of the table given (rc-main.c:461-488).
LEMMA KeymapLoad ==
  ASSUME KeymapInv, NEW s \in Scancodes, NEW k \in Keycodes \cup {NULL}, K!Load(s, k)
  PROVE  KeymapInv'
<1>1. /\ toload > 0 /\ ~failed /\ toload' = toload - 1
      /\ loaded' = (IF toload = 1 THEN {} ELSE loaded \cup {s})
      /\ doubled' = (doubled \/ s \in loaded)
  BY DEF K!Load
<1>2. /\ toload' \in 0..MaxTable /\ loaded' \subseteq Scancodes /\ doubled' \in BOOLEAN
      /\ toload \in Nat
  <2>1. toload \in 0..MaxTable /\ MaxTable \in Nat
    BY InputAssumption DEF KeymapInv
  <2>2. loaded \subseteq Scancodes /\ doubled \in BOOLEAN
    BY DEF KeymapInv
  <2> QED BY <1>1, <2>1, <2>2
<1>3. K!Present(s) => s \in loaded
  <2> SUFFICES ASSUME K!Present(s) PROVE s \in loaded
    OBVIOUS
  <2>1. K!Place(s) \in 1..Len(scan) /\ scan[K!Place(s)][1] = s
    <3>1. K!Place(s) \in 1..Len(scan) + 1 /\ Len(scan) \in Nat
      BY KeymapPlace DEF KeymapInv
    <3> QED BY <3>1 DEF K!Present
  <2> QED BY <1>1, <2>1 DEF KeymapInv
<1>4. CASE K!Present(s) \/ Len(scan) < size
  <2> DEFINE q == K!Established(s)
             i == K!Place(s)
  <2>1. K!Update(q, i, k, size) /\ failed' = failed
    BY <1>4 DEF K!Load
  <2>2. /\ q \in Seq(K!Entries) /\ i \in 1..Len(q)
        /\ Len(q) = (IF K!Present(s) THEN Len(scan) ELSE Len(scan) + 1)
        /\ ~K!Present(s) => q[i][2] = NULL
        /\ \A j \in 1..Len(q) : q[j][1] = s \/ \E n \in 1..Len(scan) : q[j] = scan[n]
    BY KeymapEstablished
  <2>3. size \in K!Powers /\ size <= MaxSize /\ size \in Nat /\ Len(scan) \in Nat /\ Len(scan) <= size
    BY KeymapSizes DEF KeymapInv
  <2>4. Len(q) <= size
    BY <1>4, <2>2, <2>3
  <2> HIDE DEF q, i
  <2>5. /\ scan' \in Seq(K!Entries) /\ size' \in K!Powers /\ size' <= MaxSize
        /\ Len(scan') <= size' /\ Len(scan') <= Len(q)
        /\ q[i][2] = NULL => size' = size
        /\ \A m \in 1..Len(scan') : \E n \in 1..Len(q) : scan'[m][1] = q[n][1]
    BY <2>1, <2>2, <2>3, <2>4, KeymapUpdate
  <2>6. ASSUME toload' > 0
        PROVE  \A m \in 1..Len(scan') : scan'[m][1] \in loaded'
    <3>1. loaded' = loaded \cup {s}
      BY <1>1, <1>2, <2>6
    <3>2. \A n \in 1..Len(q) : q[n][1] \in loaded \cup {s}
      BY <1>1, <2>2 DEF KeymapInv
    <3> QED BY <2>5, <3>1, <3>2
  <2>7. ASSUME ~doubled' PROVE Len(scan') + toload' <= size'
    <3>1. ~doubled /\ ~K!Present(s)
      BY <1>1, <1>3, <2>7
    <3>2. size' = size /\ Len(q) = Len(scan) + 1 /\ Len(scan) + toload <= size /\ Len(scan') \in Nat
      BY <1>1, <2>2, <2>5, <3>1 DEF KeymapInv
    <3> QED BY <1>1, <1>2, <2>3, <2>5, <3>2
  <2>8. failed' => doubled'
    BY <1>1, <2>1
  <2> QED BY <1>2, <1>1, <2>1, <2>5, <2>6, <2>7, <2>8 DEF KeymapInv
<1>5. CASE ~(K!Present(s) \/ Len(scan) < size)
  <2>1. failed' = TRUE /\ scan' = <<>> /\ size' = size
    BY <1>5 DEF K!Load
  <2>2. doubled'
    <3>1. Len(scan) \in Nat /\ size \in Nat
      BY KeymapSizes DEF KeymapInv
    <3> QED BY <1>1, <1>2, <1>5, <3>1 DEF KeymapInv
  <2>3. scan' \in Seq(K!Entries) /\ Len(scan') = 0 /\ size \in Nat
    BY <2>1, KeymapSizes DEF KeymapInv
  <2> QED BY <1>2, <2>1, <2>2, <2>3 DEF KeymapInv
<1> QED BY <1>4, <1>5

\* Changing the table by ioctl (rc-main.c:345-401).
LEMMA KeymapChange ==
  ASSUME KeymapInv, NEW k \in Keycodes \cup {NULL},
         (\E s \in Scancodes : K!Set(s, k)) \/ (\E i \in 1..MaxSize : K!SetIndex(i, k))
  PROVE  KeymapInv'
<1>1. /\ toload = 0 /\ ~failed
      /\ toload' = toload /\ failed' = failed /\ loaded' = loaded /\ doubled' = doubled
  BY DEF K!Set, K!SetIndex, K!load
<1>2. size \in K!Powers /\ size <= MaxSize /\ size \in Nat /\ Len(scan) \in Nat /\ Len(scan) <= size
      /\ scan \in Seq(K!Entries) /\ MaxSize \in Nat
  BY KeymapSizes, InputAssumption DEF KeymapInv
<1>3. scan' \in Seq(K!Entries) /\ Len(scan') <= size' /\ size' \in K!Powers /\ size' <= MaxSize
  <2>1. ASSUME NEW s \in Scancodes, K!Set(s, k)
        PROVE  scan' \in Seq(K!Entries) /\ Len(scan') <= size' /\ size' \in K!Powers /\ size' <= MaxSize
    <3> DEFINE q == K!Established(s)
               p == K!Place(s)
    <3>1. /\ q \in Seq(K!Entries) /\ p \in 1..Len(q)
          /\ Len(q) = (IF K!Present(s) THEN Len(scan) ELSE Len(scan) + 1)
      BY KeymapEstablished
    <3>2. ASSUME NEW room \in K!Powers, room <= MaxSize, Len(q) <= room, K!Update(q, p, k, room)
          PROVE  scan' \in Seq(K!Entries) /\ Len(scan') <= size' /\ size' \in K!Powers /\ size' <= MaxSize
      <4> HIDE DEF q, p
      <4> QED BY <3>1, <3>2, KeymapUpdate
    <3>3. CASE K!Present(s) \/ Len(scan) < size
      <4>1. K!Update(q, p, k, size)
        BY <2>1, <3>3 DEF K!Set
      <4>2. Len(q) <= size
        BY <1>2, <3>1, <3>3
      <4> QED BY <1>2, <3>2, <4>1, <4>2
    <3>4. CASE ~(K!Present(s) \/ Len(scan) < size) /\ size < MaxSize /\ K!Update(q, p, k, 2 * size)
      <4>1. 2 * size \in K!Powers /\ 2 * size <= MaxSize
        BY <1>2, <3>4, KeymapSizes
      <4>2. Len(q) <= 2 * size
        <5>1. size > 0
          BY <1>2, KeymapSizes
        <5> QED BY <1>2, <3>1, <3>4, <5>1
      <4> QED BY <3>2, <3>4, <4>1, <4>2
    <3>5. CASE scan' = scan /\ size' = size
      BY <1>2, <3>5
    <3> QED BY <2>1, <3>3, <3>4, <3>5 DEF K!Set
  <2>2. ASSUME NEW i \in 1..MaxSize, K!SetIndex(i, k)
        PROVE  scan' \in Seq(K!Entries) /\ Len(scan') <= size' /\ size' \in K!Powers /\ size' <= MaxSize
    <3>1. i \in 1..Len(scan) /\ K!Update(scan, i, k, size)
      BY <1>2, <2>2 DEF K!SetIndex
    <3> QED BY <1>2, <3>1, KeymapUpdate
  <2> QED BY <2>1, <2>2
<1> QED BY <1>1, <1>3 DEF KeymapInv

\* Every step of who registers the device and of who changes its table.
LEMMA KeymapNext == KeymapInv /\ [K!Next]_KeymapVars => KeymapInv'
<1>1. KeymapInv /\ UNCHANGED KeymapVars => KeymapInv'
  BY DEF KeymapVars, KeymapInv
<1>2. KeymapInv /\ K!Refused => KeymapInv'
  BY <1>1 DEF K!Refused, K!vars, K!load, KeymapVars
<1> QED BY <1>1, <1>2, KeymapLoad, KeymapChange DEF K!Next

\* The last request.
KeymapAsked ==
  request \in [scancode : Scancodes, key : Keycodes \cup {NULL}, granted : BOOLEAN] \cup {NULL}

LEMMA KeymapRequests ==
  KeymapInv /\ KeymapAsked /\ [K!Next]_KeymapVars => KeymapAsked'
<1> SUFFICES ASSUME KeymapInv, KeymapAsked, [K!Next]_KeymapVars PROVE KeymapAsked'
  OBVIOUS
<1>1. CASE request' = request
  BY <1>1 DEF KeymapAsked
<1>2. ASSUME NEW s \in Scancodes, NEW k \in Keycodes \cup {NULL}, NEW g \in BOOLEAN,
             K!Asks(s, k, g)
      PROVE  KeymapAsked'
  BY <1>2 DEF K!Asks, KeymapAsked
<1>3. ASSUME NEW s \in Scancodes, NEW k \in Keycodes \cup {NULL}, K!Load(s, k) \/ K!Set(s, k)
      PROVE  \E g \in BOOLEAN : K!Asks(s, k, g)
  BY <1>3 DEF K!Load, K!Set
<1>4. ASSUME NEW i \in 1..MaxSize, NEW k \in Keycodes \cup {NULL}, K!SetIndex(i, k)
      PROVE  KeymapAsked'
  <2>1. scan \in Seq(K!Entries) /\ i \in 1..Len(scan)
    BY <1>4, InputAssumption DEF K!SetIndex, KeymapInv, K!Powers
  <2>2. scan[i] \in K!Entries
    BY <2>1
  <2>3. scan[i][1] \in Scancodes
    BY <2>2 DEF K!Entries
  <2> QED BY <1>2, <1>4, <2>3 DEF K!SetIndex
<1>5. ASSUME UNCHANGED KeymapVars \/ K!Refused PROVE request' = request
  BY <1>5 DEF KeymapVars, K!Refused, K!vars
<1> QED BY <1>1, <1>2, <1>3, <1>4, <1>5 DEF K!Next

\* What the invariant of the table promises.
LEMMA KeymapHolds ==
  /\ KeymapInv => K!EntriesFit /\ K!GivenTableFits
  /\ KeymapInv /\ KeymapAsked => K!TypeOK
<1>1. \A p \in K!Powers : p <= MaxSize => p \in 1..MaxSize
  BY KeymapSizes, InputAssumption
<1> QED BY <1>1 DEF KeymapInv, KeymapAsked, K!TypeOK, K!EntriesFit, K!GivenTableFits

\* Whoever reads the input device agrees with it about the keys pressed, the key a
\* remote control holds is the one released, and its table stays within its allocation,
\* for any keys, sizes and times (input.c:177-204, 578-600, rc-main.c:207-226, 255-401,
\* 461-488, 626-791).
THEOREM SpecKeysAgree == Spec => []KeysAgree
<1> DEFINE KeysInv == InputInv /\ RcInv /\ KeymapInv
<1>1. Init => KeysInv
  BY InputInit, RcInit, KeymapInit DEF Init
<1>2. KeysInv /\ [Next]_vars => KeysInv'
  BY OneMoves, InputNext, RcNext, KeymapNext
<1>3. KeysInv => KeysAgree
  BY InputHolds, KeymapHolds DEF RcInv, KeysAgree
<1> QED BY <1>1, <1>2, <1>3, PTL DEF Spec

-----------------------------------------------------------------------------
(* The order of the table, and the search.                                 *)

\* Each scancode has one entry, and the entries go up.
InOrder(q) == \A i, j \in 1..Len(q) : i < j => q[i][1] < q[j][1]

\* m has the keys of the entries, and no other.
Keyed(q, m) ==
  /\ m \in [Scancodes -> Keycodes \cup {NULL}]
  /\ \A i \in 1..Len(q) : m[q[i][1]] = q[i][2]
  /\ \A s \in Scancodes : (\A i \in 1..Len(q) : q[i][1] # s) => m[s] = NULL

\* Two tables of keys of the same entries are one.
LEMMA KeyedOnce ==
  ASSUME NEW q \in Seq(K!Entries), NEW m, NEW n, Keyed(q, m), Keyed(q, n)
  PROVE  m = n
<1>1. ASSUME NEW s \in Scancodes PROVE m[s] = n[s]
  <2>1. CASE \A i \in 1..Len(q) : q[i][1] # s
    BY <2>1 DEF Keyed
  <2>2. CASE \E i \in 1..Len(q) : q[i][1] = s
    BY <2>2 DEF Keyed
  <2> QED BY <2>1, <2>2
<1> QED BY <1>1 DEF Keyed

\* The entries before the place of a scancode are the lower ones: as many are lower as
\* stand there, and what is lower than one of them is lower.
LEMMA KeymapPlaced ==
  ASSUME scan \in Seq(K!Entries), InOrder(scan), NEW s \in Scancodes,
         NEW i \in 1..Len(scan)
  PROVE  i < K!Place(s) <=> scan[i][1] < s
<1> DEFINE lower == {j \in 1..Len(scan) : scan[j][1] < s}
           c == Cardinality(lower)
<1>1. K!Place(s) = 1 + c
  BY KeymapCardinality DEF K!Place
<1>2. Len(scan) \in Nat /\ s \in Nat /\ \A j \in 1..Len(scan) : scan[j][1] \in Nat
  <2>1. Scancodes \subseteq Nat
    BY InputAssumption
  <2>2. \A j \in 1..Len(scan) : scan[j] \in K!Entries
    OBVIOUS
  <2>3. \A e \in K!Entries : e[1] \in Scancodes
    BY DEF K!Entries
  <2>4. Len(scan) \in Nat
    OBVIOUS
  <2> QED BY <2>1, <2>2, <2>3, <2>4
<1>3. IsFiniteSet(lower) /\ c \in Nat
  <2>1. lower \subseteq 1..Len(scan)
    OBVIOUS
  <2>2. IsFiniteSet(1..Len(scan))
    BY <1>2, FS_Interval
  <2> HIDE DEF lower
  <2> QED BY <2>1, <2>2, FS_Subset, FS_CardinalityType
<1>4. CASE scan[i][1] < s
  <2>1. 1..i \subseteq lower
    <3> SUFFICES ASSUME NEW j \in 1..i PROVE j \in lower
      OBVIOUS
    <3>1. j \in 1..Len(scan) /\ (j = i \/ j < i)
      BY <1>2
    <3>2. j < i => scan[j][1] < scan[i][1]
      BY <3>1 DEF InOrder
    <3>3. scan[j][1] < s
      BY <1>2, <1>4, <3>1, <3>2
    <3> QED BY <3>1, <3>3
  <2>2. Cardinality(1..i) = i
    <3>1. i \in Int /\ 1 \in Int /\ ~(1 > i) /\ i - 1 + 1 = i
      BY <1>2
    <3> QED BY <3>1, FS_Interval
  <2> HIDE DEF lower
  <2>3. i <= c
    BY <1>3, <2>1, <2>2, FS_Subset
  <2> QED BY <1>1, <1>2, <1>3, <1>4, <2>3
<1>5. CASE ~(scan[i][1] < s)
  <2>1. lower \subseteq 1..(i - 1)
    <3> SUFFICES ASSUME NEW j \in lower PROVE j \in 1..(i - 1)
      OBVIOUS
    <3>1. j \in 1..Len(scan) /\ scan[j][1] < s
      OBVIOUS
    <3>2. i < j => scan[i][1] < scan[j][1]
      BY <3>1 DEF InOrder
    <3>3. j # i
      BY <1>5, <3>1
    <3>4. ~(i < j)
      BY <1>2, <1>5, <3>1, <3>2
    <3> QED BY <1>2, <3>1, <3>3, <3>4
  <2>2. IsFiniteSet(1..(i - 1)) /\ Cardinality(1..(i - 1)) = i - 1
    <3>1. i - 1 \in Int /\ 1 \in Int /\ i \in Int /\ i >= 1
      BY <1>2
    <3>2. Cardinality(1..(i - 1)) = IF 1 > i - 1 THEN 0 ELSE (i - 1) - 1 + 1
      BY <3>1, FS_Interval
    <3> QED BY <3>1, <3>2, FS_Interval
  <2> HIDE DEF lower
  <2>3. c <= i - 1
    BY <2>1, <2>2, FS_Subset
  <2> QED BY <1>1, <1>2, <1>3, <1>5, <2>3
<1> QED BY <1>4, <1>5

\* The scancode a change is for has an entry in its place; it has no key until it is given
\* one, and the keys are as before (rc-main.c:345-401).
LEMMA KeymapEstablishedInOrder ==
  ASSUME KeymapInv, InOrder(scan), NEW s \in Scancodes
  PROVE  /\ InOrder(K!Established(s))
         /\ K!Established(s)[K!Place(s)][1] = s
         /\ \A m : Keyed(scan, m) => Keyed(K!Established(s), m)
<1> DEFINE x == <<s, NULL>>
           p == K!Place(s)
           q == K!Established(s)
<1>1. p \in 1..Len(scan) + 1 /\ x \in K!Entries /\ x[1] = s /\ x[2] = NULL
      /\ scan \in Seq(K!Entries) /\ Len(scan) \in Nat
  BY KeymapPlace DEF KeymapInv, K!Entries
<1>2. /\ s \in Nat /\ \A j \in 1..Len(scan) : scan[j][1] \in Nat /\ scan[j][1] \in Scancodes
  <2>1. Scancodes \subseteq Nat
    BY InputAssumption
  <2>2. \A j \in 1..Len(scan) : scan[j] \in K!Entries
    BY <1>1
  <2>3. \A e \in K!Entries : e[1] \in Scancodes
    BY DEF K!Entries
  <2> QED BY <2>1, <2>2, <2>3
<1>3. CASE K!Present(s)
  <2>1. p <= Len(scan) /\ scan[p][1] = s /\ q = scan
    BY <1>3 DEF K!Present, K!Established
  <2> QED BY <2>1
<1>4. CASE ~K!Present(s)
  <2>1. q = K!PutIn(scan, p, x)
    BY <1>4 DEF K!Established
  <2>2. \A i \in 1..Len(scan) : i < p <=> scan[i][1] < s
    BY <1>1, KeymapPlaced
  <2>3. p <= Len(scan) => scan[p][1] # s
    BY <1>4 DEF K!Present
  <2> HIDE DEF x, p, q
  <2>4. \A i \in 1..Len(scan) : i >= p => scan[i][1] > s
    <3> SUFFICES ASSUME NEW i \in 1..Len(scan), i >= p PROVE scan[i][1] > s
      OBVIOUS
    <3>1. ~(scan[i][1] < s) /\ p \in 1..Len(scan)
      BY <1>1, <2>2
    <3>2. ~(scan[p][1] < s) /\ scan[p][1] # s /\ scan[p][1] \in Nat
      BY <1>1, <1>2, <2>2, <2>3, <3>1
    <3>3. i # p => scan[p][1] < scan[i][1]
      BY <1>1, <3>1 DEF InOrder
    <3>4. scan[i][1] \in Nat
      BY <1>2
    <3> QED BY <1>2, <3>2, <3>3, <3>4
  <2>5. /\ q \in Seq(K!Entries) /\ Len(q) = Len(scan) + 1 /\ q[p] = x
        /\ \A k \in 1..(Len(scan) + 1) : k # p => q[k] = IF k < p THEN scan[k] ELSE scan[k - 1]
    BY <1>1, <2>1, KeymapInsert
  <2>6. \A k \in 1..Len(q) : \/ k < p /\ k \in 1..Len(scan) /\ q[k] = scan[k]
                             \/ k = p
                             \/ k > p /\ k - 1 \in 1..Len(scan) /\ k - 1 >= p /\ q[k] = scan[k - 1]
    BY <1>1, <2>5
  <2>7. InOrder(q)
    <3> SUFFICES ASSUME NEW i \in 1..Len(q), NEW j \in 1..Len(q), i < j PROVE q[i][1] < q[j][1]
      BY DEF InOrder
    <3>0. i \in Nat /\ j \in Nat /\ p \in Nat
      BY <1>1
    <3>1. CASE i < p /\ j < p
      <4>1. i \in 1..Len(scan) /\ j \in 1..Len(scan) /\ q[i] = scan[i] /\ q[j] = scan[j]
        BY <2>6, <3>0, <3>1
      <4> QED BY <4>1 DEF InOrder
    <3>2. CASE i < p /\ j = p
      <4>1. i \in 1..Len(scan) /\ q[i] = scan[i]
        BY <2>6, <3>0, <3>2
      <4> QED BY <1>1, <2>2, <2>5, <3>2, <4>1
    <3>3. CASE i < p /\ j > p
      <4>1. i \in 1..Len(scan) /\ q[i] = scan[i]
        BY <2>6, <3>0, <3>3
      <4>2. PICK b \in 1..Len(scan) : b = j - 1 /\ b >= p /\ q[j] = scan[b]
        BY <2>6, <3>0, <3>3
      <4>3. i < b
        BY <3>0, <3>3, <4>2
      <4> QED BY <4>1, <4>2, <4>3 DEF InOrder
    <3>4. CASE i = p /\ j > p
      <4>1. PICK b \in 1..Len(scan) : b = j - 1 /\ b >= p /\ q[j] = scan[b]
        BY <2>6, <3>0, <3>4
      <4>2. scan[b][1] > s /\ q[i][1] = s
        BY <1>1, <2>4, <2>5, <3>4, <4>1
      <4> QED BY <1>2, <4>1, <4>2
    <3>5. CASE i > p /\ j > p
      <4>1. PICK a \in 1..Len(scan) : a = i - 1 /\ a >= p /\ q[i] = scan[a]
        BY <2>6, <3>0, <3>5
      <4>2. PICK b \in 1..Len(scan) : b = j - 1 /\ b >= p /\ q[j] = scan[b]
        BY <2>6, <3>0, <3>5
      <4>3. a < b
        BY <3>0, <4>1, <4>2
      <4> QED BY <4>1, <4>2, <4>3 DEF InOrder
    <3> QED BY <3>0, <3>1, <3>2, <3>3, <3>4, <3>5
  <2>8. ASSUME NEW m, Keyed(scan, m) PROVE Keyed(q, m)
    <3>1. \A n \in 1..Len(scan) : scan[n][1] # s
      <4> SUFFICES ASSUME NEW n \in 1..Len(scan) PROVE scan[n][1] # s
        OBVIOUS
      <4>1. scan[n][1] < s \/ scan[n][1] > s
        BY <1>1, <2>2, <2>4
      <4> QED BY <1>2, <4>1
    <3>2. m[s] = NULL
      BY <2>8, <3>1 DEF Keyed
    <3>3. ASSUME NEW i \in 1..Len(q) PROVE m[q[i][1]] = q[i][2]
      <4>1. CASE i = p
        BY <1>1, <2>5, <3>2, <4>1
      <4>2. CASE i # p
        <5>1. \E n \in 1..Len(scan) : q[i] = scan[n]
          BY <2>6, <4>2
        <5> QED BY <2>8, <5>1 DEF Keyed
      <4> QED BY <4>1, <4>2
    <3>4. ASSUME NEW t \in Scancodes, \A i \in 1..Len(q) : q[i][1] # t PROVE m[t] = NULL
      <4>1. ASSUME NEW n \in 1..Len(scan) PROVE scan[n][1] # t
        <5>0. n \in Nat /\ p \in Nat /\ Len(q) = Len(scan) + 1 /\ Len(scan) \in Nat
          BY <1>1, <2>5
        <5>1. CASE n < p
          <6>1. n \in 1..Len(q) /\ q[n] = scan[n]
            BY <2>6, <5>0, <5>1
          <6> QED BY <3>4, <6>1
        <5>2. CASE n >= p
          <6>1. PICK b \in 1..Len(q) : b = n + 1
            BY <5>0
          <6>2. b > p /\ b - 1 = n
            BY <5>0, <5>2, <6>1
          <6>3. q[b] = scan[n]
            BY <2>6, <5>0, <6>2
          <6> QED BY <3>4, <6>3
        <5> QED BY <5>0, <5>1, <5>2
      <4> QED BY <2>8, <3>4, <4>1 DEF Keyed
    <3> QED BY <2>8, <3>3, <3>4 DEF Keyed
  <2> QED BY <1>1, <2>5, <2>7, <2>8 DEF p, q
<1> QED BY <1>3, <1>4

\* A change gives the scancode of one entry its key and leaves the order (rc-main.c:306-343).
LEMMA KeymapUpdateInOrder ==
  ASSUME NEW q \in Seq(K!Entries), InOrder(q), NEW i \in 1..Len(q), NEW k \in Keycodes \cup {NULL},
         NEW room, K!Update(q, i, k, room)
  PROVE  /\ InOrder(scan')
         /\ \A m : Keyed(q, m) => Keyed(scan', [m EXCEPT ![q[i][1]] = k])
<1>0. Len(q) \in Nat /\ i \in Nat /\ \A j \in 1..Len(q) : q[j][1] \in Scancodes /\ q[j][1] \in Nat
  <2>1. Scancodes \subseteq Nat
    BY InputAssumption
  <2>2. \A e \in K!Entries : e[1] \in Scancodes
    BY DEF K!Entries
  <2>3. \A j \in 1..Len(q) : q[j] \in K!Entries
    OBVIOUS
  <2>4. Len(q) \in Nat /\ i \in Nat
    OBVIOUS
  <2> QED BY <2>1, <2>2, <2>3, <2>4
<1>1. \A a, b \in 1..Len(q) : a # b => q[a][1] # q[b][1]
  <2> SUFFICES ASSUME NEW a \in 1..Len(q), NEW b \in 1..Len(q), a # b PROVE q[a][1] # q[b][1]
    OBVIOUS
  <2>1. (a < b => q[a][1] < q[b][1]) /\ (b < a => q[b][1] < q[a][1])
    BY DEF InOrder
  <2>2. a < b \/ b < a
    BY <1>0
  <2> QED BY <1>0, <2>1, <2>2
<1>2. CASE k = NULL
  <2>1. scan' = K!TakenOut(q, i)
    BY <1>2 DEF K!Update
  <2>2. PICK y : y = K!TakenOut(q, i)
    OBVIOUS
  <2>3. /\ y \in Seq(K!Entries) /\ Len(y) = Len(q) - 1
        /\ \A n \in 1..(Len(q) - 1) : y[n] = IF n < i THEN q[n] ELSE q[n + 1]
    BY <2>2, KeymapRemove
  <2>4. ASSUME NEW n \in 1..Len(y)
        PROVE  \E c \in 1..Len(q) : y[n] = q[c] /\ c # i /\ ((c = n /\ n < i) \/ (c = n + 1 /\ n >= i))
    <3>1. n \in 1..(Len(q) - 1) /\ n \in Nat
      BY <2>3
    <3>2. CASE n < i
      <4>1. PICK c \in 1..Len(q) : c = n
        BY <1>0, <3>1
      <4>2. y[n] = q[c]
        BY <2>3, <3>1, <3>2, <4>1
      <4>3. c # i
        BY <1>0, <3>2, <4>1
      <4>4. y[n] = q[c] /\ c # i /\ ((c = n /\ n < i) \/ (c = n + 1 /\ n >= i))
        BY <3>2, <4>1, <4>2, <4>3
      <4> QED BY <4>4
    <3>3. CASE ~(n < i)
      <4>1. PICK c \in 1..Len(q) : c = n + 1
        BY <1>0, <3>1
      <4>2. y[n] = q[c]
        BY <2>3, <3>1, <3>3, <4>1
      <4>3. n >= i /\ c # i
        BY <1>0, <3>1, <3>3, <4>1
      <4> QED BY <4>1, <4>2, <4>3
    <3> QED BY <3>2, <3>3
  <2>5. InOrder(y)
    <3> SUFFICES ASSUME NEW a \in 1..Len(y), NEW b \in 1..Len(y), a < b PROVE y[a][1] < y[b][1]
      BY DEF InOrder
    <3>1. PICK c \in 1..Len(q) : y[a] = q[c] /\ ((c = a /\ a < i) \/ (c = a + 1 /\ a >= i))
      BY <2>4
    <3>2. PICK d \in 1..Len(q) : y[b] = q[d] /\ ((d = b /\ b < i) \/ (d = b + 1 /\ b >= i))
      BY <2>4
    <3>3. c < d
      BY <1>0, <3>1, <3>2
    <3> QED BY <3>1, <3>2, <3>3 DEF InOrder
  <2>6. ASSUME NEW m, Keyed(q, m) PROVE Keyed(y, [m EXCEPT ![q[i][1]] = k])
    <3>1. PICK w : w = [m EXCEPT ![q[i][1]] = k]
      OBVIOUS
    <3>2. /\ w \in [Scancodes -> Keycodes \cup {NULL}] /\ w[q[i][1]] = NULL
          /\ \A s \in Scancodes : s # q[i][1] => w[s] = m[s]
      BY <1>0, <1>2, <2>6, <3>1 DEF Keyed
    <3>3. ASSUME NEW n \in 1..Len(y) PROVE w[y[n][1]] = y[n][2]
      <4>1. PICK c \in 1..Len(q) : y[n] = q[c] /\ c # i
        BY <2>4
      <4>2. q[c][1] # q[i][1] /\ q[c][1] \in Scancodes
        BY <1>0, <1>1, <4>1
      <4> QED BY <2>6, <3>2, <4>1, <4>2 DEF Keyed
    <3>4. ASSUME NEW s \in Scancodes, \A n \in 1..Len(y) : y[n][1] # s PROVE w[s] = NULL
      <4>1. CASE s = q[i][1]
        BY <3>2, <4>1
      <4>2. CASE s # q[i][1]
        <5>1. ASSUME NEW c \in 1..Len(q) PROVE q[c][1] # s
          <6>1. CASE c = i
            BY <4>2, <6>1
          <6>2. CASE c < i
            <7>1. c \in 1..Len(y) /\ y[c] = q[c]
              BY <1>0, <2>3, <6>2
            <7> QED BY <3>4, <7>1
          <6>3. CASE c > i
            <7>1. PICK b \in 1..Len(y) : b = c - 1
              BY <1>0, <2>3, <6>3
            <7>2. PICK d \in 1..Len(q) : y[b] = q[d] /\ ((d = b /\ b < i) \/ (d = b + 1 /\ b >= i))
              BY <2>4
            <7>3. y[b] = q[c]
              BY <1>0, <6>3, <7>1, <7>2
            <7> QED BY <3>4, <7>3
          <6> QED BY <1>0, <6>1, <6>2, <6>3
        <5> QED BY <2>6, <3>2, <4>2, <5>1 DEF Keyed
      <4> QED BY <4>1, <4>2
    <3> QED BY <3>1, <3>2, <3>3, <3>4 DEF Keyed
  <2> QED BY <2>1, <2>2, <2>5, <2>6
<1>3. CASE k # NULL
  <2>1. scan' = [q EXCEPT ![i] = <<@[1], k>>]
    BY <1>3 DEF K!Update
  <2>2. PICK y : y = [q EXCEPT ![i] = <<@[1], k>>]
    OBVIOUS
  <2>3. /\ Len(y) = Len(q) /\ y[i] = <<q[i][1], k>>
        /\ \A n \in 1..Len(q) : n # i => y[n] = q[n]
    BY <2>2
  <2>4. y[i][1] = q[i][1] /\ y[i][2] = k
    BY <2>3
  <2>5. \A n \in 1..Len(q) : y[n][1] = q[n][1]
    BY <2>3, <2>4
  <2>6. InOrder(y)
    BY <2>3, <2>5 DEF InOrder
  <2>7. ASSUME NEW m, Keyed(q, m) PROVE Keyed(y, [m EXCEPT ![q[i][1]] = k])
    <3>1. PICK w : w = [m EXCEPT ![q[i][1]] = k]
      OBVIOUS
    <3>2. /\ w \in [Scancodes -> Keycodes \cup {NULL}] /\ w[q[i][1]] = k
          /\ \A s \in Scancodes : s # q[i][1] => w[s] = m[s]
      BY <1>0, <2>7, <3>1 DEF Keyed
    <3>3. ASSUME NEW n \in 1..Len(y) PROVE w[y[n][1]] = y[n][2]
      <4>1. CASE n = i
        BY <2>4, <3>2, <4>1
      <4>2. CASE n # i
        <5>1. y[n] = q[n] /\ q[n][1] # q[i][1] /\ q[n][1] \in Scancodes /\ n \in 1..Len(q)
          BY <1>0, <1>1, <2>3, <4>2
        <5> QED BY <2>7, <3>2, <5>1 DEF Keyed
      <4> QED BY <4>1, <4>2
    <3>4. ASSUME NEW s \in Scancodes, \A n \in 1..Len(y) : y[n][1] # s PROVE w[s] = NULL
      <4>1. \A n \in 1..Len(q) : q[n][1] # s
        BY <2>3, <2>5, <3>4
      <4> QED BY <2>7, <3>2, <4>1 DEF Keyed
    <3> QED BY <3>1, <3>2, <3>3, <3>4 DEF Keyed
  <2> QED BY <2>1, <2>2, <2>6, <2>7
<1> QED BY <1>2, <1>3

\* One step of the search for s between two bounds, if f is what is found in less.
Halving(f, s) ==
  [b \in (1..(Len(scan) + 1)) \X (0..Len(scan)) |->
     IF b[1] > b[2] THEN 0
     ELSE LET mid == (b[1] + b[2]) \div 2
          IN  IF scan[mid][1] = s THEN mid
              ELSE IF s < scan[mid][1] THEN f[<<b[1], mid - 1>>] ELSE f[<<mid + 1, b[2]>>]]

\* The entry of s between two bounds.
FoundBetween(s) ==
  [b \in (1..(Len(scan) + 1)) \X (0..Len(scan)) |->
     IF \E i \in b[1]..b[2] : scan[i][1] = s
     THEN CHOOSE i \in b[1]..b[2] : scan[i][1] = s ELSE 0]

\* The middle of two bounds is between them, and what lies on either side is less.
LEMMA Middle ==
  ASSUME NEW n \in Nat, NEW lo \in 1..(n + 1), NEW hi \in 0..n, lo <= hi
  PROVE  LET mid == (lo + hi) \div 2
         IN  /\ mid \in lo..hi /\ mid \in 1..n
             /\ mid - 1 \in 0..n /\ mid + 1 \in 1..(n + 1)
OBVIOUS

\* In an ordered table the entry of s is what the halves have.
LEMMA FoundInHalves ==
  ASSUME scan \in Seq(K!Entries), InOrder(scan), NEW s \in Scancodes
  PROVE  FoundBetween(s) = Halving(FoundBetween(s), s)
<1> DEFINE Dom == (1..(Len(scan) + 1)) \X (0..Len(scan))
<1>1. PICK g : g = FoundBetween(s)
  OBVIOUS
<1>2. PICK n : n = Len(scan)
  OBVIOUS
<1>3. n \in Nat /\ s \in Nat /\ \A j \in 1..n : scan[j][1] \in Nat
  <2>1. Scancodes \subseteq Nat
    BY InputAssumption
  <2>2. \A j \in 1..Len(scan) : scan[j] \in K!Entries
    OBVIOUS
  <2>3. \A e \in K!Entries : e[1] \in Scancodes
    BY DEF K!Entries
  <2>4. Len(scan) \in Nat
    OBVIOUS
  <2> QED BY <1>2, <2>1, <2>2, <2>3, <2>4
<1>4. ASSUME NEW a \in 1..n, NEW b \in 1..n, scan[a][1] = s, scan[b][1] = s
      PROVE  a = b
  <2>1. (a < b => scan[a][1] < scan[b][1]) /\ (b < a => scan[b][1] < scan[a][1])
    BY <1>2 DEF InOrder
  <2> QED BY <1>3, <1>4, <2>1
<1>5. ASSUME NEW lo \in 1..(n + 1), NEW hi \in 0..n
      PROVE  /\ \A i \in lo..hi : i \in 1..n
             /\ \A i \in lo..hi : scan[i][1] = s => g[<<lo, hi>>] = i
             /\ (\A i \in lo..hi : scan[i][1] # s) => g[<<lo, hi>>] = 0
  <2>1. \A i \in lo..hi : i \in 1..n
    BY <1>3
  <2>2. g[<<lo, hi>>] = IF \E i \in lo..hi : scan[i][1] = s
                        THEN CHOOSE i \in lo..hi : scan[i][1] = s ELSE 0
    BY <1>1, <1>2 DEF FoundBetween
  <2>3. ASSUME NEW i \in lo..hi, scan[i][1] = s PROVE g[<<lo, hi>>] = i
    <3>1. g[<<lo, hi>>] \in lo..hi /\ scan[g[<<lo, hi>>]][1] = s
      BY <2>2, <2>3
    <3> QED BY <1>4, <2>1, <2>3, <3>1
  <2> QED BY <2>1, <2>2, <2>3
<1>6. ASSUME NEW lo \in 1..(n + 1), NEW hi \in 0..n
      PROVE  g[<<lo, hi>>] = Halving(g, s)[<<lo, hi>>]
  <2>1. Halving(g, s)[<<lo, hi>>] =
          IF lo > hi THEN 0
          ELSE LET mid == (lo + hi) \div 2
               IN  IF scan[mid][1] = s THEN mid
                   ELSE IF s < scan[mid][1] THEN g[<<lo, mid - 1>>] ELSE g[<<mid + 1, hi>>]
    BY <1>2 DEF Halving
  <2>2. CASE lo > hi
    <3>1. lo..hi = {}
      BY <1>3, <2>2
    <3> QED BY <1>5, <2>1, <2>2, <3>1
  <2>3. CASE ~(lo > hi)
    <3>1. PICK mid : mid = (lo + hi) \div 2
      OBVIOUS
    <3>2. mid \in lo..hi /\ mid \in 1..n /\ mid - 1 \in 0..n /\ mid + 1 \in 1..(n + 1)
      BY <1>3, <2>3, <3>1, Middle
    <3>3. Halving(g, s)[<<lo, hi>>] =
            IF scan[mid][1] = s THEN mid
            ELSE IF s < scan[mid][1] THEN g[<<lo, mid - 1>>] ELSE g[<<mid + 1, hi>>]
      BY <2>1, <2>3, <3>1
    <3>4. CASE scan[mid][1] = s
      BY <1>5, <3>2, <3>3, <3>4
    <3>5. CASE scan[mid][1] # s /\ s < scan[mid][1]
      <4>1. PICK u \in 0..n : u = mid - 1
        BY <3>2
      <4>2. \A i \in lo..hi : scan[i][1] = s => i \in lo..u
        <5> SUFFICES ASSUME NEW i \in lo..hi, scan[i][1] = s PROVE i \in lo..u
          OBVIOUS
        <5>1. i \in 1..n
          BY <1>5
        <5>2. mid < i => scan[mid][1] < scan[i][1]
          BY <1>2, <3>2, <5>1 DEF InOrder
        <5>3. ~(mid < i) /\ i # mid
          BY <1>3, <3>2, <3>5, <5>1, <5>2
        <5> QED BY <1>3, <3>2, <4>1, <5>3
      <4>3. \A i \in lo..u : i \in lo..hi
        BY <1>3, <3>2, <4>1
      <4>4. g[<<lo, hi>>] = g[<<lo, u>>]
        <5>1. CASE \E i \in lo..hi : scan[i][1] = s
          BY <1>5, <4>2, <5>1
        <5>2. CASE \A i \in lo..hi : scan[i][1] # s
          BY <1>5, <4>3, <5>2
        <5> QED BY <5>1, <5>2
      <4> QED BY <3>3, <3>5, <4>1, <4>4
    <3>6. CASE scan[mid][1] # s /\ ~(s < scan[mid][1])
      <4>1. PICK u \in 1..(n + 1) : u = mid + 1
        BY <3>2
      <4>2. \A i \in lo..hi : scan[i][1] = s => i \in u..hi
        <5> SUFFICES ASSUME NEW i \in lo..hi, scan[i][1] = s PROVE i \in u..hi
          OBVIOUS
        <5>1. i \in 1..n
          BY <1>5
        <5>2. i < mid => scan[i][1] < scan[mid][1]
          BY <1>2, <3>2, <5>1 DEF InOrder
        <5>3. ~(i < mid) /\ i # mid
          BY <1>3, <3>2, <3>6, <5>1, <5>2
        <5> QED BY <1>3, <3>2, <4>1, <5>3
      <4>3. \A i \in u..hi : i \in lo..hi
        BY <1>3, <3>2, <4>1
      <4>4. g[<<lo, hi>>] = g[<<u, hi>>]
        <5>1. CASE \E i \in lo..hi : scan[i][1] = s
          BY <1>5, <4>2, <5>1
        <5>2. CASE \A i \in lo..hi : scan[i][1] # s
          BY <1>5, <4>3, <5>2
        <5> QED BY <5>1, <5>2
      <4> QED BY <3>3, <3>6, <4>1, <4>4
    <3> QED BY <3>4, <3>5, <3>6
  <2> QED BY <2>2, <2>3
<1>7. g = [b \in Dom |-> g[b]] /\ Halving(g, s) = [b \in Dom |-> Halving(g, s)[b]]
  BY <1>1 DEF FoundBetween, Halving
<1>8. ASSUME NEW b \in Dom PROVE g[b] = Halving(g, s)[b]
  <2>1. PICK lo \in 1..(n + 1), hi \in 0..n : b = <<lo, hi>>
    BY <1>2
  <2> QED BY <1>6, <2>1
<1> HIDE DEF Dom
<1>9. [b \in Dom |-> g[b]] = [b \in Dom |-> Halving(g, s)[b]]
  BY <1>8
<1> QED BY <1>1, <1>7, <1>9

\* What halves to itself is one: were there bounds between which two differ, there were
\* least ones, and what lies on either side of their middle is less.
LEMMA HalvingOnce ==
  ASSUME scan \in Seq(K!Entries), NEW s, NEW f, f = Halving(f, s), NEW g, g = Halving(g, s)
  PROVE  f = g
<1>1. PICK n : n = Len(scan) /\ n \in Nat
  OBVIOUS
<1> DEFINE Dom == (1..(n + 1)) \X (0..n)
           Differ(V) == \E lo \in 1..(n + 1), hi \in 0..n :
                          V = lo..hi /\ f[<<lo, hi>>] # g[<<lo, hi>>]
           Bad == {V \in SUBSET (1..n) : Differ(V)}
<1>2. ASSUME NEW h, h = Halving(h, s), NEW lo \in 1..(n + 1), NEW hi \in 0..n
      PROVE  h[<<lo, hi>>] =
               IF lo > hi THEN 0
               ELSE LET mid == (lo + hi) \div 2
                    IN  IF scan[mid][1] = s THEN mid
                        ELSE IF s < scan[mid][1] THEN h[<<lo, mid - 1>>] ELSE h[<<mid + 1, hi>>]
  <2>1. <<lo, hi>> \in (1..(Len(scan) + 1)) \X (0..Len(scan))
    BY <1>1
  <2>2. Halving(h, s)[<<lo, hi>>] =
               IF lo > hi THEN 0
               ELSE LET mid == (lo + hi) \div 2
                    IN  IF scan[mid][1] = s THEN mid
                        ELSE IF s < scan[mid][1] THEN h[<<lo, mid - 1>>] ELSE h[<<mid + 1, hi>>]
    BY <2>1 DEF Halving
  <2> QED BY <1>2, <2>2
<1>3. Bad \subseteq FiniteSubsetsOf(1..n)
  <2> SUFFICES ASSUME NEW V \in Bad PROVE V \in FiniteSubsetsOf(1..n)
    OBVIOUS
  <2> HIDE DEF Differ
  <2>1. V \in SUBSET (1..n)
    OBVIOUS
  <2>2. IsFiniteSet(1..n)
    BY <1>1, FS_Interval
  <2>3. IsFiniteSet(V)
    BY <2>1, <2>2, FS_Subset
  <2> QED BY <2>1, <2>3 DEF FiniteSubsetsOf
<1>4. Bad = {}
  <2> SUFFICES ASSUME Bad # {} PROVE FALSE
    OBVIOUS
  <2> HIDE DEF Bad
  <2>1. PICK V \in Bad : \A W \in Bad : <<W, V>> \notin StrictSubsetOrdering(1..n)
    BY <1>3, FS_StrictSubsetOrderingWellFounded, WFMin
  <2>2. PICK lo \in 1..(n + 1), hi \in 0..n : V = lo..hi /\ f[<<lo, hi>>] # g[<<lo, hi>>]
    <3>1. Differ(V)
      <4> HIDE DEF Differ
      <4> QED BY <2>1 DEF Bad
    <3> QED BY <3>1
  <2>3. ASSUME NEW a \in 1..(n + 1), NEW b \in 0..n, a..b \subseteq lo..hi, a..b # lo..hi
        PROVE  f[<<a, b>>] = g[<<a, b>>]
    <3>1. lo..hi \subseteq 1..n
      BY <1>1
    <3>2. <<a..b, lo..hi>> \in StrictSubsetOrdering(1..n)
      BY <2>3, <3>1 DEF StrictSubsetOrdering
    <3>3. a..b \notin Bad
      BY <2>1, <2>2, <3>2
    <3>4. PICK W : W = a..b
      OBVIOUS
    <3>5. ~Differ(W)
      <4> HIDE DEF Differ
      <4>1. W \in SUBSET (1..n) /\ W \notin Bad
        BY <2>3, <3>1, <3>3, <3>4
      <4> QED BY <4>1 DEF Bad
    <3> QED BY <3>4, <3>5
  <2>4. ~(lo > hi)
    <3> SUFFICES ASSUME lo > hi PROVE FALSE
      OBVIOUS
    <3>1. f[<<lo, hi>>] = 0
      BY <1>2
    <3>2. g[<<lo, hi>>] = 0
      BY <1>2
    <3> QED BY <2>2, <3>1, <3>2
  <2>5. PICK mid : mid = (lo + hi) \div 2
    OBVIOUS
  <2>6. mid \in lo..hi /\ mid \in 1..n /\ mid - 1 \in 0..n /\ mid + 1 \in 1..(n + 1)
    BY <1>1, <2>4, <2>5, Middle
  <2>7. f[<<lo, hi>>] = IF scan[mid][1] = s THEN mid
                        ELSE IF s < scan[mid][1] THEN f[<<lo, mid - 1>>] ELSE f[<<mid + 1, hi>>]
    BY <1>2, <2>4, <2>5
  <2>8. g[<<lo, hi>>] = IF scan[mid][1] = s THEN mid
                        ELSE IF s < scan[mid][1] THEN g[<<lo, mid - 1>>] ELSE g[<<mid + 1, hi>>]
    BY <1>2, <2>4, <2>5
  <2>9. f[<<lo, mid - 1>>] = g[<<lo, mid - 1>>]
    <3>1. PICK b \in 0..n : b = mid - 1
      BY <2>6
    <3>2. lo..b \subseteq lo..hi /\ mid \notin lo..b
      BY <1>1, <2>6, <3>1
    <3> QED BY <2>3, <2>6, <3>1, <3>2
  <2>10. f[<<mid + 1, hi>>] = g[<<mid + 1, hi>>]
    <3>1. PICK a \in 1..(n + 1) : a = mid + 1
      BY <2>6
    <3>2. a..hi \subseteq lo..hi /\ mid \notin a..hi
      BY <1>1, <2>6, <3>1
    <3> QED BY <2>3, <2>6, <3>1, <3>2
  <2> QED BY <2>2, <2>7, <2>8, <2>9, <2>10
<1>5. \A b \in Dom : f[b] = g[b]
  <2> SUFFICES ASSUME NEW b \in Dom PROVE f[b] = g[b]
    OBVIOUS
  <2>1. PICK lo \in 1..(n + 1), hi \in 0..n : b = <<lo, hi>>
    OBVIOUS
  <2>2. PICK W : W = lo..hi
    OBVIOUS
  <2>3. W \in SUBSET (1..n)
    BY <1>1, <2>2
  <2>4. ~Differ(W)
    <3> HIDE DEF Differ
    <3> QED BY <1>4, <2>3
  <2> QED BY <2>1, <2>2, <2>4
<1>6. f = [b \in Dom |-> f[b]] /\ g = [b \in Dom |-> g[b]]
  <2>1. Halving(f, s) = [b \in Dom |-> Halving(f, s)[b]] /\ Halving(g, s) = [b \in Dom |-> Halving(g, s)[b]]
    BY <1>1 DEF Halving
  <2> HIDE DEF Dom
  <2> QED BY <2>1
<1> HIDE DEF Dom
<1>7. [b \in Dom |-> f[b]] = [b \in Dom |-> g[b]]
  BY <1>5
<1> QED BY <1>6, <1>7

\* The search finds the entry of a scancode, and nothing when it has none.
LEMMA SearchFinds ==
  ASSUME scan \in Seq(K!Entries), InOrder(scan), NEW s \in Scancodes
  PROVE  /\ \A i \in 1..Len(scan) : scan[i][1] = s => K!Search(s) = i
         /\ (\A i \in 1..Len(scan) : scan[i][1] # s) => K!Search(s) = 0
<1> DEFINE Chosen == CHOOSE f : f = Halving(f, s)
<1>1. FoundBetween(s) = Halving(FoundBetween(s), s)
  BY FoundInHalves
<1>2. Chosen = Halving(Chosen, s)
  BY <1>1
<1>3. K!Search(s) = Chosen[<<1, Len(scan)>>]
  BY DEF K!Search, Halving
<1> HIDE DEF Chosen
<1>4. Chosen = FoundBetween(s)
  BY <1>1, <1>2, HalvingOnce
<1>5. K!Search(s) = IF \E i \in 1..Len(scan) : scan[i][1] = s
                    THEN CHOOSE i \in 1..Len(scan) : scan[i][1] = s ELSE 0
  <2>1. <<1, Len(scan)>> \in (1..(Len(scan) + 1)) \X (0..Len(scan))
    OBVIOUS
  <2> QED BY <1>3, <1>4, <2>1 DEF FoundBetween
<1>6. ASSUME NEW a \in 1..Len(scan), NEW b \in 1..Len(scan), scan[a][1] = s, scan[b][1] = s
      PROVE  a = b
  <2>1. (a < b => scan[a][1] < scan[b][1]) /\ (b < a => scan[b][1] < scan[a][1])
    BY DEF InOrder
  <2>2. s \in Nat /\ a \in Nat /\ b \in Nat
    BY InputAssumption
  <2> QED BY <1>6, <2>1, <2>2
<1>7. ASSUME NEW i \in 1..Len(scan), scan[i][1] = s PROVE K!Search(s) = i
  <2>1. K!Search(s) \in 1..Len(scan) /\ scan[K!Search(s)][1] = s
    BY <1>5, <1>7
  <2> QED BY <1>6, <1>7, <2>1
<1> QED BY <1>5, <1>7

\* The keys the search finds.
KeysOf == [s \in Scancodes |-> K!KeycodeFromTable(s)]

KeymapOrdered == KeymapInv /\ InOrder(scan)

\* They are those of the entries (rc-main.c:511-525, 548-567).
LEMMA KeymapFinds == KeymapOrdered => Keyed(scan, KeysOf)
<1> SUFFICES ASSUME KeymapOrdered PROVE Keyed(scan, KeysOf)
  OBVIOUS
<1>1. scan \in Seq(K!Entries) /\ InOrder(scan)
  BY DEF KeymapOrdered, KeymapInv
<1>2. \A i \in 1..Len(scan) : i # 0 /\ scan[i] \in K!Entries
  BY <1>1
<1>3. \A e \in K!Entries : e[1] \in Scancodes /\ e[2] \in Keycodes \cup {NULL}
  BY DEF K!Entries
<1>4. ASSUME NEW i \in 1..Len(scan)
      PROVE  scan[i][1] \in Scancodes /\ KeysOf[scan[i][1]] = scan[i][2]
  <2>1. PICK s \in Scancodes : s = scan[i][1]
    BY <1>2, <1>3
  <2>2. K!Search(s) = i
    BY <1>1, <2>1, SearchFinds
  <2>3. K!KeycodeFromTable(s) = scan[i][2]
    BY <1>2, <2>2 DEF K!KeycodeFromTable
  <2> QED BY <2>1, <2>3 DEF KeysOf
<1>5. ASSUME NEW s \in Scancodes, \A i \in 1..Len(scan) : scan[i][1] # s PROVE KeysOf[s] = NULL
  <2>1. K!Search(s) = 0
    BY <1>1, <1>5, SearchFinds
  <2>2. K!KeycodeFromTable(s) = NULL
    BY <2>1 DEF K!KeycodeFromTable
  <2> QED BY <2>2 DEF KeysOf
<1>6. ASSUME NEW s \in Scancodes PROVE KeysOf[s] \in Keycodes \cup {NULL}
  <2>1. CASE \A i \in 1..Len(scan) : scan[i][1] # s
    BY <1>5, <2>1
  <2>2. CASE \E i \in 1..Len(scan) : scan[i][1] = s
    <3>1. PICK i \in 1..Len(scan) : scan[i][1] = s
      BY <2>2
    <3> QED BY <1>2, <1>3, <1>4, <3>1
  <2> QED BY <2>1, <2>2
<1>7. KeysOf \in [Scancodes -> Keycodes \cup {NULL}]
  <2>1. KeysOf = [s \in Scancodes |-> KeysOf[s]]
    BY DEF KeysOf
  <2> HIDE DEF KeysOf
  <2> QED BY <1>6, <2>1
<1> HIDE DEF KeysOf
<1> QED BY <1>4, <1>5, <1>7 DEF Keyed

\* A step of the table gives the scancode asked for the key asked for and leaves the
\* others, or gives up the table while it is loaded, or changes nothing.
Granted ==
  \E s \in Scancodes, k \in Keycodes \cup {NULL} :
    /\ K!Asks(s, k, TRUE)
    /\ \A m : Keyed(scan, m) => Keyed(scan', [m EXCEPT ![s] = k])

NotGranted == \E s \in Scancodes, k \in Keycodes \cup {NULL} : K!Asks(s, k, FALSE)

LEMMA KeymapSteps ==
  ASSUME KeymapOrdered, K!Next
  PROVE  /\ InOrder(scan')
         /\ \/ toload > 0 /\ ~failed /\ ~failed' /\ Granted
            \/ toload > 0 /\ ~failed /\ failed' /\ scan' = <<>> /\ NotGranted
            \/ toload = 0 /\ ~failed /\ ~failed' /\ toload' = 0 /\ Granted
            \/ toload = 0 /\ ~failed /\ ~failed' /\ toload' = 0 /\ scan' = scan /\ NotGranted
            \/ UNCHANGED KeymapVars
<1>1. KeymapInv /\ InOrder(scan) /\ scan \in Seq(K!Entries) /\ Len(scan) \in Nat
  BY DEF KeymapOrdered, KeymapInv
<1>2. ASSUME NEW s \in Scancodes, NEW k \in Keycodes \cup {NULL}, NEW room,
             K!Update(K!Established(s), K!Place(s), k, room), K!Asks(s, k, TRUE)
      PROVE  InOrder(scan') /\ Granted
  <2>1. PICK q, p : q = K!Established(s) /\ p = K!Place(s)
    OBVIOUS
  <2>2. q \in Seq(K!Entries) /\ p \in 1..Len(q)
    BY <1>1, <2>1, KeymapEstablished
  <2>3. InOrder(q) /\ q[p][1] = s /\ \A m : Keyed(scan, m) => Keyed(q, m)
    BY <1>1, <2>1, KeymapEstablishedInOrder
  <2>4. K!Update(q, p, k, room)
    BY <1>2, <2>1
  <2>5. InOrder(scan') /\ \A m : Keyed(q, m) => Keyed(scan', [m EXCEPT ![q[p][1]] = k])
    BY <2>2, <2>3, <2>4, KeymapUpdateInOrder
  <2>6. \A m : Keyed(scan, m) => Keyed(scan', [m EXCEPT ![s] = k])
    BY <2>3, <2>5
  <2> QED BY <1>2, <2>5, <2>6 DEF Granted
<1>3. ASSUME NEW s \in Scancodes, NEW k \in Keycodes \cup {NULL}, K!Load(s, k)
      PROVE  /\ toload > 0 /\ ~failed
             /\ \/ /\ K!Update(K!Established(s), K!Place(s), k, size)
                   /\ K!Asks(s, k, TRUE) /\ ~failed'
                \/ failed' /\ scan' = <<>> /\ K!Asks(s, k, FALSE)
  BY <1>3 DEF K!Load
<1>4. ASSUME NEW s \in Scancodes, NEW k \in Keycodes \cup {NULL}, K!Set(s, k)
      PROVE  /\ toload = 0 /\ ~failed /\ ~failed' /\ toload' = 0
             /\ \/ K!Update(K!Established(s), K!Place(s), k, size) /\ K!Asks(s, k, TRUE)
                \/ K!Update(K!Established(s), K!Place(s), k, 2 * size) /\ K!Asks(s, k, TRUE)
                \/ scan' = scan /\ K!Asks(s, k, FALSE)
  BY <1>4 DEF K!Set, K!load
<1>5. ASSUME NEW i \in 1..MaxSize, NEW k \in Keycodes \cup {NULL}, K!SetIndex(i, k)
      PROVE  /\ InOrder(scan') /\ toload = 0 /\ ~failed /\ ~failed' /\ toload' = 0
             /\ Granted
  <2>1. i \in 1..Len(scan) /\ K!Update(scan, i, k, size)
    BY <1>1, <1>5, KeymapSizes, InputAssumption DEF K!SetIndex
  <2>2. InOrder(scan') /\ \A m : Keyed(scan, m) => Keyed(scan', [m EXCEPT ![scan[i][1]] = k])
    BY <1>1, <2>1, KeymapUpdateInOrder
  <2>3. scan[i][1] \in Scancodes
    <3>1. scan[i] \in K!Entries
      BY <1>1, <2>1
    <3> QED BY <3>1 DEF K!Entries
  <2>4. toload = 0 /\ ~failed /\ ~failed' /\ toload' = 0 /\ K!Asks(scan[i][1], k, TRUE)
    BY <1>5 DEF K!SetIndex, K!load
  <2> QED BY <2>2, <2>3, <2>4 DEF Granted
<1>6. InOrder(<<>>)
  BY DEF InOrder
<1>7. ASSUME NEW s \in Scancodes, NEW k \in Keycodes \cup {NULL}, K!Asks(s, k, FALSE)
      PROVE  NotGranted
  BY <1>7 DEF NotGranted
<1>8. CASE \E s \in Scancodes, k \in Keycodes \cup {NULL} : K!Load(s, k)
  <2>1. PICK s \in Scancodes, k \in Keycodes \cup {NULL} : K!Load(s, k)
    BY <1>8
  <2>2. CASE failed' /\ scan' = <<>> /\ K!Asks(s, k, FALSE)
    BY <1>3, <1>6, <1>7, <2>1, <2>2
  <2>3. CASE /\ K!Update(K!Established(s), K!Place(s), k, size)
             /\ K!Asks(s, k, TRUE) /\ ~failed'
    BY <1>2, <1>3, <2>1, <2>3
  <2> QED BY <1>3, <2>1, <2>2, <2>3
<1>9. CASE \E s \in Scancodes, k \in Keycodes \cup {NULL} : K!Set(s, k)
  <2>1. PICK s \in Scancodes, k \in Keycodes \cup {NULL} : K!Set(s, k)
    BY <1>9
  <2>2. CASE scan' = scan /\ K!Asks(s, k, FALSE)
    BY <1>1, <1>4, <1>7, <2>1, <2>2
  <2>3. ASSUME NEW room, K!Update(K!Established(s), K!Place(s), k, room), K!Asks(s, k, TRUE)
        PROVE  InOrder(scan') /\ Granted
    BY <1>2, <2>3
  <2> QED BY <1>4, <2>1, <2>2, <2>3
<1>10. CASE \E i \in 1..MaxSize, k \in Keycodes \cup {NULL} : K!SetIndex(i, k)
  BY <1>5, <1>10
<1>11. CASE K!Refused
  <2>1. UNCHANGED KeymapVars
    BY <1>11 DEF K!Refused, K!vars, K!load, KeymapVars
  <2> QED BY <1>1, <2>1 DEF KeymapVars
<1> QED BY <1>8, <1>9, <1>10, <1>11 DEF K!Next

\* So it is for the keys the search finds.
Shown == <<KeysOf, K!State, request>>

LEMMA KeysSteps ==
  KeymapOrdered /\ [K!Next]_KeymapVars => KeymapOrdered' /\ [K!K!Next]_Shown
<1> SUFFICES ASSUME KeymapOrdered, [K!Next]_KeymapVars PROVE KeymapOrdered' /\ [K!K!Next]_Shown
  OBVIOUS
<1>1. KeymapInv'
  BY KeymapNext DEF KeymapOrdered
<1>2. CASE UNCHANGED KeymapVars
  <2>1. scan' = scan /\ request' = request /\ K!State' = K!State
    BY <1>2 DEF KeymapVars, K!State
  <2>2. KeysOf' = KeysOf
    BY <2>1 DEF KeysOf, K!KeycodeFromTable, K!Search
  <2> QED BY <1>1, <2>1, <2>2 DEF KeymapOrdered, Shown
<1>3. CASE K!Next /\ ~UNCHANGED KeymapVars
  <2>1. InOrder(scan')
    BY <1>3, KeymapSteps
  <2>2. KeymapOrdered'
    BY <1>1, <2>1 DEF KeymapOrdered
  <2>3. Keyed(scan, KeysOf)
    BY KeymapFinds
  <2>4. (KeymapOrdered => Keyed(scan, KeysOf))'
    BY KeymapFinds, PTL
  <2>5. Keyed(scan', KeysOf') /\ scan' \in Seq(K!Entries)
    BY <2>2, <2>4 DEF Keyed, KeymapOrdered, KeymapInv
  <2>6. ASSUME Granted
        PROVE  request' \in K!K!Requests /\ K!K!Grant
    <3>1. PICK s \in Scancodes, k \in Keycodes \cup {NULL} :
            /\ K!Asks(s, k, TRUE)
            /\ \A m : Keyed(scan, m) => Keyed(scan', [m EXCEPT ![s] = k])
      BY <2>6 DEF Granted
    <3>2. Keyed(scan', [KeysOf EXCEPT ![s] = k])
      BY <2>3, <3>1
    <3>3. KeysOf' = [KeysOf EXCEPT ![s] = k]
      BY <2>5, <3>2, KeyedOnce
    <3>4. PICK r : r = [scancode |-> s, key |-> k, granted |-> TRUE]
      OBVIOUS
    <3>5. /\ request' \in K!K!Requests /\ request'.scancode = s /\ request'.key = k
          /\ request'.granted
      BY <3>1, <3>4 DEF K!K!Requests, K!Asks
    <3> HIDE DEF KeysOf
    <3>6. KeysOf' = [KeysOf EXCEPT ![request'.scancode] = request'.key]
      BY <3>3, <3>5
    <3>7. K!K!Grant
      BY <3>5, <3>6 DEF K!K!Grant, KeysOf
    <3> QED BY <3>5, <3>7
  <2>7. ASSUME NotGranted
        PROVE  request' \in K!K!Requests /\ ~request'.granted
    <3>1. PICK s \in Scancodes, k \in Keycodes \cup {NULL} : K!Asks(s, k, FALSE)
      BY <2>7 DEF NotGranted
    <3>2. PICK r : r = [scancode |-> s, key |-> k, granted |-> FALSE]
      OBVIOUS
    <3>3. request' \in K!K!Requests /\ ~request'.granted
      BY <3>1, <3>2 DEF K!K!Requests, K!Asks
    <3> QED BY <3>3
  <2>8. CASE toload > 0 /\ ~failed /\ ~failed' /\ Granted
    <3>1. K!State = "loading" /\ K!State' \in {"loading", "ready"}
      BY <2>8 DEF K!State
    <3>2. request' \in K!K!Requests /\ K!K!Grant
      BY <2>6, <2>8
    <3>3. K!K!Load
      BY <3>1, <3>2 DEF K!K!Load
    <3> QED BY <2>2, <3>2, <3>3 DEF K!K!Next
  <2>9. CASE toload > 0 /\ ~failed /\ failed' /\ scan' = <<>> /\ NotGranted
    <3>1. K!State = "loading" /\ K!State' = "failed"
      BY <2>9 DEF K!State
    <3>2. Keyed(scan', [s \in Scancodes |-> NULL])
      BY <2>9 DEF Keyed
    <3>3. KeysOf' = [s \in Scancodes |-> NULL]
      BY <2>5, <3>2, KeyedOnce
    <3>4. request' \in K!K!Requests /\ ~request'.granted
      BY <2>7, <2>9
    <3>5. K!K!GiveUp
      BY <3>1, <3>3, <3>4 DEF K!K!GiveUp, K!K!Empty, KeysOf
    <3> QED BY <2>2, <3>4, <3>5 DEF K!K!Next
  <2>10. CASE toload = 0 /\ ~failed /\ ~failed' /\ toload' = 0 /\ Granted
    <3>1. K!State = "ready" /\ K!State' = "ready"
      BY <2>10 DEF K!State
    <3>2. request' \in K!K!Requests /\ K!K!Grant
      BY <2>6, <2>10
    <3>3. K!K!Set
      BY <3>1, <3>2 DEF K!K!Set
    <3> QED BY <2>2, <3>2, <3>3 DEF K!K!Next
  <2>11. CASE toload = 0 /\ ~failed /\ ~failed' /\ toload' = 0 /\ scan' = scan /\ NotGranted
    <3>1. K!State = "ready" /\ K!State' = "ready"
      BY <2>11 DEF K!State
    <3>2. KeysOf' = KeysOf
      BY <2>3, <2>5, <2>11, KeyedOnce
    <3>3. request' \in K!K!Requests /\ ~request'.granted
      BY <2>7, <2>11
    <3>4. K!K!Refuse
      BY <3>1, <3>2, <3>3 DEF K!K!Refuse, KeysOf
    <3> QED BY <2>2, <3>3, <3>4 DEF K!K!Next
  <2> QED BY <1>3, <2>8, <2>9, <2>10, <2>11, KeymapSteps
<1> QED BY <1>2, <1>3

LEMMA KeysInit == K!Init => KeymapOrdered /\ K!K!Init
<1> SUFFICES ASSUME K!Init PROVE KeymapOrdered /\ K!K!Init
  OBVIOUS
<1>1. scan = <<>> /\ request = NULL
  BY DEF K!Init
<1>2. KeymapOrdered
  BY <1>1, KeymapInit DEF KeymapOrdered, InOrder
<1>3. Keyed(scan, KeysOf)
  BY <1>2, KeymapFinds
<1>4. Keyed(scan, [s \in Scancodes |-> NULL])
  BY <1>1 DEF Keyed
<1>5. scan \in Seq(K!Entries)
  BY <1>1
<1>6. KeysOf = [s \in Scancodes |-> NULL]
  BY <1>3, <1>4, <1>5, KeyedOnce
<1>7. K!State = "loading"
  BY InputAssumption DEF K!Init, K!State
<1> QED BY <1>1, <1>2, <1>6, <1>7 DEF K!K!Init, K!K!Empty, KeysOf

\* The search by halving finds for each scancode the key of the last request granted for
\* it, and none when there was none or its entry was deleted; a request touches no other
\* scancode and one that is refused touches none; for any scancodes, sizes of the table
\* and order of insertions, deletions and changes of its allocation: the entries are kept
\* in order by every one of them (rc-main.c:306-401, 416-484, 511-525).
THEOREM SpecImplementsKeyTable == Spec => ImplementsKeyTable
<1>1. Init => KeymapOrdered /\ K!K!Init
  BY KeysInit DEF Init
<1>2. KeymapOrdered /\ [Next]_vars => KeymapOrdered' /\ [K!K!Next]_Shown
  BY OneMoves, KeysSteps
<1>3. Spec => K!K!Spec
  BY <1>1, <1>2, PTL DEF Spec, K!K!Spec, Shown, KeysOf
<1> QED BY <1>3 DEF ImplementsKeyTable, K!ImplementsKeyTable

-----------------------------------------------------------------------------
(* The infrared receiver.                                                  *)

\* The runs of a frame before they come too long or too short.
Nominal == [pulse : BOOLEAN, duration : {4, 12, 16, 32, 64}]

\* The number of bits of a frame.
LEMMA IrBits == X!Bits \in Nat \ {0} /\ X!Bits = 4 * ByteLen
BY InfraredAssumption DEF X!Bits

\* A frame is a sequence of such runs.
LEMMA IrFrames ==
  ASSUME NEW c, NEW x \in BOOLEAN
  PROVE  X!Key(c, x) \in Seq(Nominal) /\ X!Repeat(x) \in Seq(Nominal)
<1> DEFINE start == <<X!Header(x), X!Run(FALSE, 8 * X!Unit)>>
           bits == [i \in 1..2 * X!Bits |-> X!Bit(X!Raw(c)[(i + 1) \div 2])[2 - (i % 2)]]
           stop == <<X!Run(TRUE, X!Unit)>>
<1>1. start \in Seq(Nominal) /\ stop \in Seq(Nominal)
  BY DEF X!Header, X!Run, X!Unit, Nominal
<1>2. \A b : X!Bit(b) \in Seq(Nominal) /\ X!Bit(b)[1] \in Nominal /\ X!Bit(b)[2] \in Nominal
  BY DEF X!Bit, X!Run, X!Unit, Nominal
<1>3. \A i \in 1..2 * X!Bits : 2 - (i % 2) \in {1, 2}
  BY IrBits
<1>4. \A i \in 1..2 * X!Bits : bits[i] \in Nominal
  BY <1>2, <1>3
<1>5. bits \in Seq(Nominal)
  <2>1. bits \in [1..2 * X!Bits -> Nominal]
    BY <1>4
  <2>2. 2 * X!Bits \in Nat
    BY IrBits
  <2> HIDE DEF bits
  <2> QED BY <2>1, <2>2
<1>6. X!Key(c, x) = (start \o bits) \o stop
  BY DEF X!Key
<1> HIDE DEF bits, start, stop
<1>7. X!Key(c, x) \in Seq(Nominal)
  BY <1>1, <1>5, <1>6
<1>8. CASE x
  <2>1. X!Repeat(x) = (start \o X!Bit(0)) \o stop
    BY <1>8 DEF X!Repeat, start, stop
  <2> QED BY <1>1, <1>2, <1>7, <2>1
<1>9. CASE ~x
  <2>1. X!Repeat(x) = <<X!Header(x), X!Run(FALSE, 4 * X!Unit), X!Run(TRUE, X!Unit)>>
    BY <1>9 DEF X!Repeat
  <2> QED BY <1>7, <2>1 DEF X!Header, X!Run, X!Unit, Nominal
<1> QED BY <1>8, <1>9

\* And stays one of runs when they do.
LEMMA IrSkewed ==
  ASSUME NEW s \in Seq(Nominal), NEW d \in -1..1
  PROVE  X!Skewed(s, d) \in Seq(X!Event) /\ Len(X!Skewed(s, d)) = Len(s)
<1>1. \A i \in 1..Len(s) : s[i] \in Nominal
  OBVIOUS
<1>2. \A r \in Nominal : [r EXCEPT !.duration = IF r.pulse THEN @ + d ELSE @ - d] \in X!Event
  BY DEF Nominal, X!Event
<1>3. X!Skewed(s, d) \in [1..Len(s) -> X!Event]
  BY <1>1, <1>2 DEF X!Skewed
<1> QED BY <1>3

\* What the decoder holds between two events.
Decoders == [state : X!States, bits : Seq({0, 1}), is_nec_x : BOOLEAN, necx_repeat : BOOLEAN]
Decoding(n) ==
  /\ n \in Decoders /\ Len(n.bits) <= X!Bits
  /\ n.state \in {"inactive", "header_space"} => n.bits = <<>>
  /\ n.state \in {"bit_pulse", "bit_space"} => Len(n.bits) < X!Bits

IrTyped == X!TypeOK /\ Decoding(nec)

LEMMA IrTypedInit == X!Init => IrTyped
<1> SUFFICES ASSUME X!Init PROVE IrTyped
  OBVIOUS
<1>1. X!NoEvent \in X!Event
  BY DEF X!NoEvent, X!Run, X!Event
<1>2. Decoding(nec)
  BY IrBits DEF X!Init, Decoding, Decoders, X!States
<1>3. Len(<<>>) <= RawSize /\ <<>> \in Seq(X!Event) /\ <<>> \in Seq(X!Reports)
  BY InfraredAssumption
<1>4. nec.state \in X!States /\ nec.bits \in Seq({0, 1}) /\ Len(nec.bits) <= X!Bits
      /\ nec.is_nec_x \in BOOLEAN /\ nec.necx_repeat \in BOOLEAN
  BY <1>2 DEF Decoding, Decoders
<1>5. X!TypeOK
  BY <1>1, <1>3, <1>4 DEF X!Init, X!TypeOK
<1> QED BY <1>2, <1>5 DEF IrTyped

\* Events are added at the end, as far as there is room.
LEMMA IrStore ==
  ASSUME X!TypeOK, NEW s \in Seq(X!Event), X!Store(s)
  PROVE  kfifo' \in Seq(X!Event) /\ Len(kfifo') <= RawSize /\ overflowed' \in BOOLEAN
<1> DEFINE room == RawSize - Len(kfifo)
           n == X!Smaller(Len(s), room)
<1>1. kfifo \in Seq(X!Event) /\ Len(kfifo) \in Nat /\ room \in Nat /\ Len(s) \in Nat
  BY InfraredAssumption DEF X!TypeOK
<1>2. n \in 0..Len(s) /\ n <= room
  BY <1>1 DEF X!Smaller
<1>3. kfifo' = kfifo \o SubSeq(s, 1, n) /\ overflowed' \in BOOLEAN
  BY DEF X!Store, X!TypeOK
<1> HIDE DEF n
<1>4. SubSeq(s, 1, n) \in Seq(X!Event) /\ Len(SubSeq(s, 1, n)) = n
  BY <1>2, SubSeqProperties
<1>5. kfifo' \in Seq(X!Event) /\ Len(kfifo') = Len(kfifo) + n
  BY <1>1, <1>3, <1>4, ConcatProperties
<1> QED BY <1>1, <1>2, <1>3, <1>5, InfraredAssumption

\* The interrupt handler (hc_rc.c:66-93, rc-ir-raw.c:82-179).
LEMMA IrHandler ==
  ASSUME IrTyped, X!Sample \/ X!TimedOut
  PROVE  IrTyped'
<1>0. X!TypeOK /\ this_ev \in X!Event /\ runs \in Seq(X!Event) /\ X!NoEvent \in X!Event
  BY DEF IrTyped, X!TypeOK, X!NoEvent, X!Run, X!Event
<1>1. CASE X!Sample
  <2> DEFINE run == Head(runs)
             n == X!Smaller(run.duration, MaxSample)
             smp == X!Run(run.pulse, n)
             rest == X!Run(run.pulse, run.duration - n)
             m == X!Merged(smp)
  <2>1. runs # <<>> /\ run \in X!Event /\ Tail(runs) \in Seq(X!Event)
    BY <1>0, <1>1 DEF X!Sample
  <2>2. run.pulse \in BOOLEAN /\ run.duration \in Nat
    BY <2>1 DEF X!Event
  <2>3. n \in Nat /\ run.duration - n \in Nat
    BY <2>2, InfraredAssumption DEF X!Smaller
  <2>4. /\ X!StoreWithFilter(smp)
        /\ runs' = IF n = run.duration THEN Tail(runs) ELSE <<rest>> \o Tail(runs)
        /\ X!Handle /\ UNCHANGED <<frame, silent, repeatable, nec, owed, mistaken>>
    BY <1>1 DEF X!Sample
  <2> HIDE DEF n, run
  <2>5. smp \in X!Event /\ rest \in X!Event
    BY <2>2, <2>3 DEF X!Run, X!Event
  <2> HIDE DEF smp, rest
  <2>6. runs' \in Seq(X!Event)
    BY <2>1, <2>4, <2>5
  <2>7. m \in X!Event
    BY <1>0, <2>5 DEF X!Merged, X!Event
  <2> HIDE DEF m
  <2>8. /\ kfifo' \in Seq(X!Event) /\ Len(kfifo') <= RawSize /\ overflowed' \in BOOLEAN
        /\ idle' \in BOOLEAN /\ this_ev' \in X!Event
    <3>1. CASE idle /\ ~smp.pulse
      <4>1. X!Store(<<>>) /\ UNCHANGED <<idle, this_ev>>
        BY <2>4, <3>1 DEF X!StoreWithFilter, X!receiver
      <4>2. <<>> \in Seq(X!Event)
        OBVIOUS
      <4> QED BY <1>0, <4>1, <4>2, IrStore DEF X!TypeOK
    <3>2. CASE ~(idle /\ ~smp.pulse)
      <4> DEFINE ended == this_ev.duration # 0 /\ smp.pulse # this_ev.pulse
                 idles == ~smp.pulse /\ m.duration >= RawTimeout
                 s == (IF ended THEN <<this_ev>> ELSE <<>>) \o IF idles THEN <<m>> ELSE <<>>
      <4>1. /\ X!Store(s) /\ this_ev' = (IF idles THEN X!NoEvent ELSE m) /\ idle' = idles
        BY <2>4, <3>2 DEF X!StoreWithFilter, m
      <4>2. s \in Seq(X!Event)
        BY <1>0, <2>7
      <4> HIDE DEF s
      <4>3. idles \in BOOLEAN
        OBVIOUS
      <4> QED BY <1>0, <2>7, <4>1, <4>2, <4>3, IrStore
    <3> QED BY <3>1, <3>2
  <2>9. runnable' \in BOOLEAN /\ at_raw' \in {"drain", "set", "check", "schedule", "asleep"}
    BY <1>0, <2>4 DEF X!Handle, X!TypeOK
  <2> QED BY <1>0, <2>4, <2>6, <2>8, <2>9 DEF IrTyped, X!TypeOK
<1>2. CASE X!TimedOut
  <2>1. /\ X!Store(<<this_ev>>) /\ this_ev' = X!NoEvent /\ idle' = TRUE /\ silent' = TRUE
        /\ owed' = IF frame = NULL THEN owed ELSE Append(owed, frame)
        /\ frame' = NULL /\ X!Handle /\ UNCHANGED <<runs, repeatable, nec, mistaken>>
    BY <1>2 DEF X!TimedOut
  <2>2. owed' \in Seq(X!Reports)
    BY <1>0, <2>1 DEF X!TypeOK
  <2>3. runnable' \in BOOLEAN /\ at_raw' \in {"drain", "set", "check", "schedule", "asleep"}
    BY <1>0, <2>1 DEF X!Handle, X!TypeOK
  <2>4. kfifo' \in Seq(X!Event) /\ Len(kfifo') <= RawSize /\ overflowed' \in BOOLEAN
    BY <1>0, <2>1, IrStore, <<this_ev>> \in Seq(X!Event)
  <2> QED BY <1>0, <2>1, <2>2, <2>3, <2>4 DEF IrTyped, X!TypeOK
<1> QED BY <1>1, <1>2

\* The decoder collects no more bits than a frame has (ir-nec-decoder.c:41-171).
LEMMA IrDecoded ==
  ASSUME Decoding(nec), NEW e \in X!Event
  PROVE  Decoding(X!Decoded(e))
<1> DEFINE n == [nec EXCEPT !.necx_repeat = @ /\ Len(nec.bits) <= 1]
           With(b) == [n EXCEPT !.bits = Append(@, b),
                                !.state = IF Len(nec.bits) + 1 = X!Bits
                                          THEN "trailer_pulse" ELSE "bit_pulse"]
<1>0. /\ nec \in Decoders /\ Len(nec.bits) <= X!Bits /\ Len(nec.bits) \in Nat
      /\ nec.state \in X!States /\ nec.bits \in Seq({0, 1}) /\ X!Bits \in Nat \ {0}
      /\ Len(<<>>) = 0
  BY IrBits DEF Decoding, Decoders
<1>1. Decoding(X!Inactive) /\ \A b \in BOOLEAN : Decoding([X!Inactive EXCEPT !.necx_repeat = b])
  <2>1. X!Inactive \in Decoders /\ X!Inactive.state = "inactive" /\ X!Inactive.bits = <<>>
    <3> DEFINE none == <<>>
    <3>1. none \in Seq({0, 1}) /\ "inactive" \in X!States
      BY DEF X!States
    <3>2. X!Inactive = [nec EXCEPT !.state = "inactive", !.bits = none, !.is_nec_x = FALSE]
      BY DEF X!Inactive
    <3> HIDE DEF none
    <3>3. X!Inactive \in Decoders /\ X!Inactive.state = "inactive" /\ X!Inactive.bits = none
      BY <1>0, <3>1, <3>2 DEF Decoders
    <3> QED BY <3>3 DEF none
  <2>2. ASSUME NEW b \in BOOLEAN
        PROVE  LET m == [X!Inactive EXCEPT !.necx_repeat = b]
               IN  m \in Decoders /\ m.state = "inactive" /\ m.bits = <<>>
    BY <2>1 DEF Decoders
  <2> QED BY <1>0, <2>1, <2>2 DEF Decoding
<1>2. ASSUME nec.state = "inactive"
      PROVE  Decoding(X!Decoded(e))
  <2>1. X!Decoded(e) \in {[X!To("header_space") EXCEPT !.is_nec_x = FALSE, !.necx_repeat = FALSE],
                          [X!To("header_space") EXCEPT !.is_nec_x = TRUE], X!Inactive}
    BY <1>2 DEF X!Decoded
  <2> QED BY <1>0, <1>1, <1>2, <2>1 DEF X!To, Decoding, Decoders, X!States
<1>3. ASSUME nec.state = "header_space"
      PROVE  Decoding(X!Decoded(e))
  <2>1. X!Decoded(e) \in {X!To("bit_pulse"), X!To("trailer_pulse"), X!Inactive}
    BY <1>3 DEF X!Decoded
  <2> QED BY <1>0, <1>1, <1>3, <2>1 DEF X!To, Decoding, Decoders, X!States
<1>4. ASSUME nec.state = "bit_pulse"
      PROVE  Decoding(X!Decoded(e))
  <2>1. X!Decoded(e) \in {X!To("bit_space"), X!Inactive}
    BY <1>4 DEF X!Decoded
  <2> QED BY <1>0, <1>1, <1>4, <2>1 DEF X!To, Decoding, Decoders, X!States
<1>5. ASSUME nec.state = "bit_space"
      PROVE  Decoding(X!Decoded(e))
  <2>1. X!Decoded(e) \in {X!Inactive, With(1), With(0),
                          [X!Inactive EXCEPT !.necx_repeat = n.necx_repeat]}
    BY <1>5 DEF X!Decoded
  <2>2. n \in Decoders /\ n.bits = nec.bits /\ n.necx_repeat \in BOOLEAN
    BY <1>0 DEF Decoders
  <2>3. Len(nec.bits) < X!Bits
    BY <1>5 DEF Decoding
  <2>4. ASSUME NEW b \in {0, 1} PROVE Decoding(With(b))
    <3> DEFINE bs == Append(n.bits, b)
               s == IF Len(nec.bits) + 1 = X!Bits THEN "trailer_pulse" ELSE "bit_pulse"
    <3>1. bs \in Seq({0, 1}) /\ Len(bs) = Len(nec.bits) + 1
      BY <1>0, <2>2
    <3>2. s \in X!States /\ (s = "bit_pulse" => Len(bs) < X!Bits) /\ s \in {"trailer_pulse", "bit_pulse"}
      BY <1>0, <2>3, <3>1 DEF X!States
    <3>3. With(b) = [n EXCEPT !.bits = bs, !.state = s]
      OBVIOUS
    <3> HIDE DEF bs, s, n
    <3>4. With(b) \in Decoders /\ With(b).bits = bs /\ With(b).state = s
      BY <2>2, <3>1, <3>2, <3>3 DEF Decoders
    <3> QED BY <1>0, <2>3, <3>1, <3>2, <3>4 DEF Decoding
  <2> QED BY <1>1, <2>1, <2>2, <2>4
<1>6. ASSUME nec.state = "trailer_pulse"
      PROVE  Decoding(X!Decoded(e))
  <2>1. X!Decoded(e) \in {X!To("trailer_space"), X!Inactive}
    BY <1>6 DEF X!Decoded
  <2> QED BY <1>0, <1>1, <1>6, <2>1 DEF X!To, Decoding, Decoders, X!States
<1>7. ASSUME nec.state = "trailer_space"
      PROVE  Decoding(X!Decoded(e))
  <2>1. PICK b \in BOOLEAN : X!Decoded(e) = [X!Inactive EXCEPT !.necx_repeat = b]
    <3> DEFINE b == X!Inactive.necx_repeat \/ (X!IsTrailer(e) /\ Len(nec.bits) = X!Bits /\ nec.is_nec_x)
    <3>1. X!Decoded(e) = [X!Inactive EXCEPT !.necx_repeat = b]
      BY <1>7 DEF X!Decoded
    <3> QED BY <3>1
  <2> QED BY <1>1, <2>1
<1> QED BY <1>0, <1>2, <1>3, <1>4, <1>5, <1>6, <1>7 DEF X!States

\* Every step of remote control, interrupt handler and thread.
LEMMA IrTypedNext == IrTyped /\ [X!Next]_IrVars => IrTyped'
<1> SUFFICES ASSUME IrTyped, [X!Next]_IrVars PROVE IrTyped'
  OBVIOUS
<1>0. X!TypeOK /\ Decoding(nec)
  BY DEF IrTyped
<1>1. CASE UNCHANGED IrVars \/ X!Ended
  BY <1>1 DEF IrVars, X!Ended, X!vars, X!air, X!receiver, X!thread, IrTyped, X!TypeOK
<1>2. CASE X!Send
  <2>1. PICK d \in Skew, x \in BOOLEAN, r \in X!Reports :
          /\ runs' = X!Skewed(IF r = X!Rpt THEN X!Repeat(x) ELSE X!Key(r, x), d) \o <<X!Silence>>
          /\ frame' = r /\ repeatable' = x
    BY <1>2 DEF X!Send
  <2>2. X!Silence \in X!Event
    BY InfraredAssumption DEF X!Silence, X!Run, X!Event
  <2>3. (IF r = X!Rpt THEN X!Repeat(x) ELSE X!Key(r, x)) \in Seq(Nominal) /\ d \in -1..1
    BY IrFrames, InfraredAssumption
  <2>4. X!Skewed(IF r = X!Rpt THEN X!Repeat(x) ELSE X!Key(r, x), d) \in Seq(X!Event)
    BY <2>3, IrSkewed
  <2>5. runs' \in Seq(X!Event)
    BY <2>1, <2>2, <2>4
  <2> QED BY <1>0, <1>2, <2>1, <2>5 DEF X!Send, X!receiver, X!thread, IrTyped, X!TypeOK
<1>3. CASE X!Cut
  <2>1. X!Silence \in X!Event
    BY InfraredAssumption DEF X!Silence, X!Run, X!Event
  <2>2. runs' \in Seq(X!Event)
    BY <1>3, <2>1 DEF X!Cut
  <2> QED BY <1>0, <1>3, <2>2 DEF X!Cut, X!receiver, X!thread, IrTyped, X!TypeOK
<1>4. CASE X!Decode
  <2> DEFINE e == Head(kfifo)
             r == X!Reported(e)
  <2>1. e \in X!Event /\ kfifo' = Tail(kfifo) /\ nec' = X!Decoded(e)
    BY <1>0, <1>4 DEF X!Decode, X!TypeOK
  <2>2. Decoding(nec)'
    BY <1>0, <2>1, IrDecoded
  <2>3. kfifo' \in Seq(X!Event) /\ Len(kfifo') <= RawSize
    BY <1>0, <1>4, <2>1, InfraredAssumption DEF X!Decode, X!TypeOK
  <2>4. owed' \in Seq(X!Reports) /\ mistaken' \in BOOLEAN
    <3>1. \/ UNCHANGED <<owed, mistaken>>
          \/ /\ mistaken' = (mistaken \/ owed = <<>> \/ r # Head(owed))
             /\ owed' = IF owed = <<>> THEN owed ELSE Tail(owed)
      BY <1>4 DEF X!Decode
    <3>2. owed \in Seq(X!Reports) /\ mistaken \in BOOLEAN
      BY <1>0 DEF X!TypeOK
    <3>3. owed # <<>> => Tail(owed) \in Seq(X!Reports)
      BY <3>2
    <3>4. (mistaken \/ owed = <<>> \/ r # Head(owed)) \in BOOLEAN
      OBVIOUS
    <3> QED BY <3>1, <3>2, <3>3, <3>4
  <2>5. UNCHANGED <<runs, frame, silent, repeatable, idle, this_ev, at_raw, runnable, overflowed>>
    BY <1>4 DEF X!Decode, X!air, X!receiver, X!thread
  <2> QED BY <1>0, <2>2, <2>3, <2>4, <2>5 DEF IrTyped, X!TypeOK, Decoding, Decoders
<1>5. CASE X!Drained \/ X!Declare \/ X!Check \/ X!Schedule
  BY <1>0, <1>5 DEF X!Drained, X!Declare, X!Check, X!Schedule, X!air, X!receiver, IrTyped, X!TypeOK
<1> QED BY <1>1, <1>2, <1>3, <1>4, <1>5, IrHandler DEF X!Next

-----------------------------------------------------------------------------
(* The bits of a code.                                                     *)

Binary == {0, 1}

\* A byte turned around twice, or complemented, is a byte.
LEMMA IrWords ==
  ASSUME NEW w \in X!Words
  PROVE  /\ w \in Seq({0, 1}) /\ Len(w) = ByteLen
         /\ X!Reversed(w) \in X!Words /\ X!Reversed(X!Reversed(w)) = w
         /\ X!Complement(w) \in X!Words
<1>1. ByteLen \in Nat \ {0}
  BY InfraredAssumption
<1>2. ASSUME NEW v \in X!Words
      PROVE  /\ v \in Seq({0, 1}) /\ Len(v) = ByteLen /\ DOMAIN v = 1..ByteLen
             /\ X!Reversed(v) \in X!Words
             /\ \A i \in 1..ByteLen : X!Reversed(v)[i] = v[ByteLen + 1 - i]
  <2>1. v \in Seq({0, 1}) /\ Len(v) = ByteLen /\ DOMAIN v = 1..ByteLen
    BY <1>1 DEF X!Words
  <2>2. X!Reversed(v) = [i \in 1..ByteLen |-> v[ByteLen + 1 - i]]
    BY <2>1 DEF X!Reversed
  <2>3. \A i \in 1..ByteLen : ByteLen + 1 - i \in 1..ByteLen
    BY <1>1
  <2> QED BY <2>1, <2>2, <2>3 DEF X!Words
<1>3. X!Reversed(X!Reversed(w)) = w
  <2> DEFINE r == X!Reversed(w)
  <2>1. r \in X!Words /\ X!Reversed(r) \in X!Words
    BY <1>2
  <2>2. ASSUME NEW i \in 1..ByteLen PROVE X!Reversed(r)[i] = w[i]
    <3>1. ByteLen + 1 - i \in 1..ByteLen /\ ByteLen + 1 - (ByteLen + 1 - i) = i
      BY <1>1
    <3>2. X!Reversed(r)[i] = r[ByteLen + 1 - i]
      BY <1>2, <2>1
    <3>3. r[ByteLen + 1 - i] = w[ByteLen + 1 - (ByteLen + 1 - i)]
      BY <1>2, <3>1
    <3> QED BY <3>1, <3>2, <3>3
  <2>3. /\ X!Reversed(r) \in Seq(Binary) /\ Len(X!Reversed(r)) = ByteLen
        /\ w \in Seq(Binary) /\ Len(w) = ByteLen
    BY <1>2, <2>1 DEF Binary
  <2> DEFINE q == X!Reversed(r)
  <2> HIDE DEF q
  <2>4. q = w
    BY <2>2, <2>3, SeqEqual DEF q
  <2> QED BY <2>4 DEF q, r
<1>4. X!Complement(w) \in X!Words
  <2>1. DOMAIN w = 1..ByteLen /\ \A i \in 1..ByteLen : 1 - w[i] \in {0, 1}
    BY DEF X!Words
  <2> QED BY <2>1 DEF X!Complement, X!Words
<1> QED BY <1>2, <1>3, <1>4

\* A code has four of them.
LEMMA IrBytes ==
  ASSUME NEW c \in Codes
  PROVE  /\ \A k \in 1..4 : X!Bytes(c)[k] \in X!Words
         /\ c # X!Rpt /\ c # NULL
<1>1. c \in X!NecCodes /\ c # NULL
  BY InfraredAssumption DEF X!Reports
<1>2. CASE c \in [proto : {"nec"}, address : X!Words, command : X!Words]
  <2>1. c.proto = "nec" /\ c.address \in X!Words /\ c.command \in X!Words
    BY <1>2
  <2>2. X!Bytes(c) = <<c.address, X!Complement(c.address), c.command, X!Complement(c.command)>>
    BY <2>1 DEF X!Bytes
  <2>3. X!Complement(c.address) \in X!Words /\ X!Complement(c.command) \in X!Words
    BY <2>1, IrWords
  <2> QED BY <1>1, <2>1, <2>2, <2>3 DEF X!Rpt
<1>3. CASE c \in [proto : {"necx"}, address : X!Words, not_address : X!Words, command : X!Words]
  <2>1. c.proto = "necx" /\ c.address \in X!Words /\ c.not_address \in X!Words /\ c.command \in X!Words
    BY <1>3
  <2>2. X!Bytes(c) = <<c.address, c.not_address, c.command, X!Complement(c.command)>>
    BY <2>1 DEF X!Bytes
  <2>3. X!Complement(c.command) \in X!Words
    BY <2>1, IrWords
  <2> QED BY <1>1, <2>1, <2>2, <2>3 DEF X!Rpt
<1>4. CASE c \in [proto : {"nec32"}, address : X!Words, not_address : X!Words, command : X!Words,
                  not_command : X!Words]
  <2>1. /\ c.proto = "nec32" /\ c.address \in X!Words /\ c.not_address \in X!Words
        /\ c.command \in X!Words /\ c.not_command \in X!Words
    BY <1>4
  <2>2. X!Bytes(c) = <<c.address, c.not_address, c.command, c.not_command>>
    BY <2>1 DEF X!Bytes
  <2> QED BY <1>1, <2>1, <2>2 DEF X!Rpt
<1> QED BY <1>1, <1>2, <1>3, <1>4 DEF X!NecCodes

\* One sequence behind another.
LEMMA Joined ==
  ASSUME NEW Y, NEW a \in Seq(Y), NEW b \in Seq(Y)
  PROVE  /\ a \o b \in Seq(Y) /\ Len(a \o b) = Len(a) + Len(b)
         /\ \A i \in 1..Len(a) : (a \o b)[i] = a[i]
         /\ \A i \in 1..Len(b) : (a \o b)[i + Len(a)] = b[i]
<1>1. Len(a) \in Nat /\ Len(b) \in Nat
  OBVIOUS
<1>2. \A i \in 1..Len(a) + Len(b) :
        (a \o b)[i] = IF i <= Len(a) THEN a[i] ELSE b[i - Len(a)]
  BY ConcatProperties
<1>3. ASSUME NEW i \in 1..Len(b) PROVE (a \o b)[i + Len(a)] = b[i]
  <2>1. i + Len(a) \in 1..Len(a) + Len(b) /\ ~(i + Len(a) <= Len(a)) /\ i + Len(a) - Len(a) = i
    BY <1>1
  <2> QED BY <1>2, <2>1
<1>4. ASSUME NEW i \in 1..Len(a) PROVE (a \o b)[i] = a[i]
  <2>1. i \in 1..Len(a) + Len(b) /\ i <= Len(a)
    BY <1>1
  <2> QED BY <1>2, <2>1
<1> QED BY <1>3, <1>4, ConcatProperties

\* They are sent one after the other, each turned around.
LEMMA IrRaw ==
  ASSUME NEW c \in Codes
  PROVE  /\ X!Raw(c) \in Seq({0, 1}) /\ Len(X!Raw(c)) = X!Bits
         /\ \A k \in 1..4 :
              SubSeq(X!Raw(c), (k - 1) * ByteLen + 1, k * ByteLen) = X!Reversed(X!Bytes(c)[k])
<1> DEFINE b == X!Bytes(c)
           w1 == X!Reversed(b[1])
           w2 == X!Reversed(b[2])
           w3 == X!Reversed(b[3])
           w4 == X!Reversed(b[4])
           w == <<w1, w2, w3, w4>>
           raw == ((w1 \o w2) \o w3) \o w4
<1>1. ByteLen \in Nat \ {0} /\ X!Bits = 4 * ByteLen
  BY IrBits, InfraredAssumption
<1>2. /\ w1 \in Seq(Binary) /\ Len(w1) = ByteLen /\ w2 \in Seq(Binary) /\ Len(w2) = ByteLen
      /\ w3 \in Seq(Binary) /\ Len(w3) = ByteLen /\ w4 \in Seq(Binary) /\ Len(w4) = ByteLen
  <2>1. b[1] \in X!Words /\ b[2] \in X!Words /\ b[3] \in X!Words /\ b[4] \in X!Words
    BY IrBytes
  <2> HIDE DEF b
  <2>2. w1 \in X!Words /\ w2 \in X!Words /\ w3 \in X!Words /\ w4 \in X!Words
    BY <2>1, IrWords
  <2> QED BY <2>2, IrWords DEF Binary
<1>3. X!Raw(c) = raw
  BY DEF X!Raw
<1> HIDE DEF w1, w2, w3, w4
<1>21. w1 \in Seq(Binary) /\ w2 \in Seq(Binary) /\ w3 \in Seq(Binary) /\ w4 \in Seq(Binary)
  BY <1>2
<1> DEFINE u == w1 \o w2
           v == u \o w3
<1>4. /\ u \in Seq(Binary) /\ Len(u) = Len(w1) + Len(w2)
      /\ \A i \in 1..Len(w1) : u[i] = w1[i]
      /\ \A i \in 1..Len(w2) : u[i + Len(w1)] = w2[i]
  BY <1>21, Joined
<1> HIDE DEF u
<1>5. /\ v \in Seq(Binary) /\ Len(v) = Len(u) + Len(w3)
      /\ \A i \in 1..Len(u) : v[i] = u[i]
      /\ \A i \in 1..Len(w3) : v[i + Len(u)] = w3[i]
  <2>1. u \in Seq(Binary)
    BY <1>4
  <2> QED BY <1>21, <2>1, Joined
<1> HIDE DEF v
<1>6. /\ v \o w4 \in Seq(Binary) /\ Len(v \o w4) = Len(v) + Len(w4)
      /\ \A i \in 1..Len(v) : (v \o w4)[i] = v[i]
      /\ \A i \in 1..Len(w4) : (v \o w4)[i + Len(v)] = w4[i]
  <2>1. v \in Seq(Binary)
    BY <1>5
  <2> QED BY <1>21, <2>1, Joined
<1>7. raw = v \o w4
  BY DEF u, v
<1> HIDE DEF raw
<1>8. \A i \in 1..ByteLen :
        /\ raw[i] = w1[i] /\ raw[i + ByteLen] = w2[i]
        /\ raw[i + 2 * ByteLen] = w3[i] /\ raw[i + 3 * ByteLen] = w4[i]
  <2> SUFFICES ASSUME NEW i \in 1..ByteLen
               PROVE  /\ raw[i] = w1[i] /\ raw[i + ByteLen] = w2[i]
                      /\ raw[i + 2 * ByteLen] = w3[i] /\ raw[i + 3 * ByteLen] = w4[i]
    OBVIOUS
  <2>1. Len(u) = 2 * ByteLen /\ Len(v) = 3 * ByteLen
    BY <1>1, <1>2, <1>4, <1>5
  <2>2. /\ i \in 1..2 * ByteLen /\ i + ByteLen \in 1..2 * ByteLen
        /\ i \in 1..3 * ByteLen /\ i + ByteLen \in 1..3 * ByteLen
        /\ i + 2 * ByteLen \in 1..3 * ByteLen
    BY <1>1
  <2>3. u[i] = w1[i] /\ u[i + ByteLen] = w2[i]
    BY <1>2, <1>4
  <2>4. v[i] = u[i] /\ v[i + ByteLen] = u[i + ByteLen] /\ v[i + 2 * ByteLen] = w3[i]
    BY <1>2, <1>5, <2>1, <2>2
  <2>5. raw[i] = v[i] /\ raw[i + ByteLen] = v[i + ByteLen]
        /\ raw[i + 2 * ByteLen] = v[i + 2 * ByteLen] /\ raw[i + 3 * ByteLen] = w4[i]
    BY <1>2, <1>6, <1>7, <2>1, <2>2
  <2> QED BY <2>3, <2>4, <2>5
<1>9. raw \in Seq(Binary) /\ Len(raw) = 4 * ByteLen
  <2>1. Len(u) = 2 * ByteLen
    BY <1>1, <1>2, <1>4
  <2>2. Len(v) = 3 * ByteLen
    BY <1>1, <1>2, <1>5, <2>1
  <2> QED BY <1>1, <1>2, <1>6, <1>7, <2>2
<1>10. ASSUME NEW m \in Nat, m + ByteLen <= 4 * ByteLen, NEW s \in Seq(Binary), Len(s) = ByteLen,
              \A i \in 1..ByteLen : raw[i + m] = s[i]
       PROVE  SubSeq(raw, m + 1, m + ByteLen) = s
  <2>0. PICK x \in Int, y \in Int : x = m + 1 /\ y = m + ByteLen
    BY <1>1
  <2> DEFINE t == SubSeq(raw, x, y)
  <2>1. \A i \in x..y : raw[i] \in Binary
    BY <1>1, <1>9, <1>10, <2>0
  <2>2. /\ t \in Seq(Binary)
        /\ Len(t) = IF x <= y THEN y - x + 1 ELSE 0
        /\ \A i \in 1..y - x + 1 : t[i] = raw[x + i - 1]
    BY <2>1, SubSeqProperties
  <2> HIDE DEF t
  <2>3. Len(t) = ByteLen /\ y - x + 1 = ByteLen
    BY <1>1, <2>0, <2>2
  <2>4. \A i \in 1..ByteLen : t[i] = s[i]
    <3> SUFFICES ASSUME NEW i \in 1..ByteLen PROVE t[i] = s[i]
      OBVIOUS
    <3>1. x + i - 1 = i + m
      BY <1>1, <2>0
    <3> QED BY <1>10, <2>2, <2>3, <3>1
  <2>5. t = s
    BY <1>10, <2>2, <2>3, <2>4, SeqEqual
  <2> QED BY <2>0, <2>5 DEF t
<1>11. /\ SubSeq(raw, 0 * ByteLen + 1, 1 * ByteLen) = w1
       /\ SubSeq(raw, 1 * ByteLen + 1, 2 * ByteLen) = w2
       /\ SubSeq(raw, 2 * ByteLen + 1, 3 * ByteLen) = w3
       /\ SubSeq(raw, 3 * ByteLen + 1, 4 * ByteLen) = w4
  <2>1. SubSeq(raw, 0 + 1, 0 + ByteLen) = w1
    BY <1>1, <1>2, <1>8, <1>10
  <2>2. SubSeq(raw, ByteLen + 1, ByteLen + ByteLen) = w2
    BY <1>1, <1>2, <1>8, <1>10
  <2>3. SubSeq(raw, 2 * ByteLen + 1, 2 * ByteLen + ByteLen) = w3
    BY <1>1, <1>2, <1>8, <1>10
  <2>4. SubSeq(raw, 3 * ByteLen + 1, 3 * ByteLen + ByteLen) = w4
    BY <1>1, <1>2, <1>8, <1>10
  <2> QED BY <1>1, <2>1, <2>2, <2>3, <2>4
<1>12. ASSUME NEW k \in 1..4
       PROVE  SubSeq(raw, (k - 1) * ByteLen + 1, k * ByteLen) = X!Reversed(b[k])
  <2>1. k = 1 \/ k = 2 \/ k = 3 \/ k = 4
    OBVIOUS
  <2>2. k = 1 => SubSeq(raw, (k - 1) * ByteLen + 1, k * ByteLen) = X!Reversed(b[k])
    BY <1>11 DEF w1
  <2>3. k = 2 => SubSeq(raw, (k - 1) * ByteLen + 1, k * ByteLen) = X!Reversed(b[k])
    BY <1>11 DEF w2
  <2>4. k = 3 => SubSeq(raw, (k - 1) * ByteLen + 1, k * ByteLen) = X!Reversed(b[k])
    BY <1>11 DEF w3
  <2>5. k = 4 => SubSeq(raw, (k - 1) * ByteLen + 1, k * ByteLen) = X!Reversed(b[k])
    BY <1>11 DEF w4
  <2> QED BY <2>1, <2>2, <2>3, <2>4, <2>5
<1> QED BY <1>1, <1>3, <1>9, <1>12 DEF Binary

\* From all its bits the decoder makes the code that was sent, whichever its variant
\* (rc-core.h:255-285).
LEMMA IrScancode ==
  ASSUME NEW c \in Codes, nec.bits = X!Raw(c)
  PROVE  X!Scancode = c
<1>1. \A k \in 1..4 : X!Byte(k) = X!Bytes(c)[k]
  <2> SUFFICES ASSUME NEW k \in 1..4 PROVE X!Byte(k) = X!Bytes(c)[k]
    OBVIOUS
  <2>1. X!Byte(k) = X!Reversed(X!Reversed(X!Bytes(c)[k]))
    BY IrRaw DEF X!Byte
  <2> QED BY <2>1, IrBytes, IrWords
<1>2. /\ X!Byte(1) = X!Bytes(c)[1] /\ X!Byte(2) = X!Bytes(c)[2]
      /\ X!Byte(3) = X!Bytes(c)[3] /\ X!Byte(4) = X!Bytes(c)[4]
  BY <1>1
<1>3. CASE c \in [proto : {"nec"}, address : X!Words, command : X!Words]
  <2>1. X!Bytes(c) = <<c.address, X!Complement(c.address), c.command, X!Complement(c.command)>>
    BY <1>3 DEF X!Bytes
  <2>2. X!Scancode = [proto |-> "nec", address |-> c.address, command |-> c.command]
    BY <1>2, <2>1 DEF X!Scancode
  <2> QED BY <1>3, <2>2
<1>4. CASE /\ c \in [proto : {"necx"}, address : X!Words, not_address : X!Words, command : X!Words]
           /\ c.not_address # X!Complement(c.address)
  <2>1. X!Bytes(c) = <<c.address, c.not_address, c.command, X!Complement(c.command)>>
    BY <1>4 DEF X!Bytes
  <2>2. X!Scancode = [proto |-> "necx", address |-> c.address, not_address |-> c.not_address,
                      command |-> c.command]
    BY <1>2, <1>4, <2>1 DEF X!Scancode
  <2> QED BY <1>4, <2>2
<1>5. CASE /\ c \in [proto : {"nec32"}, address : X!Words, not_address : X!Words,
                     command : X!Words, not_command : X!Words]
           /\ c.not_command # X!Complement(c.command)
  <2>1. X!Bytes(c) = <<c.address, c.not_address, c.command, c.not_command>>
    BY <1>5 DEF X!Bytes
  <2>2. X!Scancode = [proto |-> "nec32", address |-> c.address, not_address |-> c.not_address,
                      command |-> c.command, not_command |-> c.not_command]
    BY <1>2, <1>5, <2>1 DEF X!Scancode
  <2> QED BY <1>5, <2>2
<1> QED BY <1>3, <1>4, <1>5, InfraredAssumption DEF X!NecCodes

-----------------------------------------------------------------------------
(* The runs of a frame.                                                    *)

\* A frame is a header, bits, and a last pulse with the silence behind it: pairs of a pulse
\* and a space, of which the last has this number.
Pairs(w, x) == IF w # X!Rpt THEN X!Bits + 1 ELSE IF x THEN 2 ELSE 1

\* The k-th bit, and how long a pulse or space of the i-th pair is.
BitOf(w, k) == IF w = X!Rpt THEN 0 ELSE X!Raw(w)[k]
Lasts(w, x, i, space) ==
  IF i = 0
  THEN IF space THEN IF w = X!Rpt /\ ~x THEN 16 ELSE 32
                ELSE IF x THEN 32 ELSE 64
  ELSE IF space /\ BitOf(w, i) = 1 THEN 12 ELSE 4

FrameOf(w, x) == IF w = X!Rpt THEN X!Repeat(x) ELSE X!Key(w, x)

LEMMA IrPairs ==
  ASSUME NEW w \in X!Reports, NEW x \in BOOLEAN
  PROVE  /\ Pairs(w, x) \in Nat \ {0}
         /\ w # X!Rpt => w \in Codes /\ Pairs(w, x) = X!Bits + 1 /\ X!Bits >= 4
         /\ \A k \in 1..X!Bits : BitOf(w, k) \in {0, 1}
<1>1. X!Bits \in Nat /\ X!Bits >= 4
  BY IrBits, InfraredAssumption
<1>2. w # X!Rpt => w \in Codes
  BY DEF X!Reports
<1>3. ASSUME w # X!Rpt, NEW k \in 1..X!Bits PROVE X!Raw(w)[k] \in {0, 1}
  <2>1. X!Raw(w) \in Seq(Binary) /\ Len(X!Raw(w)) = X!Bits
    BY <1>2, <1>3, IrRaw DEF Binary
  <2>2. X!Raw(w)[k] \in Binary
    BY <2>1, ElementOfSeq
  <2> QED BY <2>2 DEF Binary
<1> QED BY <1>1, <1>2, <1>3 DEF Pairs, BitOf

\* The runs of a key are such pairs (ir-nec-decoder.c:14-26, rc-core.h:255-285),
LEMMA IrKeyRuns ==
  ASSUME NEW w \in Codes, NEW x \in BOOLEAN
  PROVE  /\ X!Key(w, x) \in Seq(Nominal) /\ Len(X!Key(w, x)) = 2 * X!Bits + 3
         /\ X!Key(w, x)[1] = X!Header(x) /\ X!Key(w, x)[2] = X!Run(FALSE, 32)
         /\ \A i \in 1..X!Bits :
              /\ X!Key(w, x)[2 * i + 1] = X!Run(TRUE, 4)
              /\ X!Key(w, x)[2 * i + 2] = X!Run(FALSE, IF X!Raw(w)[i] = 1 THEN 12 ELSE 4)
         /\ X!Key(w, x)[2 * X!Bits + 3] = X!Run(TRUE, 4)
<1> DEFINE start == <<X!Header(x), X!Run(FALSE, 8 * X!Unit)>>
           bits == [i \in 1..2 * X!Bits |-> X!Bit(X!Raw(w)[(i + 1) \div 2])[2 - (i % 2)]]
           stop == <<X!Run(TRUE, X!Unit)>>
           all == (start \o bits) \o stop
<1>1. X!Bits \in Nat /\ X!Unit = 4
  BY IrBits DEF X!Unit
<1>2. /\ start \in Seq(Nominal) /\ Len(start) = 2 /\ start[1] = X!Header(x)
      /\ start[2] = X!Run(FALSE, 32)
      /\ stop \in Seq(Nominal) /\ Len(stop) = 1 /\ stop[1] = X!Run(TRUE, 4)
  BY <1>1 DEF X!Header, X!Run, X!Unit, Nominal
<1>3. \A b : /\ X!Bit(b)[1] = X!Run(TRUE, 4)
             /\ X!Bit(b)[2] = X!Run(FALSE, IF b = 1 THEN 12 ELSE 4)
             /\ X!Bit(b)[1] \in Nominal /\ X!Bit(b)[2] \in Nominal
  BY <1>1 DEF X!Bit, X!Run, Nominal
<1>4. ASSUME NEW i \in 1..X!Bits
      PROVE  /\ bits[2 * i - 1] = X!Run(TRUE, 4)
             /\ bits[2 * i] = X!Run(FALSE, IF X!Raw(w)[i] = 1 THEN 12 ELSE 4)
  <2>1. /\ 2 * i - 1 \in 1..2 * X!Bits /\ 2 * i \in 1..2 * X!Bits
        /\ (2 * i - 1 + 1) \div 2 = i /\ (2 * i + 1) \div 2 = i
        /\ 2 - ((2 * i - 1) % 2) = 1 /\ 2 - ((2 * i) % 2) = 2
    BY <1>1
  <2>2. /\ bits[2 * i - 1] = X!Bit(X!Raw(w)[(2 * i - 1 + 1) \div 2])[2 - ((2 * i - 1) % 2)]
        /\ bits[2 * i] = X!Bit(X!Raw(w)[(2 * i + 1) \div 2])[2 - ((2 * i) % 2)]
    BY <2>1
  <2>3. bits[2 * i - 1] = X!Bit(X!Raw(w)[i])[1] /\ bits[2 * i] = X!Bit(X!Raw(w)[i])[2]
    BY <2>1, <2>2
  <2> HIDE DEF bits
  <2> QED BY <1>3, <2>3
<1>5. bits \in Seq(Nominal) /\ Len(bits) = 2 * X!Bits
  <2>1. \A i \in 1..2 * X!Bits : 2 - (i % 2) \in {1, 2}
    BY <1>1
  <2>2. \A i \in 1..2 * X!Bits : bits[i] \in Nominal
    BY <1>3, <2>1
  <2>3. bits \in [1..2 * X!Bits -> Nominal] /\ 2 * X!Bits \in Nat
    BY <1>1, <2>2
  <2> HIDE DEF bits
  <2> QED BY <2>3
<1>6. X!Key(w, x) = all
  BY DEF X!Key
<1> HIDE DEF start, bits, stop
<1> DEFINE s == start \o bits
<1>7. /\ s \in Seq(Nominal) /\ Len(s) = Len(start) + Len(bits)
      /\ \A i \in 1..Len(start) : s[i] = start[i]
      /\ \A i \in 1..Len(bits) : s[i + Len(start)] = bits[i]
  <2>1. start \in Seq(Nominal) /\ bits \in Seq(Nominal)
    BY <1>2, <1>5
  <2> QED BY <2>1, Joined
<1> HIDE DEF s
<1>8. /\ s \o stop \in Seq(Nominal) /\ Len(s \o stop) = Len(s) + Len(stop)
      /\ \A i \in 1..Len(s) : (s \o stop)[i] = s[i]
      /\ \A i \in 1..Len(stop) : (s \o stop)[i + Len(s)] = stop[i]
  <2>1. s \in Seq(Nominal) /\ stop \in Seq(Nominal)
    BY <1>2, <1>7
  <2> QED BY <2>1, Joined
<1>9. all = s \o stop
  BY DEF s
<1> HIDE DEF all
<1>10. Len(s) = 2 * X!Bits + 2 /\ Len(all) = 2 * X!Bits + 3 /\ all \in Seq(Nominal)
  BY <1>1, <1>2, <1>5, <1>7, <1>8, <1>9
<1>11. \A i \in 1..2 * X!Bits + 2 : all[i] = s[i]
  BY <1>8, <1>9, <1>10
<1>12. all[1] = start[1] /\ all[2] = start[2]
  <2>1. /\ 1 \in 1..2 * X!Bits + 2 /\ 2 \in 1..2 * X!Bits + 2
        /\ 1 \in 1..Len(start) /\ 2 \in 1..Len(start)
    BY <1>1, <1>2
  <2> QED BY <1>2, <1>7, <1>11, <2>1
<1>13. ASSUME NEW i \in 1..X!Bits
       PROVE  all[2 * i + 1] = bits[2 * i - 1] /\ all[2 * i + 2] = bits[2 * i]
  <2>1. /\ 2 * i - 1 \in 1..2 * X!Bits /\ 2 * i \in 1..2 * X!Bits
        /\ 2 * i - 1 + 2 = 2 * i + 1
        /\ 2 * i + 1 \in 1..2 * X!Bits + 2 /\ 2 * i + 2 \in 1..2 * X!Bits + 2
    BY <1>1
  <2>2. s[2 * i - 1 + 2] = bits[2 * i - 1] /\ s[2 * i + 2] = bits[2 * i]
    BY <1>2, <1>5, <1>7, <2>1
  <2> QED BY <1>11, <2>1, <2>2
<1>14. all[2 * X!Bits + 3] = stop[1]
  <2>1. 1 + Len(s) = 2 * X!Bits + 3 /\ 1 \in 1..Len(stop)
    BY <1>1, <1>2, <1>10
  <2>2. all[1 + Len(s)] = stop[1]
    BY <1>8, <1>9, <2>1
  <2> QED BY <2>1, <2>2
<1> QED BY <1>2, <1>4, <1>6, <1>10, <1>12, <1>13, <1>14

\* and so are those of a repeat.
LEMMA IrFrameRuns ==
  ASSUME NEW w \in X!Reports, NEW x \in BOOLEAN
  PROVE  /\ FrameOf(w, x) \in Seq(Nominal) /\ Len(FrameOf(w, x)) = 2 * Pairs(w, x) + 1
         /\ \A i \in 0..Pairs(w, x) :
              FrameOf(w, x)[2 * i + 1] = X!Run(TRUE, Lasts(w, x, i, FALSE))
         /\ \A i \in 0..Pairs(w, x) - 1 :
              FrameOf(w, x)[2 * i + 2] = X!Run(FALSE, Lasts(w, x, i, TRUE))
<1> DEFINE s == FrameOf(w, x)
           n == Pairs(w, x)
<1>1. n \in Nat \ {0}
  BY IrPairs
<1>2. CASE w # X!Rpt
  <2>1. /\ w \in Codes /\ n = X!Bits + 1 /\ X!Bits \in Nat /\ X!Bits >= 4
        /\ s = X!Key(w, x) /\ X!Header(x) = X!Run(TRUE, IF x THEN 32 ELSE 64)
    BY <1>2, IrPairs, IrBits DEF FrameOf, X!Header, X!Unit
  <2> HIDE DEF s, n
  <2>2. /\ s \in Seq(Nominal) /\ Len(s) = 2 * X!Bits + 3
        /\ s[1] = X!Header(x) /\ s[2] = X!Run(FALSE, 32)
        /\ \A i \in 1..X!Bits :
             /\ s[2 * i + 1] = X!Run(TRUE, 4)
             /\ s[2 * i + 2] = X!Run(FALSE, IF X!Raw(w)[i] = 1 THEN 12 ELSE 4)
        /\ s[2 * X!Bits + 3] = X!Run(TRUE, 4)
    BY <2>1, IrKeyRuns
  <2>3. \A i \in 0..n : Lasts(w, x, i, FALSE) = IF i = 0 THEN IF x THEN 32 ELSE 64 ELSE 4
    BY DEF Lasts
  <2>4. \A i \in 0..n : Lasts(w, x, i, TRUE) =
                          IF i = 0 THEN 32 ELSE IF X!Raw(w)[i] = 1 THEN 12 ELSE 4
    BY <1>2 DEF Lasts, BitOf
  <2>5. ASSUME NEW i \in 0..n PROVE s[2 * i + 1] = X!Run(TRUE, Lasts(w, x, i, FALSE))
    <3>1. i = 0 \/ i \in 1..X!Bits \/ i = X!Bits + 1
      BY <2>1
    <3>2. i = 0 => 2 * i + 1 = 1
      OBVIOUS
    <3>3. i = X!Bits + 1 => 2 * i + 1 = 2 * X!Bits + 3 /\ i # 0
      BY <2>1
    <3>4. CASE i = 0
      BY <2>1, <2>2, <2>3, <3>2, <3>4
    <3>5. CASE i \in 1..X!Bits
      <4>1. s[2 * i + 1] = X!Run(TRUE, 4)
        BY <2>2, <3>5
      <4>2. i # 0
        BY <3>5
      <4> QED BY <2>3, <4>1, <4>2
    <3>6. CASE i = X!Bits + 1
      BY <2>1, <2>2, <2>3, <3>3, <3>6
    <3> QED BY <3>1, <3>4, <3>5, <3>6
  <2>6. ASSUME NEW i \in 0..n - 1 PROVE s[2 * i + 2] = X!Run(FALSE, Lasts(w, x, i, TRUE))
    <3>1. (i = 0 \/ i \in 1..X!Bits) /\ i \in 0..n
      BY <2>1
    <3>2. i = 0 => 2 * i + 2 = 2
      OBVIOUS
    <3>3. CASE i = 0
      BY <2>2, <2>4, <3>1, <3>2, <3>3
    <3>4. CASE i \in 1..X!Bits
      <4>1. s[2 * i + 2] = X!Run(FALSE, IF X!Raw(w)[i] = 1 THEN 12 ELSE 4)
        BY <2>2, <3>4
      <4>2. i # 0
        BY <3>4
      <4> QED BY <2>4, <3>1, <4>1, <4>2
    <3> QED BY <3>1, <3>3, <3>4
  <2>7. Len(s) = 2 * n + 1
    BY <2>1, <2>2
  <2> QED BY <2>2, <2>5, <2>6, <2>7 DEF s, n
<1>3. CASE w = X!Rpt /\ x
  <2> DEFINE a == <<X!Run(TRUE, 32), X!Run(FALSE, 32)>>
             b == <<X!Run(TRUE, 4), X!Run(FALSE, 4)>>
             e == <<X!Run(TRUE, 4)>>
  <2>1. n = 2 /\ s = (a \o b) \o e
    BY <1>3 DEF FrameOf, X!Repeat, Pairs, X!Header, X!Bit, X!Unit
  <2>2. /\ a \in Seq(Nominal) /\ Len(a) = 2 /\ a[1] = X!Run(TRUE, 32) /\ a[2] = X!Run(FALSE, 32)
        /\ b \in Seq(Nominal) /\ Len(b) = 2 /\ b[1] = X!Run(TRUE, 4) /\ b[2] = X!Run(FALSE, 4)
        /\ e \in Seq(Nominal) /\ Len(e) = 1 /\ e[1] = X!Run(TRUE, 4)
    BY DEF X!Run, Nominal
  <2> HIDE DEF a, b, e, s, n
  <2> DEFINE t == a \o b
  <2>3. s = t \o e
    BY <2>1
  <2>4. /\ t \in Seq(Nominal) /\ Len(t) = Len(a) + Len(b)
        /\ \A i \in 1..Len(a) + Len(b) : t[i] = IF i <= Len(a) THEN a[i] ELSE b[i - Len(a)]
    <3>1. a \in Seq(Nominal) /\ b \in Seq(Nominal)
      BY <2>2
    <3> QED BY <3>1, ConcatProperties
  <2> HIDE DEF t
  <2>5. /\ t \in Seq(Nominal) /\ Len(t) = 4
        /\ t[1] = a[1] /\ t[2] = a[2] /\ t[3] = b[1] /\ t[4] = b[2]
    <3>1. \A i \in 1..4 : t[i] = IF i <= 2 THEN a[i] ELSE b[i - 2]
      BY <2>2, <2>4
    <3>2. t[1] = a[1] /\ t[2] = a[2]
      BY <3>1
    <3>3. t[3] = b[1] /\ t[4] = b[2]
      <4>1. t[3] = b[3 - 2] /\ t[4] = b[4 - 2]
        BY <3>1
      <4> QED BY <4>1
    <3> QED BY <2>2, <2>4, <3>2, <3>3
  <2>6. /\ s \in Seq(Nominal) /\ Len(s) = Len(t) + Len(e)
        /\ \A i \in 1..Len(t) + Len(e) : s[i] = IF i <= Len(t) THEN t[i] ELSE e[i - Len(t)]
    <3>1. t \in Seq(Nominal) /\ e \in Seq(Nominal)
      BY <2>2, <2>5
    <3> QED BY <2>3, <3>1, ConcatProperties
  <2>7. /\ Len(s) = 5 /\ s[1] = t[1] /\ s[2] = t[2] /\ s[3] = t[3] /\ s[4] = t[4]
        /\ s[5] = e[1]
    <3>1. \A i \in 1..5 : s[i] = IF i <= 4 THEN t[i] ELSE e[i - 4]
      BY <2>2, <2>5, <2>6
    <3>2. s[1] = t[1] /\ s[2] = t[2] /\ s[3] = t[3] /\ s[4] = t[4]
      BY <3>1
    <3>3. s[5] = e[1]
      <4>1. s[5] = e[5 - 4]
        BY <3>1
      <4> QED BY <4>1
    <3> QED BY <2>2, <2>5, <2>6, <3>2, <3>3
  <2>8. /\ s \in Seq(Nominal) /\ Len(s) = 5
        /\ s[1] = X!Run(TRUE, 32) /\ s[2] = X!Run(FALSE, 32) /\ s[3] = X!Run(TRUE, 4)
        /\ s[4] = X!Run(FALSE, 4) /\ s[5] = X!Run(TRUE, 4)
    BY <2>2, <2>5, <2>6, <2>7
  <2>9. /\ \A i \in 0..2 : Lasts(w, x, i, FALSE) = IF i = 0 THEN 32 ELSE 4
        /\ \A i \in 0..1 : Lasts(w, x, i, TRUE) = IF i = 0 THEN 32 ELSE 4
    BY <1>3 DEF Lasts, BitOf
  <2>10. ASSUME NEW i \in 0..2 PROVE s[2 * i + 1] = X!Run(TRUE, Lasts(w, x, i, FALSE))
    <3>1. CASE i = 0
      <4>1. 2 * i + 1 = 1
        BY <3>1
      <4> QED BY <2>8, <2>9, <3>1, <4>1
    <3>2. CASE i = 1
      <4>1. 2 * i + 1 = 3
        BY <3>2
      <4> QED BY <2>8, <2>9, <3>2, <4>1
    <3>3. CASE i = 2
      <4>1. 2 * i + 1 = 5
        BY <3>3
      <4> QED BY <2>8, <2>9, <3>3, <4>1
    <3>4. i = 0 \/ i = 1 \/ i = 2
      OBVIOUS
    <3> QED BY <3>1, <3>2, <3>3, <3>4
  <2>11. ASSUME NEW i \in 0..1 PROVE s[2 * i + 2] = X!Run(FALSE, Lasts(w, x, i, TRUE))
    <3>1. CASE i = 0
      <4>1. 2 * i + 2 = 2
        BY <3>1
      <4> QED BY <2>8, <2>9, <3>1, <4>1
    <3>2. CASE i = 1
      <4>1. 2 * i + 2 = 4
        BY <3>2
      <4> QED BY <2>8, <2>9, <3>2, <4>1
    <3>3. i = 0 \/ i = 1
      OBVIOUS
    <3> QED BY <3>1, <3>2, <3>3
  <2>12. 0..n - 1 = 0..1 /\ 0..n = 0..2 /\ 2 * n + 1 = 5
    BY <2>1
  <2> QED BY <2>8, <2>10, <2>11, <2>12 DEF s, n
<1>4. CASE w = X!Rpt /\ ~x
  <2>1. n = 1 /\ s = <<X!Run(TRUE, 64), X!Run(FALSE, 16), X!Run(TRUE, 4)>>
    <3>1. X!Header(x) = X!Run(TRUE, 64)
      BY <1>4 DEF X!Header, X!Unit
    <3>2. X!Repeat(x) = <<X!Header(x), X!Run(FALSE, 16), X!Run(TRUE, 4)>>
      <4>1. 4 * X!Unit = 16 /\ X!Unit = 4
        BY DEF X!Unit
      <4>2. X!Repeat(x) = <<X!Header(x), X!Run(FALSE, 4 * X!Unit), X!Run(TRUE, X!Unit)>>
        BY <1>4 DEF X!Repeat
      <4> QED BY <4>1, <4>2
    <3> QED BY <1>4, <3>1, <3>2 DEF FrameOf, Pairs
  <2>2. /\ \A i \in 0..1 : Lasts(w, x, i, FALSE) = IF i = 0 THEN 64 ELSE 4
        /\ Lasts(w, x, 0, TRUE) = 16
    BY <1>4 DEF Lasts, BitOf
  <2>3. s \in Seq(Nominal) /\ Len(s) = 3
    BY <2>1 DEF X!Run, Nominal
  <2>4. s[1] = X!Run(TRUE, 64) /\ s[2] = X!Run(FALSE, 16) /\ s[3] = X!Run(TRUE, 4)
    BY <2>1
  <2> HIDE DEF s, n
  <2>5. ASSUME NEW i \in 0..1 PROVE s[2 * i + 1] = X!Run(TRUE, Lasts(w, x, i, FALSE))
    <3>1. CASE i = 0
      <4>1. 2 * i + 1 = 1
        BY <3>1
      <4> QED BY <2>2, <2>4, <3>1, <4>1
    <3>2. CASE i = 1
      <4>1. 2 * i + 1 = 3
        BY <3>2
      <4> QED BY <2>2, <2>4, <3>2, <4>1
    <3>3. i = 0 \/ i = 1
      OBVIOUS
    <3> QED BY <3>1, <3>2, <3>3
  <2>6. ASSUME NEW i \in {0} PROVE s[2 * i + 2] = X!Run(FALSE, Lasts(w, x, i, TRUE))
    <3>1. i = 0 /\ 2 * i + 2 = 2
      OBVIOUS
    <3> QED BY <2>2, <2>4, <3>1
  <2>7. 0..n - 1 = {0} /\ 0..n = 0..1 /\ 2 * n + 1 = 3
    BY <2>1
  <2> QED BY <2>3, <2>5, <2>6, <2>7 DEF s, n
<1> QED BY <1>2, <1>3, <1>4

-----------------------------------------------------------------------------
(* What each event stands for.                                             *)

\* An event is the pulse or the space of the i-th pair of a frame, d too long or too short;
\* the last of a frame is the silence behind it, or behind where it was cut off; no counts
\* the whole frames before it.
Labels == [what : X!Reports, x : BOOLEAN, d : -1..1, i : Nat, space : BOOLEAN,
           last : BOOLEAN, no : Nat]
PairsOf(l) == Pairs(l.what, l.x)
Labelled(l) ==
  /\ l \in Labels /\ l.i <= PairsOf(l)
  /\ l.space /\ l.i = PairsOf(l) => l.last
  /\ l.last => l.space /\ (l.i = PairsOf(l) \/ l.i # 2)
Whole(l) == l.last /\ l.i = PairsOf(l)
Weight(l) == IF Whole(l) THEN 1 ELSE 0

EventOf(l) ==
  IF l.last THEN X!Silence
  ELSE X!Run(~l.space, IF l.space THEN Lasts(l.what, l.x, l.i, TRUE) - l.d
                       ELSE Lasts(l.what, l.x, l.i, FALSE) + l.d)

\* The next event is of the same frame or begins another one; a repeat of the extended
\* variant follows its own frames.
Follows(l, m) ==
  IF l.last
  THEN /\ m.i = 0 /\ ~m.space /\ m.no = l.no + Weight(l)
       /\ m.what = X!Rpt /\ m.x => Whole(l) /\ l.x
  ELSE /\ m.what = l.what /\ m.x = l.x /\ m.d = l.d /\ m.no = l.no
       /\ m.space = ~l.space
       /\ m.i = IF l.space THEN l.i + 1 ELSE l.i

\* Where the decoder n is before that event.
DecoderAt(n, l) ==
  /\ l.i = 0 /\ ~l.space => n.state = "inactive"
  /\ l.i = 0 /\ l.space => n.state = "header_space"
  /\ l.i > 0 /\ (l.i <= X!Bits /\ (l.what = X!Rpt => l.x)) =>
       /\ n.state = IF l.space THEN "bit_space" ELSE "bit_pulse"
       /\ Len(n.bits) = l.i - 1 /\ \A k \in 1..l.i - 1 : n.bits[k] = BitOf(l.what, k)
  /\ l.i > 0 /\ ~(l.i <= X!Bits /\ (l.what = X!Rpt => l.x)) =>
       /\ n.state = IF l.space THEN "trailer_space" ELSE "trailer_pulse"
       /\ IF l.what = X!Rpt THEN n.bits = <<>>
          ELSE Len(n.bits) = X!Bits /\ \A k \in 1..X!Bits : n.bits[k] = BitOf(l.what, k)
  /\ l.x /\ ~(l.i = 0 /\ ~l.space) => n.is_nec_x
  /\ l.x /\ l.what = X!Rpt => n.necx_repeat

\* A pulse or a space is as long as it is meant to be, and a silence longer than all of them.
LEMMA IrEventOf ==
  ASSUME NEW l, Labelled(l)
  PROVE  /\ l.what \in X!Reports /\ l.x \in BOOLEAN /\ l.d \in -1..1 /\ l.i \in Nat
         /\ l.space \in BOOLEAN /\ l.last \in BOOLEAN /\ l.no \in Nat
         /\ Weight(l) \in {0, 1} /\ PairsOf(l) \in Nat \ {0}
         /\ EventOf(l) \in X!Event /\ EventOf(l).pulse = ~l.space /\ EventOf(l).duration > 0
         /\ l.space => EventOf(l).duration < RawTimeout
<1>1. /\ l.what \in X!Reports /\ l.x \in BOOLEAN /\ l.d \in -1..1 /\ l.i \in Nat
      /\ l.space \in BOOLEAN /\ l.last \in BOOLEAN /\ l.no \in Nat /\ (l.last => l.space)
  BY DEF Labelled, Labels
<1>2. Weight(l) \in {0, 1} /\ PairsOf(l) \in Nat \ {0}
  BY <1>1, IrPairs DEF Weight, PairsOf
<1>3. HwTimeout \in Nat /\ HwTimeout >= 40 /\ HwTimeout < RawTimeout /\ RawTimeout \in Nat
  BY InfraredAssumption DEF X!Unit
<1>4. Lasts(l.what, l.x, l.i, TRUE) \in {4, 12, 16, 32}
      /\ Lasts(l.what, l.x, l.i, FALSE) \in {4, 32, 64}
  BY DEF Lasts
<1>5. PICK n \in Nat : /\ EventOf(l) = X!Run(~l.space, n) /\ n > 0
                       /\ (l.space => n < RawTimeout)
  <2>1. CASE l.last
    <3>1. EventOf(l) = X!Run(~l.space, HwTimeout)
      BY <1>1, <2>1 DEF EventOf, X!Silence
    <3> QED BY <1>3, <3>1
  <2>2. CASE ~l.last /\ l.space
    <3> DEFINE n == Lasts(l.what, l.x, l.i, TRUE) - l.d
    <3>1. EventOf(l) = X!Run(~l.space, n)
      BY <2>2 DEF EventOf
    <3>2. PICK a \in {4, 12, 16, 32} : Lasts(l.what, l.x, l.i, TRUE) = a
      BY <1>4
    <3>3. n = a - l.d /\ l.d \in -1..1
      BY <1>1, <3>2
    <3> HIDE DEF n
    <3>4. n \in Nat /\ n > 0 /\ n < 40
      BY <3>2, <3>3
    <3> QED BY <1>3, <3>1, <3>4
  <2>3. CASE ~l.last /\ ~l.space
    <3> DEFINE n == Lasts(l.what, l.x, l.i, FALSE) + l.d
    <3>1. EventOf(l) = X!Run(~l.space, n)
      BY <2>3 DEF EventOf
    <3>2. PICK a \in {4, 32, 64} : Lasts(l.what, l.x, l.i, FALSE) = a
      BY <1>4
    <3>3. n = a + l.d /\ l.d \in -1..1
      BY <1>1, <3>2
    <3> HIDE DEF n
    <3>4. n \in Nat /\ n > 0
      BY <3>2, <3>3
    <3> QED BY <2>3, <3>1, <3>4
  <2> QED BY <1>1, <2>1, <2>2, <2>3
<1>6. (~l.space) \in BOOLEAN
  OBVIOUS
<1>7. /\ EventOf(l) \in X!Event /\ EventOf(l).pulse = ~l.space /\ EventOf(l).duration = n
  BY <1>5, <1>6 DEF X!Run, X!Event
<1> QED BY <1>1, <1>2, <1>5, <1>7

\* A pulse is decoded (ir-nec-decoder.c:58-72, 85-92, 128-135).
LEMMA IrPulse ==
  ASSUME Decoding(nec), NEW l, Labelled(l), DecoderAt(nec, l), ~l.space,
         NEW m, Labelled(m), Follows(l, m)
  PROVE  X!Reported(EventOf(l)) = NULL /\ DecoderAt(X!Decoded(EventOf(l)), m)
<1> DEFINE e == EventOf(l)
           v == Lasts(l.what, l.x, l.i, FALSE)
           t == X!Decoded(e)
<1>1. /\ l.what \in X!Reports /\ l.x \in BOOLEAN /\ l.d \in -1..1 /\ l.i \in Nat /\ ~l.last
      /\ m.what = l.what /\ m.x = l.x /\ m.space /\ m.i = l.i
  BY IrEventOf DEF Follows, Labelled
<1>2. e.pulse /\ e.duration = v + l.d
  BY <1>1 DEF EventOf, X!Run
<1>3. v = IF l.i = 0 THEN IF l.x THEN 32 ELSE 64 ELSE 4
  BY DEF Lasts
<1>4. nec \in Decoders /\ Len(nec.bits) \in Nat
  BY DEF Decoding, Decoders
<1> HIDE DEF e, v
<1>5. CASE l.i = 0
  <2>1. nec.state = "inactive"
    BY <1>5 DEF DecoderAt
  <2>2. X!Reported(e) = NULL
    BY <2>1 DEF X!Reported
  <2>3. t = IF l.x THEN [X!To("header_space") EXCEPT !.is_nec_x = TRUE]
            ELSE [X!To("header_space") EXCEPT !.is_nec_x = FALSE, !.necx_repeat = FALSE]
    <3>1. X!Near(e.duration, 16 * X!Unit, 2 * X!Unit) <=> ~l.x
      BY <1>1, <1>2, <1>3, <1>5 DEF X!Near, X!Unit
    <3>2. l.x => X!Near(e.duration, 8 * X!Unit, X!Unit \div 2)
      BY <1>1, <1>2, <1>3, <1>5 DEF X!Near, X!Unit
    <3> QED BY <1>2, <2>1, <3>1, <3>2 DEF X!Decoded
  <2>4. t.state = "header_space" /\ (l.x => t.is_nec_x /\ t.necx_repeat = nec.necx_repeat)
    BY <1>1, <1>4, <2>3 DEF X!To, Decoders
  <2>5. l.x /\ l.what = X!Rpt => nec.necx_repeat
    BY DEF DecoderAt
  <2> HIDE DEF t
  <2>6. DecoderAt(t, m)
    BY <1>1, <1>5, <2>4, <2>5 DEF DecoderAt
  <2> QED BY <2>2, <2>6 DEF e, t
<1>6. CASE l.i > 0
  <2>1. X!IsBitPulse(e)
    BY <1>1, <1>2, <1>3, <1>6 DEF X!IsBitPulse, X!Near, X!Unit
  <2>2. (l.x => nec.is_nec_x) /\ (l.x /\ l.what = X!Rpt => nec.necx_repeat)
    BY <1>6 DEF DecoderAt
  <2>3. CASE l.i <= X!Bits /\ (l.what = X!Rpt => l.x)
    <3>1. /\ nec.state = "bit_pulse" /\ Len(nec.bits) = l.i - 1
          /\ \A k \in 1..l.i - 1 : nec.bits[k] = BitOf(l.what, k)
      BY <1>6, <2>3 DEF DecoderAt
    <3>2. X!Reported(e) = NULL /\ t = X!To("bit_space")
      BY <2>1, <3>1 DEF X!Reported, X!Decoded
    <3>3. /\ t.state = "bit_space" /\ t.bits = nec.bits /\ t.is_nec_x = nec.is_nec_x
          /\ t.necx_repeat = nec.necx_repeat
      BY <1>4, <3>2 DEF X!To, Decoders
    <3> HIDE DEF t
    <3>4. DecoderAt(t, m)
      BY <1>1, <1>6, <2>2, <2>3, <3>1, <3>3 DEF DecoderAt
    <3> QED BY <3>2, <3>4 DEF e, t
  <2>4. CASE ~(l.i <= X!Bits /\ (l.what = X!Rpt => l.x))
    <3>1. /\ nec.state = "trailer_pulse"
          /\ IF l.what = X!Rpt THEN nec.bits = <<>>
             ELSE Len(nec.bits) = X!Bits /\ \A k \in 1..X!Bits : nec.bits[k] = BitOf(l.what, k)
      BY <1>6, <2>4 DEF DecoderAt
    <3>2. X!Reported(e) = NULL /\ t = X!To("trailer_space")
      BY <2>1, <3>1 DEF X!Reported, X!Decoded
    <3>3. /\ t.state = "trailer_space" /\ t.bits = nec.bits /\ t.is_nec_x = nec.is_nec_x
          /\ t.necx_repeat = nec.necx_repeat
      BY <1>4, <3>2 DEF X!To, Decoders
    <3> HIDE DEF t
    <3>4. DecoderAt(t, m)
      BY <1>1, <1>6, <2>2, <2>4, <3>1, <3>3 DEF DecoderAt
    <3> QED BY <3>2, <3>4 DEF e, t
  <2> QED BY <2>3, <2>4
<1> QED BY <1>1, <1>5, <1>6

\* A space between two pulses (ir-nec-decoder.c:74-83, 94-126).
LEMMA IrSpace ==
  ASSUME Decoding(nec), NEW l, Labelled(l), DecoderAt(nec, l), l.space, ~l.last,
         NEW m, Labelled(m), Follows(l, m)
  PROVE  X!Reported(EventOf(l)) = NULL /\ DecoderAt(X!Decoded(EventOf(l)), m)
<1> DEFINE e == EventOf(l)
           v == Lasts(l.what, l.x, l.i, TRUE)
           t == X!Decoded(e)
<1>1. /\ l.what \in X!Reports /\ l.x \in BOOLEAN /\ l.d \in -1..1 /\ l.i \in Nat
      /\ m.what = l.what /\ m.x = l.x /\ ~m.space /\ m.i = l.i + 1
  BY IrEventOf DEF Follows
<1>2. ~e.pulse /\ e.duration = v - l.d
  BY <1>1 DEF EventOf, X!Run
<1>3. /\ nec \in Decoders /\ Len(nec.bits) \in Nat
      /\ (nec.state = "header_space" => nec.bits = <<>>)
  BY DEF Decoding, Decoders
<1>4. /\ PairsOf(l) = (IF l.what # X!Rpt THEN X!Bits + 1 ELSE IF l.x THEN 2 ELSE 1)
      /\ X!Bits \in Nat /\ X!Bits >= 4 /\ l.i < PairsOf(l)
  <2>1. X!Bits \in Nat /\ X!Bits >= 4
    BY IrBits, InfraredAssumption
  <2>2. PairsOf(l) = (IF l.what # X!Rpt THEN X!Bits + 1 ELSE IF l.x THEN 2 ELSE 1)
    BY DEF PairsOf, Pairs
  <2>3. l.i <= PairsOf(l) /\ l.i # PairsOf(l)
    BY DEF Labelled
  <2> QED BY <1>1, <2>1, <2>2, <2>3
<1>5. (l.x => nec.is_nec_x) /\ (l.x /\ l.what = X!Rpt => nec.necx_repeat)
  BY <1>1 DEF DecoderAt
<1>6. CASE l.i = 0
  <2>1. nec.state = "header_space" /\ nec.bits = <<>>
    BY <1>3, <1>6 DEF DecoderAt
  <2>2. X!Reported(e) = NULL
    BY <2>1 DEF X!Reported
  <2>3. v = IF l.what = X!Rpt /\ ~l.x THEN 16 ELSE 32
    BY <1>6 DEF Lasts
  <2> HIDE DEF e, v
  <2>4. t = IF l.what = X!Rpt /\ ~l.x THEN X!To("trailer_pulse") ELSE X!To("bit_pulse")
    <3>1. X!Near(e.duration, 8 * X!Unit, X!Unit) <=> ~(l.what = X!Rpt /\ ~l.x)
      BY <1>1, <1>2, <2>3 DEF X!Near, X!Unit
    <3>2. l.what = X!Rpt /\ ~l.x => X!Near(e.duration, 4 * X!Unit, X!Unit \div 2)
      BY <1>1, <1>2, <2>3 DEF X!Near, X!Unit
    <3> QED BY <1>2, <2>1, <3>1, <3>2 DEF X!Decoded
  <2>5. /\ t.state = (IF l.what = X!Rpt /\ ~l.x THEN "trailer_pulse" ELSE "bit_pulse")
        /\ t.bits = <<>> /\ t.is_nec_x = nec.is_nec_x /\ t.necx_repeat = nec.necx_repeat
    BY <1>3, <2>1, <2>4 DEF X!To, Decoders
  <2>6. Len(t.bits) = 0
    BY <2>5
  <2> HIDE DEF t
  <2>7. m.i = 1 /\ m.i <= X!Bits
    BY <1>1, <1>4, <1>6
  <2>8. DecoderAt(t, m)
    BY <1>1, <1>5, <2>5, <2>6, <2>7 DEF DecoderAt
  <2> QED BY <2>2, <2>8 DEF e, t
<1>7. CASE l.i > 0
  <2> DEFINE b == BitOf(l.what, l.i)
  <2>1. l.i <= X!Bits /\ (l.what = X!Rpt => l.x)
    BY <1>1, <1>4, <1>7
  <2>2. /\ nec.state = "bit_space" /\ Len(nec.bits) = l.i - 1
        /\ \A k \in 1..l.i - 1 : nec.bits[k] = BitOf(l.what, k)
    BY <1>7, <2>1 DEF DecoderAt
  <2>3. b \in {0, 1} /\ v = IF b = 1 THEN 12 ELSE 4
    <3>1. l.i \in 1..X!Bits
      BY <1>1, <1>4, <1>7, <2>1
    <3>2. b \in {0, 1}
      BY <1>1, <3>1, IrPairs
    <3> QED BY <1>7, <3>2 DEF Lasts
  <2> HIDE DEF b, e, v
  <2>4. /\ X!Near(e.duration, 3 * X!Unit, X!Unit \div 2) <=> b = 1
        /\ b = 0 => X!Near(e.duration, X!Unit, X!Unit \div 2)
        /\ ~X!IsTrailer(e)
    <3>1. e.duration = (IF b = 1 THEN 12 ELSE 4) - l.d /\ l.d \in -1..1
      BY <1>1, <1>2, <2>3
    <3> QED BY <2>3, <3>1 DEF X!Near, X!Unit, X!IsTrailer, X!AtLeast
  <2>5. X!Reported(e) = NULL
    BY <2>2, <2>4 DEF X!Reported
  <2> DEFINE bs == Append(nec.bits, b)
             s == IF Len(nec.bits) + 1 = X!Bits THEN "trailer_pulse" ELSE "bit_pulse"
             r == nec.necx_repeat /\ Len(nec.bits) <= 1
             n == [nec EXCEPT !.necx_repeat = @ /\ Len(nec.bits) <= 1]
  <2>6. t = [n EXCEPT !.bits = Append(@, b), !.state = s]
    BY <1>2, <2>2, <2>3, <2>4 DEF X!Decoded
  <2>7. t.bits = bs /\ t.state = s /\ t.is_nec_x = nec.is_nec_x /\ t.necx_repeat = r
    <3>1. /\ n.bits = nec.bits /\ n.state = nec.state /\ n.is_nec_x = nec.is_nec_x
          /\ n.necx_repeat = r /\ n \in [state : X!States, bits : Seq({0, 1}), is_nec_x : BOOLEAN,
                                        necx_repeat : BOOLEAN]
      BY <1>3 DEF Decoders
    <3> HIDE DEF n, s, r
    <3> QED BY <2>6, <3>1
  <2>8. /\ Len(bs) = l.i /\ bs[l.i] = b
        /\ \A k \in 1..l.i - 1 : bs[k] = BitOf(l.what, k)
    <3>1. nec.bits \in Seq({0, 1})
      BY <1>3 DEF Decoders
    <3>2. /\ Len(bs) = Len(nec.bits) + 1 /\ bs[Len(nec.bits) + 1] = b
          /\ \A k \in 1..Len(nec.bits) : bs[k] = nec.bits[k]
      BY <3>1, AppendProperties
    <3> QED BY <1>1, <2>2, <3>2
  <2>9. \A k \in 1..l.i : bs[k] = BitOf(l.what, k)
    BY <1>1, <2>8 DEF b
  <2> HIDE DEF t, bs, s
  <2>10. DecoderAt(t, m)
    <3>1. (l.x => t.is_nec_x) /\ (l.x /\ l.what = X!Rpt => t.necx_repeat)
      <4>1. l.what = X!Rpt => l.i = 1
        BY <1>1, <1>4, <1>7, <2>1
      <4>2. l.what = X!Rpt => Len(nec.bits) <= 1
        BY <1>1, <2>2, <4>1
      <4> QED BY <1>5, <2>7, <4>2
    <3>2. CASE l.i = X!Bits
      <4>1. l.what # X!Rpt
        BY <1>1, <1>4, <3>2
      <4>2. m.i > 0 /\ ~(m.i <= X!Bits) /\ m.what # X!Rpt
        BY <1>1, <1>4, <3>2, <4>1
      <4>3. t.state = "trailer_pulse" /\ Len(t.bits) = X!Bits
            /\ \A k \in 1..X!Bits : t.bits[k] = BitOf(m.what, k)
        BY <1>1, <1>4, <2>2, <2>7, <2>8, <2>9, <3>2 DEF s
      <4> QED BY <1>1, <3>1, <4>2, <4>3 DEF DecoderAt
    <3>3. CASE l.i # X!Bits
      <4>1. m.i > 0 /\ m.i <= X!Bits /\ (m.what = X!Rpt => m.x) /\ m.i - 1 = l.i
        BY <1>1, <1>4, <2>1, <3>3
      <4>2. t.state = "bit_pulse" /\ Len(t.bits) = m.i - 1
            /\ \A k \in 1..m.i - 1 : t.bits[k] = BitOf(m.what, k)
        BY <1>1, <1>4, <2>2, <2>7, <2>8, <2>9, <3>3, <4>1 DEF s
      <4> QED BY <1>1, <3>1, <4>1, <4>2 DEF DecoderAt
    <3> QED BY <3>2, <3>3
  <2> QED BY <2>5, <2>10 DEF e, t
<1> QED BY <1>1, <1>6, <1>7

\* A silence ends the frame: it is reported if it is whole, and not otherwise
\* (ir-nec-decoder.c:74-126, 137-171).
LEMMA IrSilence ==
  ASSUME Decoding(nec), NEW l, Labelled(l), DecoderAt(nec, l), l.last
  PROVE  /\ X!Reported(EventOf(l)) = IF Whole(l) THEN l.what ELSE NULL
         /\ X!Decoded(EventOf(l)).state = "inactive"
         /\ Whole(l) /\ l.x => X!Decoded(EventOf(l)).necx_repeat
<1> DEFINE e == EventOf(l)
           t == X!Decoded(e)
<1>1. /\ l.what \in X!Reports /\ l.x \in BOOLEAN /\ l.i \in Nat /\ l.space
      /\ (l.i = PairsOf(l) \/ l.i # 2) /\ (Whole(l) <=> l.i = PairsOf(l)) /\ l.i <= PairsOf(l)
  BY IrEventOf DEF Labelled, Whole
<1>2. ~e.pulse /\ e.duration = HwTimeout /\ HwTimeout \in Nat /\ HwTimeout >= 40
  BY InfraredAssumption DEF EventOf, X!Silence, X!Run, X!Unit
<1> HIDE DEF e
<1>3. /\ ~X!Near(e.duration, 8 * X!Unit, X!Unit)
      /\ ~X!Near(e.duration, 4 * X!Unit, X!Unit \div 2)
      /\ ~X!Near(e.duration, 3 * X!Unit, X!Unit \div 2)
      /\ ~X!Near(e.duration, X!Unit, X!Unit \div 2)
      /\ X!IsTrailer(e)
  BY <1>2 DEF X!Near, X!AtLeast, X!IsTrailer, X!Unit
<1>4. /\ nec \in Decoders /\ nec.bits \in Seq({0, 1}) /\ Len(nec.bits) \in Nat
      /\ nec.necx_repeat \in BOOLEAN /\ nec.is_nec_x \in BOOLEAN
  BY DEF Decoding, Decoders
<1>5. /\ PairsOf(l) = (IF l.what # X!Rpt THEN X!Bits + 1 ELSE IF l.x THEN 2 ELSE 1)
      /\ X!Bits \in Nat /\ X!Bits >= 4
  <2>1. X!Bits \in Nat /\ X!Bits >= 4
    BY IrBits, InfraredAssumption
  <2> QED BY <2>1 DEF PairsOf, Pairs
<1>6. (l.x => nec.is_nec_x) /\ (l.x /\ l.what = X!Rpt => nec.necx_repeat)
  BY <1>1 DEF DecoderAt
<1>7. /\ X!Inactive.state = "inactive"
      /\ \A b \in BOOLEAN : /\ [X!Inactive EXCEPT !.necx_repeat = b].state = "inactive"
                            /\ [X!Inactive EXCEPT !.necx_repeat = b].necx_repeat = b
  BY <1>4 DEF X!Inactive, Decoders
<1>8. CASE l.i = 0
  <2>1. nec.state = "header_space" /\ ~Whole(l)
    BY <1>1, <1>5, <1>8 DEF DecoderAt
  <2>2. X!Reported(e) = NULL
    BY <2>1 DEF X!Reported
  <2>3. t = X!Inactive
    BY <1>3, <2>1 DEF X!Decoded
  <2> QED BY <1>7, <2>1, <2>2, <2>3 DEF e
<1>9. CASE l.i > 0 /\ l.i <= X!Bits /\ (l.what = X!Rpt => l.x)
  <2>1. nec.state = "bit_space" /\ Len(nec.bits) = l.i - 1
    BY <1>1, <1>9 DEF DecoderAt
  <2>2. Whole(l) <=> (l.what = X!Rpt /\ l.i = 2)
    BY <1>1, <1>5, <1>9
  <2>3. Len(nec.bits) = 1 <=> l.i = 2
    BY <1>1, <2>1
  <2>4. X!Reported(e) = IF nec.necx_repeat /\ Len(nec.bits) = 1 THEN X!Rpt ELSE NULL
    BY <1>3, <2>1 DEF X!Reported
  <2>5. X!Reported(e) = IF Whole(l) THEN l.what ELSE NULL
    BY <1>1, <1>6, <1>9, <2>2, <2>3, <2>4
  <2> DEFINE r == nec.necx_repeat /\ Len(nec.bits) <= 1
             n == [nec EXCEPT !.necx_repeat = @ /\ Len(nec.bits) <= 1]
  <2>6. t = [X!Inactive EXCEPT !.necx_repeat = n.necx_repeat]
    BY <1>2, <1>3, <2>1 DEF X!Decoded
  <2>7. n.necx_repeat = r
    BY <1>4 DEF Decoders
  <2>8. r \in BOOLEAN
    OBVIOUS
  <2>9. Whole(l) /\ l.x => r
    <3>1. Whole(l) => Len(nec.bits) <= 1
      <4>1. Len(nec.bits) = 1 => Len(nec.bits) <= 1
        OBVIOUS
      <4>2. Whole(l) => Len(nec.bits) = 1
        BY <2>2, <2>3, Zenon
      <4> QED BY <4>1, <4>2, Zenon
    <3>2. Whole(l) /\ l.x => nec.necx_repeat
      BY <1>6, <2>2
    <3> QED BY <3>1, <3>2
  <2> HIDE DEF n, r, t
  <2>10. t.state = "inactive" /\ t.necx_repeat = r
    BY <1>7, <2>6, <2>7, <2>8
  <2> QED BY <2>5, <2>9, <2>10 DEF e, t
<1>10. CASE l.i > 0 /\ ~(l.i <= X!Bits /\ (l.what = X!Rpt => l.x))
  <2>1. /\ nec.state = "trailer_space"
        /\ IF l.what = X!Rpt THEN nec.bits = <<>>
           ELSE Len(nec.bits) = X!Bits /\ \A k \in 1..X!Bits : nec.bits[k] = BitOf(l.what, k)
    BY <1>1, <1>10 DEF DecoderAt
  <2>2. Whole(l) /\ (l.x => l.what # X!Rpt)
    BY <1>1, <1>5, <1>10
  <2>3. X!Reported(e) = IF Len(nec.bits) = X!Bits THEN X!Scancode ELSE X!Rpt
    BY <1>3, <2>1 DEF X!Reported
  <2>4. X!Reported(e) = l.what
    <3>1. CASE l.what = X!Rpt
      <4>1. Len(nec.bits) = 0
        BY <2>1, <3>1
      <4> QED BY <1>5, <2>3, <3>1, <4>1
    <3>2. CASE l.what # X!Rpt
      <4>1. l.what \in Codes
        BY <1>1, <3>2 DEF X!Reports
      <4>2. X!Raw(l.what) \in Seq(Binary) /\ Len(X!Raw(l.what)) = X!Bits
        BY <4>1, IrRaw DEF Binary
      <4>3. nec.bits \in Seq(Binary)
        BY <1>4 DEF Binary
      <4>4. Len(nec.bits) = Len(X!Raw(l.what))
        BY <2>1, <3>2, <4>2
      <4>5. \A k \in 1..Len(nec.bits) : nec.bits[k] = X!Raw(l.what)[k]
        BY <2>1, <3>2 DEF BitOf
      <4>6. nec.bits = X!Raw(l.what)
        BY <4>2, <4>3, <4>4, <4>5, SeqEqual
      <4>7. X!Scancode = l.what
        BY <4>1, <4>6, IrScancode
      <4> QED BY <2>1, <2>3, <3>2, <4>7
    <3> QED BY <3>1, <3>2
  <2> DEFINE r == X!Inactive.necx_repeat \/ (X!IsTrailer(e) /\ Len(nec.bits) = X!Bits /\ nec.is_nec_x)
  <2>5. t = [X!Inactive EXCEPT !.necx_repeat = r]
    BY <2>1 DEF X!Decoded
  <2>6. Whole(l) /\ l.x => r
    BY <1>3, <1>6, <2>1, <2>2
  <2>7. r \in BOOLEAN
    OBVIOUS
  <2> HIDE DEF r, t
  <2>8. t.state = "inactive" /\ t.necx_repeat = r
    BY <1>7, <2>5, <2>7
  <2> QED BY <2>2, <2>4, <2>6, <2>8 DEF e, t
<1> QED BY <1>1, <1>8, <1>9, <1>10

\* So each event before another one is decoded for what it stands for.
LEMMA IrEvent ==
  ASSUME Decoding(nec), NEW l, Labelled(l), DecoderAt(nec, l),
         NEW m, Labelled(m), Follows(l, m)
  PROVE  /\ DecoderAt(X!Decoded(EventOf(l)), m)
         /\ X!Reported(EventOf(l)) = IF Whole(l) THEN l.what ELSE NULL
<1> DEFINE t == X!Decoded(EventOf(l))
<1>1. CASE l.last
  <2>1. m.i = 0 /\ ~m.space /\ (m.what = X!Rpt /\ m.x => Whole(l) /\ l.x)
    BY <1>1 DEF Follows
  <2>2. t.state = "inactive" /\ (Whole(l) /\ l.x => t.necx_repeat)
    BY <1>1, IrSilence
  <2>3. X!Reported(EventOf(l)) = IF Whole(l) THEN l.what ELSE NULL
    BY <1>1, IrSilence
  <2> HIDE DEF t
  <2>4. DecoderAt(t, m)
    BY <2>1, <2>2 DEF DecoderAt
  <2> QED BY <2>3, <2>4 DEF t
<1>2. CASE ~l.last
  <2>1. ~Whole(l)
    BY <1>2 DEF Whole
  <2>2. DecoderAt(t, m) /\ X!Reported(EventOf(l)) = NULL
    BY <1>2, IrPulse, IrSpace
  <2> QED BY <2>1, <2>2
<1> QED BY <1>1, <1>2

-----------------------------------------------------------------------------
(* What is on its way, event by event.                                     *)

\* The labels W of the events Y, of which the whole frames are reported as O: base of them
\* have been reported before.
Marked(base, W, Y, O) ==
  /\ base \in Nat /\ W \in Seq(Labels) /\ Len(W) = Len(Y)
  /\ \A j \in 1..Len(W) : Labelled(W[j]) /\ Y[j] = EventOf(W[j])
  /\ \A j, k \in 1..Len(W) : k = j + 1 => Follows(W[j], W[k])
  /\ \A j, k \in 1..Len(W) : j < k => W[j].no + Weight(W[j]) <= W[k].no
  /\ \A j \in 1..Len(W) : base <= W[j].no /\ W[j].no + Weight(W[j]) <= base + Len(O)
  /\ \A j \in 1..Len(W), n \in 1..Len(O) :
       Whole(W[j]) /\ base + n = W[j].no + 1 => O[n] = W[j].what
  /\ W = <<>> => O = <<>>
  /\ W # <<>> => /\ W[1].no = base /\ W[Len(W)].last
                 /\ W[Len(W)].no + Weight(W[Len(W)]) = base + Len(O)

\* The first event is decoded, and reported if it ends a whole frame.
LEMMA IrDropped ==
  ASSUME NEW base, NEW W, NEW Y \in Seq(X!Event), NEW O \in Seq(X!Reports),
         Marked(base, W, Y, O), Y # <<>>
  PROVE  /\ Whole(W[1]) => /\ O # <<>> /\ Head(O) = W[1].what
                           /\ Marked(base + 1, Tail(W), Tail(Y), Tail(O))
         /\ ~Whole(W[1]) => Marked(base, Tail(W), Tail(Y), O)
<1> DEFINE w == Weight(W[1])
           b == base + w
           V == Tail(W)
           Z == Tail(Y)
           P == IF w = 1 THEN Tail(O) ELSE O
<1>1. /\ base \in Nat /\ W \in Seq(Labels) /\ Len(W) = Len(Y) /\ Len(W) \in Nat \ {0}
      /\ W # <<>> /\ Len(O) \in Nat
  BY DEF Marked
<1>2. /\ V \in Seq(Labels) /\ Len(V) = Len(W) - 1 /\ Z \in Seq(X!Event) /\ Len(Z) = Len(W) - 1
      /\ \A j \in 1..Len(W) - 1 : V[j] = W[j + 1] /\ Z[j] = Y[j + 1]
  BY <1>1, HeadTailProperties
<1>3. /\ \A j \in 1..Len(W) : Labelled(W[j]) /\ Y[j] = EventOf(W[j])
      /\ \A j, k \in 1..Len(W) : k = j + 1 => Follows(W[j], W[k])
      /\ \A j, k \in 1..Len(W) : j < k => W[j].no + Weight(W[j]) <= W[k].no
      /\ \A j \in 1..Len(W) : base <= W[j].no /\ W[j].no + Weight(W[j]) <= base + Len(O)
      /\ \A j \in 1..Len(W), n \in 1..Len(O) :
           Whole(W[j]) /\ base + n = W[j].no + 1 => O[n] = W[j].what
      /\ W[1].no = base /\ W[Len(W)].last
      /\ W[Len(W)].no + Weight(W[Len(W)]) = base + Len(O)
  BY <1>1 DEF Marked
<1>4. /\ w \in {0, 1} /\ (Whole(W[1]) <=> w = 1) /\ 1 \in 1..Len(W)
      /\ \A j \in 1..Len(W) : Weight(W[j]) \in {0, 1} /\ W[j].no \in Nat
  <2>1. \A j \in 1..Len(W) : Weight(W[j]) \in {0, 1} /\ W[j].no \in Nat
    BY <1>3, IrEventOf
  <2>2. 1 \in 1..Len(W)
    BY <1>1
  <2> QED BY <2>1, <2>2 DEF Weight
<1>5. w = 1 => O # <<>> /\ Head(O) = W[1].what
  <2> SUFFICES ASSUME w = 1 PROVE O # <<>> /\ Head(O) = W[1].what
    OBVIOUS
  <2>1. base + 1 <= base + Len(O)
    BY <1>3, <1>4
  <2>2. 1 \in 1..Len(O)
    BY <1>1, <2>1
  <2>3. O[1] = W[1].what
    <3>1. base + 1 = W[1].no + 1 /\ Whole(W[1])
      BY <1>1, <1>3, <1>4
    <3> QED BY <1>3, <1>4, <2>2, <3>1
  <2> QED BY <2>2, <2>3
<1>6. P \in Seq(X!Reports) /\ Len(P) = Len(O) - w
      /\ \A n \in 1..Len(P), k \in 1..Len(O) : k = n + w => P[n] = O[k]
  <2>1. CASE w = 1
    <3>1. /\ Tail(O) \in Seq(X!Reports) /\ Len(Tail(O)) = Len(O) - 1
          /\ \A n \in 1..Len(O) - 1 : Tail(O)[n] = O[n + 1]
      BY <1>5, <2>1, HeadTailProperties
    <3> QED BY <1>1, <2>1, <3>1
  <2>2. CASE w = 0
    <3>1. P = O
      BY <2>2
    <3> HIDE DEF P
    <3> QED BY <1>1, <2>2, <3>1
  <2> QED BY <1>4, <2>1, <2>2
<1> HIDE DEF w, P, V, Z
<1>7. ASSUME NEW j \in 1..Len(V)
      PROVE  /\ j + 1 \in 1..Len(W) /\ V[j] = W[j + 1] /\ Z[j] = Y[j + 1] /\ 1 < j + 1
             /\ j + 1 <= Len(W)
  BY <1>1, <1>2
<1>8. Marked(b, V, Z, P)
  <2>1. b \in Nat /\ V \in Seq(Labels) /\ Len(V) = Len(Z)
    BY <1>1, <1>2, <1>4
  <2>2. ASSUME NEW j \in 1..Len(V)
        PROVE  /\ Labelled(V[j]) /\ Z[j] = EventOf(V[j])
               /\ b <= V[j].no /\ V[j].no + Weight(V[j]) <= b + Len(P)
    <3>1. PICK i \in 1..Len(W) : i = j + 1
      BY <1>7
    <3>2. V[j] = W[i] /\ Z[j] = Y[i] /\ 1 < i
      BY <1>7, <3>1
    <3>3. W[1].no + w <= W[i].no
      BY <1>3, <1>4, <3>2 DEF w
    <3>4. b + Len(P) = base + Len(O)
      BY <1>1, <1>4, <1>6
    <3> QED BY <1>3, <3>2, <3>3, <3>4
  <2>3. ASSUME NEW j \in 1..Len(V), NEW k \in 1..Len(V), k = j + 1
        PROVE  Follows(V[j], V[k])
    <3>1. PICK i \in 1..Len(W), h \in 1..Len(W) : i = j + 1 /\ h = k + 1
      BY <1>7
    <3>2. V[j] = W[i] /\ V[k] = W[h] /\ h = i + 1
      BY <1>7, <2>3, <3>1
    <3> QED BY <1>3, <3>2
  <2>4. ASSUME NEW j \in 1..Len(V), NEW k \in 1..Len(V), j < k
        PROVE  V[j].no + Weight(V[j]) <= V[k].no
    <3>1. PICK i \in 1..Len(W), h \in 1..Len(W) : i = j + 1 /\ h = k + 1
      BY <1>7
    <3>2. V[j] = W[i] /\ V[k] = W[h] /\ i < h
      BY <1>7, <2>4, <3>1
    <3> QED BY <1>3, <3>2
  <2>5. ASSUME NEW j \in 1..Len(V), NEW n \in 1..Len(P), Whole(V[j]), b + n = V[j].no + 1
        PROVE  P[n] = V[j].what
    <3>1. PICK i \in 1..Len(W) : i = j + 1
      BY <1>7
    <3>2. V[j] = W[i]
      BY <1>7, <3>1
    <3>3. PICK k \in 1..Len(O) : k = n + w
      BY <1>1, <1>4, <1>6
    <3>4. P[n] = O[k]
      BY <1>6, <3>3
    <3>5. base + k = W[i].no + 1 /\ Whole(W[i])
      BY <1>1, <1>4, <2>5, <3>2, <3>3
    <3> QED BY <1>3, <3>2, <3>4, <3>5
  <2>6. V = <<>> => P = <<>>
    <3> SUFFICES ASSUME V = <<>> PROVE P = <<>>
      OBVIOUS
    <3>1. Len(W) = 1
      BY <1>1, <1>2
    <3>2. base + w = base + Len(O)
      BY <1>3, <3>1 DEF w
    <3>3. Len(P) = 0
      BY <1>1, <1>4, <1>6, <3>2
    <3> QED BY <1>6, <3>3
  <2>7. V # <<>> => /\ V[1].no = b /\ V[Len(V)].last
                    /\ V[Len(V)].no + Weight(V[Len(V)]) = b + Len(P)
    <3> SUFFICES ASSUME V # <<>>
                 PROVE  /\ V[1].no = b /\ V[Len(V)].last
                        /\ V[Len(V)].no + Weight(V[Len(V)]) = b + Len(P)
      OBVIOUS
    <3>1. 1 \in 1..Len(V) /\ Len(V) \in 1..Len(V)
      BY <1>1, <1>2
    <3>2. V[1] = W[2] /\ 2 \in 1..Len(W)
      BY <1>7, <3>1
    <3>3. V[Len(V)] = W[Len(W)]
      <4>1. Len(V) + 1 = Len(W)
        BY <1>1, <1>2
      <4> QED BY <1>7, <3>1, <4>1
    <3>4. b + Len(P) = base + Len(O)
      BY <1>1, <1>4, <1>6
    <3>5. W[2].no = W[1].no + w
      <4>1. Follows(W[1], W[2])
        BY <1>3, <1>4, <3>2
      <4>2. ~W[1].last => w = 0
        BY DEF w, Weight, Whole
      <4> QED BY <1>3, <1>4, <4>1, <4>2 DEF Follows, w
    <3> QED BY <1>3, <3>2, <3>3, <3>4, <3>5
  <2> QED BY <2>1, <2>2, <2>3, <2>4, <2>5, <2>6, <2>7 DEF Marked
<1>9. ASSUME Whole(W[1])
      PROVE  O # <<>> /\ Head(O) = W[1].what /\ Marked(base + 1, Tail(W), Tail(Y), Tail(O))
  <2>1. w = 1
    BY <1>4, <1>9
  <2>2. b = base + 1 /\ P = Tail(O)
    BY <2>1 DEF P
  <2> QED BY <1>5, <1>8, <2>1, <2>2 DEF V, Z
<1>10. ASSUME ~Whole(W[1])
       PROVE  Marked(base, Tail(W), Tail(Y), O)
  <2>1. w = 0
    BY <1>4, <1>10
  <2>2. b = base /\ P = O
    BY <1>1, <2>1 DEF P
  <2> QED BY <1>8, <2>2 DEF V, Z
<1> QED BY <1>9, <1>10

\* A frame that is sent, and what its events stand for.
Sent(r, x, d) == X!Skewed(FrameOf(r, x), d) \o <<X!Silence>>
Marks(r, x, d, no) ==
  [j \in 1..2 * Pairs(r, x) + 2 |->
     [what |-> r, x |-> x, d |-> d, i |-> (j - 1) \div 2, space |-> j % 2 = 0,
      last |-> j = 2 * Pairs(r, x) + 2, no |-> no]]

LEMMA IrMarks ==
  ASSUME NEW r \in X!Reports, NEW x \in BOOLEAN, NEW d \in -1..1, NEW no \in Nat
  PROVE  /\ Marks(r, x, d, no) \in Seq(Labels) /\ Sent(r, x, d) \in Seq(X!Event)
         /\ Len(Marks(r, x, d, no)) = 2 * Pairs(r, x) + 2
         /\ Len(Sent(r, x, d)) = 2 * Pairs(r, x) + 2
         /\ \A j \in 1..2 * Pairs(r, x) + 2 :
              LET l == Marks(r, x, d, no)[j] IN
              /\ Labelled(l) /\ Sent(r, x, d)[j] = EventOf(l)
              /\ l.what = r /\ l.x = x /\ l.d = d /\ l.no = no
              /\ (l.last <=> j = 2 * Pairs(r, x) + 2) /\ (Whole(l) <=> l.last)
              /\ 2 * l.i + (IF l.space THEN 2 ELSE 1) = j
<1> DEFINE p == Pairs(r, x)
           m == Marks(r, x, d, no)
           f == FrameOf(r, x)
           s == Sent(r, x, d)
           mk(j) == [what |-> r, x |-> x, d |-> d, i |-> (j - 1) \div 2, space |-> j % 2 = 0,
                     last |-> j = 2 * p + 2, no |-> no]
<1>1. p \in Nat \ {0}
  BY IrPairs
<1>2. /\ f \in Seq(Nominal) /\ Len(f) = 2 * p + 1
      /\ \A i \in 0..p : f[2 * i + 1] = X!Run(TRUE, Lasts(r, x, i, FALSE))
      /\ \A i \in 0..p - 1 : f[2 * i + 2] = X!Run(FALSE, Lasts(r, x, i, TRUE))
  BY IrFrameRuns
<1>3. m = [j \in 1..2 * p + 2 |-> mk(j)]
  BY DEF Marks
<1> HIDE DEF p, m, f
<1>4. ASSUME NEW j \in 1..2 * p + 2
      PROVE  \E i \in 0..p : (j - 1) \div 2 = i /\ (  (j = 2 * i + 1 /\ ~(j % 2 = 0))
                                                   \/ (j = 2 * i + 2 /\ j % 2 = 0))
  <2>1. (j - 1) \div 2 \in 0..p
    BY <1>1
  <2> QED BY <1>1, <2>1
<1>5. ASSUME NEW j \in 1..2 * p + 2
      PROVE  mk(j) \in Labels
  <2>1. (j - 1) \div 2 \in Nat /\ (j % 2 = 0) \in BOOLEAN /\ (j = 2 * p + 2) \in BOOLEAN
    BY <1>1, <1>4
  <2> QED BY <2>1 DEF Labels
<1>6. m \in Seq(Labels) /\ Len(m) = 2 * p + 2 /\ \A j \in 1..2 * p + 2 : m[j] = mk(j)
  <2>1. 2 * p + 2 \in Nat
    BY <1>1
  <2>2. m \in [1..2 * p + 2 -> Labels]
    BY <1>3, <1>5
  <2> HIDE DEF mk
  <2> QED BY <1>3, <2>1, <2>2
<1>11. ASSUME NEW n, NEW b \in BOOLEAN
       PROVE  [X!Run(b, n) EXCEPT !.duration = IF X!Run(b, n).pulse THEN @ + d ELSE @ - d]
                = X!Run(b, IF b THEN n + d ELSE n - d)
  BY DEF X!Run
<1> DEFINE g == X!Skewed(f, d)
<1>7. /\ g \in Seq(X!Event) /\ Len(g) = 2 * p + 1
      /\ \A j \in 1..2 * p + 1 :
           g[j] = [f[j] EXCEPT !.duration = IF f[j].pulse THEN @ + d ELSE @ - d]
  <2>1. DOMAIN f = 1..2 * p + 1
    BY <1>2
  <2> QED BY <1>2, <2>1, IrSkewed DEF X!Skewed
<1>8. s = g \o <<X!Silence>>
  BY DEF Sent, f
<1> HIDE DEF g, s
<1>9. /\ s \in Seq(X!Event) /\ Len(s) = 2 * p + 2
      /\ \A j \in 1..2 * p + 1 : s[j] = g[j]
      /\ s[2 * p + 2] = X!Silence
  <2>1. X!Silence \in X!Event
    BY InfraredAssumption DEF X!Silence, X!Run, X!Event
  <2>2. s = Append(g, X!Silence)
    BY <1>7, <1>8, <2>1
  <2>3. /\ s \in Seq(X!Event) /\ Len(s) = Len(g) + 1
        /\ \A j \in 1..Len(g) : s[j] = g[j]
        /\ s[Len(g) + 1] = X!Silence
    <3>1. g \in Seq(X!Event)
      BY <1>7
    <3> QED BY <2>1, <2>2, <3>1, AppendProperties
  <2>4. Len(g) + 1 = 2 * p + 2
    BY <1>1, <1>7
  <2> QED BY <1>7, <2>3, <2>4
<1>10. ASSUME NEW j \in 1..2 * p + 2
       PROVE  LET l == m[j] IN
              /\ Labelled(l) /\ s[j] = EventOf(l)
              /\ l.what = r /\ l.x = x /\ l.d = d /\ l.no = no
              /\ (l.last <=> j = 2 * p + 2) /\ (Whole(l) <=> l.last)
              /\ 2 * l.i + (IF l.space THEN 2 ELSE 1) = j
  <2>1. PICK i \in 0..p : (j - 1) \div 2 = i /\ (  (j = 2 * i + 1 /\ ~(j % 2 = 0))
                                                \/ (j = 2 * i + 2 /\ j % 2 = 0))
    BY <1>4
  <2> DEFINE l == m[j]
  <2>2. /\ l.what = r /\ l.x = x /\ l.d = d /\ l.no = no /\ l.i = i
        /\ (l.last <=> j = 2 * p + 2) /\ (l.space <=> j % 2 = 0)
    <3>1. l = mk(j)
      BY <1>6
    <3>2. l.what = r /\ l.x = x /\ l.d = d /\ l.no = no /\ l.i = i
      BY <2>1, <3>1
    <3>3. mk(j).last = (j = 2 * p + 2) /\ mk(j).space = (j % 2 = 0)
      OBVIOUS
    <3>4. l.last = mk(j).last /\ l.space = mk(j).space
      BY <3>1
    <3> HIDE DEF l, mk
    <3> QED BY <3>2, <3>3, <3>4
  <2>3. l \in Labels
    BY <1>5, <1>6
  <2>4. PairsOf(l) = p
    BY <2>2 DEF PairsOf, p
  <2> HIDE DEF l
  <2>5. 2 * l.i + (IF l.space THEN 2 ELSE 1) = j
    BY <2>1, <2>2
  <2>6. (l.last <=> l.space /\ l.i = p) /\ l.i <= p
    BY <1>1, <2>1, <2>2
  <2>7. Labelled(l) /\ (Whole(l) <=> l.last)
    BY <2>3, <2>4, <2>6 DEF Labelled, Whole
  <2>8. s[j] = EventOf(l)
    <3>1. CASE l.last
      BY <1>9, <2>2, <3>1 DEF EventOf
    <3>2. CASE ~l.last /\ l.space
      <4>1. i \in 0..p - 1 /\ j = 2 * i + 2 /\ j \in 1..2 * p + 1
        BY <1>1, <2>1, <2>2, <2>6, <3>2
      <4>2. f[2 * i + 2] = X!Run(FALSE, Lasts(r, x, i, TRUE))
        BY <1>2, <4>1
      <4>3. f[j] = X!Run(FALSE, Lasts(r, x, i, TRUE))
        BY <4>1, <4>2
      <4>4. g[j] = X!Run(FALSE, Lasts(r, x, i, TRUE) - d)
        <5> DEFINE a == Lasts(r, x, i, TRUE)
        <5>1. g[j] = [f[j] EXCEPT !.duration = IF f[j].pulse THEN @ + d ELSE @ - d]
          BY <1>7, <4>1
        <5>2. f[j] = X!Run(FALSE, a)
          BY <4>3
        <5> HIDE DEF a
        <5>3. g[j] = X!Run(FALSE, IF FALSE THEN a + d ELSE a - d)
          BY <1>11, <5>1, <5>2
        <5> QED BY <5>3 DEF a
      <4>5. EventOf(l) = X!Run(~l.space, Lasts(r, x, i, TRUE) - d)
        BY <2>2, <3>2 DEF EventOf
      <4>6. (~l.space) = FALSE
        BY <3>2
      <4>7. s[j] = g[j]
        BY <1>9, <4>1
      <4> QED BY <4>4, <4>5, <4>6, <4>7
    <3>3. CASE ~l.last /\ ~l.space
      <4>1. j = 2 * i + 1
        BY <2>1, <2>2, <3>3
      <4>2. j \in 1..2 * p + 1
        BY <1>1, <4>1
      <4>3. f[2 * i + 1] = X!Run(TRUE, Lasts(r, x, i, FALSE))
        BY <1>2
      <4>4. f[j] = X!Run(TRUE, Lasts(r, x, i, FALSE))
        BY <4>1, <4>3
      <4>5. g[j] = X!Run(TRUE, Lasts(r, x, i, FALSE) + d)
        <5> DEFINE a == Lasts(r, x, i, FALSE)
        <5>1. g[j] = [f[j] EXCEPT !.duration = IF f[j].pulse THEN @ + d ELSE @ - d]
          BY <1>7, <4>2
        <5>2. f[j] = X!Run(TRUE, a)
          BY <4>4
        <5> HIDE DEF a
        <5>3. g[j] = X!Run(TRUE, IF TRUE THEN a + d ELSE a - d)
          BY <1>11, <5>1, <5>2
        <5> QED BY <5>3 DEF a
      <4>6. EventOf(l) = X!Run(~l.space, Lasts(r, x, i, FALSE) + d)
        BY <2>2, <3>3 DEF EventOf
      <4>7. (~l.space) = TRUE
        BY <3>3
      <4>8. s[j] = g[j]
        BY <1>9, <4>2
      <4> QED BY <4>5, <4>6, <4>7, <4>8
    <3> QED BY <3>1, <3>2, <3>3
  <2> QED BY <2>2, <2>5, <2>7, <2>8 DEF l
<1> QED BY <1>6, <1>9, <1>10 DEF p, m, s

\* A frame is sent behind what is on its way.
LEMMA IrAppended ==
  ASSUME NEW base, NEW W, NEW Y \in Seq(X!Event), NEW O \in Seq(X!Reports),
         Marked(base, W, Y, O),
         NEW r \in X!Reports, NEW x \in BOOLEAN, NEW d \in -1..1,
         W # <<>> /\ r = X!Rpt /\ x => Whole(W[Len(W)]) /\ W[Len(W)].x
  PROVE  Marked(base, W \o Marks(r, x, d, base + Len(O)), Y \o Sent(r, x, d), Append(O, r))
<1> DEFINE no == base + Len(O)
           J == Marks(r, x, d, no)
           Z == Sent(r, x, d)
           n == 2 * Pairs(r, x) + 2
           V == W \o J
           Q == Y \o Z
           P == Append(O, r)
           a == Len(W)
<1>1. /\ base \in Nat /\ W \in Seq(Labels) /\ a = Len(Y) /\ a \in Nat /\ Len(O) \in Nat
      /\ no \in Nat /\ n \in Nat /\ n >= 2
  BY IrPairs DEF Marked
<1>2. /\ J \in Seq(Labels) /\ Z \in Seq(X!Event) /\ Len(J) = n /\ Len(Z) = n
      /\ \A j \in 1..n :
           /\ Labelled(J[j]) /\ Z[j] = EventOf(J[j])
           /\ J[j].what = r /\ J[j].x = x /\ J[j].d = d /\ J[j].no = no
           /\ (J[j].last <=> j = n) /\ (Whole(J[j]) <=> J[j].last)
           /\ 2 * J[j].i + (IF J[j].space THEN 2 ELSE 1) = j
  <2>1. no \in Nat
    BY <1>1
  <2> HIDE DEF no
  <2>2. J \in Seq(Labels) /\ Z \in Seq(X!Event) /\ Len(J) = n /\ Len(Z) = n
    BY <2>1, IrMarks
  <2>3. ASSUME NEW j \in 1..n
        PROVE  /\ Labelled(J[j]) /\ Z[j] = EventOf(J[j])
               /\ J[j].what = r /\ J[j].x = x /\ J[j].d = d /\ J[j].no = no
               /\ (J[j].last <=> j = n) /\ (Whole(J[j]) <=> J[j].last)
               /\ 2 * J[j].i + (IF J[j].space THEN 2 ELSE 1) = j
    BY <2>1, IrMarks
  <2> HIDE DEF J, Z, n
  <2> QED BY <2>2, <2>3
<1>3. P \in Seq(X!Reports) /\ Len(P) = Len(O) + 1 /\ P[Len(O) + 1] = r
      /\ \A i \in 1..Len(O) : P[i] = O[i]
  BY AppendProperties
<1> HIDE DEF J, Z, n, P, no
<1>4. /\ V \in Seq(Labels) /\ Len(V) = a + n
      /\ \A j \in 1..a : V[j] = W[j]
      /\ \A j \in 1..n : V[j + a] = J[j]
  <2>1. W \in Seq(Labels) /\ J \in Seq(Labels)
    BY <1>1, <1>2
  <2> QED BY <1>2, <2>1, Joined
<1>5. /\ Q \in Seq(X!Event) /\ Len(Q) = a + n
      /\ \A j \in 1..a : Q[j] = Y[j]
      /\ \A j \in 1..n : Q[j + a] = Z[j]
  <2>1. Y \in Seq(X!Event) /\ Z \in Seq(X!Event)
    BY <1>2
  <2>2. /\ Q \in Seq(X!Event) /\ Len(Q) = Len(Y) + Len(Z)
        /\ \A j \in 1..Len(Y) : Q[j] = Y[j]
        /\ \A j \in 1..Len(Z) : Q[j + Len(Y)] = Z[j]
    BY <2>1, Joined
  <2> QED BY <1>1, <1>2, <2>2
<1> HIDE DEF V, Q
<1>6. /\ \A j \in 1..a : Labelled(W[j]) /\ Y[j] = EventOf(W[j])
      /\ \A j, k \in 1..a : k = j + 1 => Follows(W[j], W[k])
      /\ \A j, k \in 1..a : j < k => W[j].no + Weight(W[j]) <= W[k].no
      /\ \A j \in 1..a : base <= W[j].no /\ W[j].no + Weight(W[j]) <= no
      /\ \A j \in 1..a, i \in 1..Len(O) :
           Whole(W[j]) /\ base + i = W[j].no + 1 => O[i] = W[j].what
      /\ W = <<>> => O = <<>>
      /\ W # <<>> => /\ W[1].no = base /\ W[a].last /\ W[a].no + Weight(W[a]) = no
  BY DEF Marked, no
<1>7. ASSUME NEW j \in 1..a + n
      PROVE  \/ j \in 1..a /\ V[j] = W[j] /\ Q[j] = Y[j]
             \/ \E i \in 1..n : j = i + a /\ V[j] = J[i] /\ Q[j] = Z[i]
  <2>1. CASE j <= a
    <3>1. j \in 1..a
      BY <1>1, <2>1
    <3> QED BY <1>4, <1>5, <3>1
  <2>2. CASE ~(j <= a)
    <3>1. PICK i \in 1..n : j = i + a
      <4>1. j - a \in 1..n /\ j = (j - a) + a
        BY <1>1, <2>2
      <4> QED BY <4>1
    <3> QED BY <1>4, <1>5, <3>1
  <2> QED BY <2>1, <2>2
<1>8. \A j \in 1..a : W[j].no \in Nat /\ Weight(W[j]) \in {0, 1}
  BY <1>6, IrEventOf
<1>9. \A j \in 1..n : Weight(J[j]) = IF j = n THEN 1 ELSE 0
  BY <1>2 DEF Weight
<1>10. no + 1 = base + Len(P)
  BY <1>1, <1>3 DEF no
<1>11. ASSUME NEW j \in 1..a + n
       PROVE  /\ Labelled(V[j]) /\ Q[j] = EventOf(V[j])
              /\ base <= V[j].no /\ V[j].no + Weight(V[j]) <= base + Len(P)
  <2>1. CASE j \in 1..a /\ V[j] = W[j] /\ Q[j] = Y[j]
    <3>1. /\ Labelled(V[j]) /\ Q[j] = EventOf(V[j]) /\ base <= V[j].no
          /\ V[j].no \in Nat /\ Weight(V[j]) \in {0, 1} /\ V[j].no + Weight(V[j]) <= no
      BY <1>6, <1>8, <2>1
    <3>2. no + 1 = base + Len(P) /\ no \in Nat
      BY <1>1, <1>10
    <3> QED BY <3>1, <3>2
  <2>2. ASSUME NEW i \in 1..n, j = i + a, V[j] = J[i], Q[j] = Z[i]
        PROVE  /\ Labelled(V[j]) /\ Q[j] = EventOf(V[j])
               /\ base <= V[j].no /\ V[j].no + Weight(V[j]) <= base + Len(P)
    <3>1. base <= no
      BY <1>1 DEF no
    <3> QED BY <1>1, <1>2, <1>9, <1>10, <2>2, <3>1
  <2> QED BY <1>7, <2>1, <2>2
<1>12. ASSUME NEW j \in 1..a + n, NEW k \in 1..a + n, k = j + 1
       PROVE  Follows(V[j], V[k])
  <2>1. CASE k <= a
    <3>1. j \in 1..a /\ k \in 1..a
      BY <1>1, <1>12, <2>1
    <3> QED BY <1>4, <1>6, <1>12, <3>1
  <2>2. CASE j = a
    <3>1. W # <<>> /\ a \in 1..a
      BY <1>1, <1>12, <2>2
    <3>2. k = 1 + a /\ 1 \in 1..n
      BY <1>1, <1>12, <2>2
    <3>3. V[j] = W[a] /\ V[k] = J[1]
      BY <1>4, <2>2, <3>1, <3>2
    <3>4. W[a].last /\ W[a].no + Weight(W[a]) = no
      BY <1>6, <3>1
    <3>5. J[1].what = r /\ J[1].x = x /\ J[1].no = no /\ 2 * J[1].i + (IF J[1].space THEN 2 ELSE 1) = 1
      BY <1>2, <3>2
    <3>6. J[1].i = 0 /\ ~J[1].space
      <4>1. J[1].i \in Nat /\ J[1].space \in BOOLEAN
        BY <1>2, <3>2, IrEventOf
      <4>2. ~J[1].space
        BY <3>5, <4>1
      <4> QED BY <3>5, <4>1, <4>2
    <3> QED BY <3>1, <3>3, <3>4, <3>5, <3>6 DEF Follows
  <2>3. CASE j > a
    <3>1. PICK i \in 1..n, h \in 1..n : j = i + a /\ k = h + a /\ h = i + 1
      <4>1. j - a \in 1..n /\ k - a \in 1..n /\ j = (j - a) + a /\ k = (k - a) + a
            /\ k - a = (j - a) + 1
        BY <1>1, <1>12, <2>3
      <4> QED BY <4>1
    <3>2. V[j] = J[i] /\ V[k] = J[h]
      BY <1>4, <3>1
    <3>3. /\ J[h].what = J[i].what /\ J[h].x = J[i].x /\ J[h].d = J[i].d /\ J[h].no = J[i].no
          /\ ~J[i].last
      BY <1>1, <1>2, <3>1
    <3>4. /\ 2 * J[i].i + (IF J[i].space THEN 2 ELSE 1) = i
          /\ 2 * J[h].i + (IF J[h].space THEN 2 ELSE 1) = i + 1
          /\ J[i].i \in Nat /\ J[h].i \in Nat /\ J[i].space \in BOOLEAN /\ J[h].space \in BOOLEAN
      BY <1>2, <3>1, IrEventOf
    <3>5. J[h].space = ~J[i].space /\ J[h].i = IF J[i].space THEN J[i].i + 1 ELSE J[i].i
      <4>1. PICK p \in Nat, q \in Nat : p = J[i].i /\ q = J[h].i
        BY <3>4
      <4>2. PICK e \in {1, 2}, g \in {1, 2} : /\ e = (IF J[i].space THEN 2 ELSE 1)
                                           /\ g = (IF J[h].space THEN 2 ELSE 1)
        OBVIOUS
      <4>3. 2 * p + e = i /\ 2 * q + g = i + 1
        BY <3>4, <4>1, <4>2
      <4>4. g = 3 - e /\ q = IF e = 2 THEN p + 1 ELSE p
        BY <4>3
      <4>5. CASE J[i].space
        <5>1. e = 2 /\ g = 1 /\ q = p + 1
          BY <4>2, <4>4, <4>5
        <5>2. ~J[h].space
          BY <4>2, <5>1
        <5> QED BY <3>4, <4>1, <4>5, <5>1, <5>2
      <4>6. CASE ~J[i].space
        <5>1. e = 1 /\ g = 2 /\ q = p
          BY <4>2, <4>4, <4>6
        <5>2. J[h].space
          BY <4>2, <5>1
        <5> QED BY <3>4, <4>1, <4>6, <5>1, <5>2
      <4> QED BY <4>5, <4>6
    <3> QED BY <3>2, <3>3, <3>5 DEF Follows
  <2>4. k <= a \/ j = a \/ j > a
    BY <1>1, <1>12
  <2> QED BY <2>1, <2>2, <2>3, <2>4
<1>13. ASSUME NEW j \in 1..a + n, NEW k \in 1..a + n, j < k
       PROVE  V[j].no + Weight(V[j]) <= V[k].no
  <2>1. CASE k <= a
    <3>1. j \in 1..a /\ k \in 1..a
      BY <1>1, <1>13, <2>1
    <3> QED BY <1>4, <1>6, <1>13, <3>1
  <2>2. CASE ~(k <= a)
    <3>1. PICK h \in 1..n : k = h + a /\ V[k] = J[h]
      <4>1. ~(k \in 1..a)
        BY <1>1, <2>2
      <4> QED BY <1>7, <4>1
    <3>2. V[k].no = no
      BY <1>2, <3>1
    <3>3. CASE j \in 1..a /\ V[j] = W[j]
      BY <1>6, <3>2, <3>3
    <3>4. ASSUME NEW i \in 1..n, j = i + a, V[j] = J[i]
          PROVE  V[j].no + Weight(V[j]) <= V[k].no
      <4>1. i # n
        BY <1>1, <1>13, <3>1, <3>4
      <4> QED BY <1>1, <1>2, <1>9, <3>2, <3>4, <4>1
    <3> QED BY <1>7, <3>3, <3>4
  <2> QED BY <2>1, <2>2
<1>14. ASSUME NEW j \in 1..a + n, NEW k \in 1..Len(P), Whole(V[j]), base + k = V[j].no + 1
       PROVE  P[k] = V[j].what
  <2>1. CASE j \in 1..a /\ V[j] = W[j]
    <3>1. Weight(W[j]) = 1 /\ W[j].no + Weight(W[j]) <= no /\ W[j].no \in Nat
      BY <1>6, <1>8, <1>14, <2>1 DEF Weight
    <3>2. k \in 1..Len(O)
      BY <1>1, <1>3, <1>14, <2>1, <3>1 DEF no
    <3> QED BY <1>3, <1>6, <1>14, <2>1, <3>2
  <2>2. ASSUME NEW i \in 1..n, j = i + a, V[j] = J[i]
        PROVE  P[k] = V[j].what
    <3>1. V[j].no = no /\ V[j].what = r
      BY <1>2, <2>2
    <3>2. k = Len(O) + 1
      BY <1>1, <1>3, <1>14, <3>1 DEF no
    <3> QED BY <1>3, <3>1, <3>2
  <2> QED BY <1>7, <2>1, <2>2
<1>15. V # <<>> /\ Len(V) = Len(Q)
  <2>1. Len(V) > 0
    BY <1>1, <1>4
  <2> QED BY <1>4, <1>5, <2>1
<1>16. V[1].no = base
  <2>1. CASE W # <<>>
    <3>1. 1 \in 1..a
      BY <1>1, <2>1
    <3> QED BY <1>4, <1>6, <2>1, <3>1
  <2>2. CASE W = <<>>
    <3>1. a = 0 /\ Len(O) = 0 /\ 1 \in 1..n /\ no = base
      BY <1>1, <1>6, <2>2 DEF no
    <3>2. V[1 + a] = J[1] /\ 1 + a = 1
      BY <1>4, <3>1
    <3> QED BY <1>2, <3>1, <3>2
  <2> QED BY <2>1, <2>2
<1>17. V[Len(V)].last /\ V[Len(V)].no + Weight(V[Len(V)]) = base + Len(P)
  <2>1. n \in 1..n /\ Len(V) = n + a
    BY <1>1, <1>4
  <2>2. V[Len(V)] = J[n]
    BY <1>4, <2>1
  <2> QED BY <1>2, <1>9, <1>10, <2>1, <2>2
<1>18. Marked(base, V, Q, P)
  BY <1>1, <1>4, <1>11, <1>12, <1>13, <1>14, <1>15, <1>16, <1>17 DEF Marked
<1> QED BY <1>18 DEF V, Q, P, J, Z, no

\* A frame is cut off behind a pulse: the c-th event is the silence.
CutOff(W, c) == SubSeq(W, 1, c - 1) \o <<[W[c] EXCEPT !.last = TRUE]>>

LEMMA IrCutOff ==
  ASSUME NEW base, NEW W, NEW Y \in Seq(X!Event), NEW O \in Seq(X!Reports), NEW r \in X!Reports,
         Marked(base, W, Y, Append(O, r)),
         NEW c \in 2..Len(W), W[c].space, ~W[c].last, W[c].i # 2, W[c].no = base + Len(O)
  PROVE  /\ Marked(base, CutOff(W, c), SubSeq(Y, 1, c - 1) \o <<X!Silence>>, O)
         /\ Len(CutOff(W, c)) = c /\ ~Whole(CutOff(W, c)[c])
<1> DEFINE l == [W[c] EXCEPT !.last = TRUE]
           V == CutOff(W, c)
           Q == SubSeq(Y, 1, c - 1) \o <<X!Silence>>
           P == Append(O, r)
           a == c - 1
<1>1. /\ base \in Nat /\ W \in Seq(Labels) /\ Len(W) = Len(Y) /\ Len(W) \in Nat /\ c \in Nat
      /\ a \in Nat /\ 1 <= a /\ a < Len(W) /\ c = a + 1 /\ Len(O) \in Nat
  BY DEF Marked
<1>2. P \in Seq(X!Reports) /\ Len(P) = Len(O) + 1 /\ \A i \in 1..Len(O) : P[i] = O[i]
  BY AppendProperties
<1> HIDE DEF P
<1>3. /\ \A j \in 1..Len(W) : Labelled(W[j]) /\ Y[j] = EventOf(W[j])
      /\ \A j, k \in 1..Len(W) : k = j + 1 => Follows(W[j], W[k])
      /\ \A j, k \in 1..Len(W) : j < k => W[j].no + Weight(W[j]) <= W[k].no
      /\ \A j \in 1..Len(W) : base <= W[j].no /\ W[j].no + Weight(W[j]) <= base + Len(P)
      /\ \A j \in 1..Len(W), n \in 1..Len(P) :
           Whole(W[j]) /\ base + n = W[j].no + 1 => P[n] = W[j].what
      /\ W # <<>> => W[1].no = base
  BY DEF Marked, P
<1>4. /\ l \in Labels /\ l.what = W[c].what /\ l.x = W[c].x /\ l.d = W[c].d /\ l.i = W[c].i
      /\ l.no = W[c].no /\ l.space = W[c].space /\ l.last
  <2>1. W[c] \in Labels
    BY <1>3 DEF Labelled
  <2> QED BY <2>1 DEF Labels
<1>5. Labelled(l) /\ ~Whole(l) /\ EventOf(l) = X!Silence /\ Weight(l) = 0
  <2>1. PairsOf(l) = PairsOf(W[c])
    BY <1>4 DEF PairsOf
  <2>2. W[c].i <= PairsOf(W[c]) /\ W[c].i # PairsOf(W[c])
    BY <1>3 DEF Labelled
  <2> HIDE DEF l
  <2>3. Labelled(l) /\ ~Whole(l) /\ EventOf(l) = X!Silence
    BY <1>4, <2>1, <2>2 DEF Labelled, Whole, EventOf
  <2> QED BY <2>3 DEF Weight
<1>6. X!Silence \in X!Event
  BY InfraredAssumption DEF X!Silence, X!Run, X!Event
<1> HIDE DEF l
<1>7. /\ V \in Seq(Labels) /\ Len(V) = c /\ V[c] = l
      /\ \A j \in 1..a : V[j] = W[j]
  <2> DEFINE t == SubSeq(W, 1, a)
  <2>1. \A j \in 1..a : W[j] \in Labels
    BY <1>1
  <2>2. t \in Seq(Labels) /\ Len(t) = a /\ \A j \in 1..a : t[j] = W[j]
    BY <1>1, <2>1, SubSeqProperties
  <2> HIDE DEF t
  <2>3. V = t \o <<l>>
    BY DEF CutOff, t, l
  <2>4. V = Append(t, l)
    BY <1>4, <2>2, <2>3
  <2>5. V \in Seq(Labels) /\ Len(V) = Len(t) + 1 /\ V[Len(t) + 1] = l
        /\ \A j \in 1..Len(t) : V[j] = t[j]
    <3>1. t \in Seq(Labels)
      BY <2>2
    <3> HIDE DEF V
    <3> QED BY <1>4, <2>4, <3>1, AppendProperties
  <2> HIDE DEF V
  <2> QED BY <1>1, <2>2, <2>5
<1>8. /\ Len(Q) = c /\ Q[c] = X!Silence /\ \A j \in 1..a : Q[j] = Y[j]
  <2> DEFINE t == SubSeq(Y, 1, a)
  <2>1. \A j \in 1..a : Y[j] \in X!Event
    BY <1>1
  <2>2. t \in Seq(X!Event) /\ Len(t) = a /\ \A j \in 1..a : t[j] = Y[j]
    BY <1>1, <2>1, SubSeqProperties
  <2>3. Q = t \o <<X!Silence>>
    OBVIOUS
  <2> HIDE DEF t, Q
  <2>4. Q = Append(t, X!Silence)
    BY <1>6, <2>2, <2>3
  <2>5. Len(Q) = Len(t) + 1 /\ Q[Len(t) + 1] = X!Silence
        /\ \A j \in 1..Len(t) : Q[j] = t[j]
    <3>1. t \in Seq(X!Event)
      BY <2>2
    <3> QED BY <1>6, <2>4, <3>1, AppendProperties
  <2> QED BY <1>1, <2>2, <2>5
<1> HIDE DEF V, Q
<1>9. ASSUME NEW j \in 1..a
      PROVE  W[j].no \in Nat /\ Weight(W[j]) \in {0, 1}
  <2>1. j \in 1..Len(W)
    BY <1>1
  <2>2. Labelled(W[j])
    BY <1>3, <2>1
  <2> QED BY <2>2, IrEventOf
<1>10. ASSUME NEW j \in 1..c
       PROVE  j \in 1..a \/ j = c
  BY <1>1
<1>11. ASSUME NEW j \in 1..a
       PROVE  W[j].no + Weight(W[j]) <= base + Len(O) /\ base <= W[j].no
  <2>1. j \in 1..Len(W) /\ c \in 1..Len(W) /\ j < c
    BY <1>1
  <2> QED BY <1>3, <2>1
<1>12. ASSUME NEW j \in 1..c
       PROVE  /\ Labelled(V[j]) /\ Q[j] = EventOf(V[j])
              /\ base <= V[j].no /\ V[j].no + Weight(V[j]) <= base + Len(O)
  <2>1. CASE j \in 1..a
    <3>1. j \in 1..Len(W)
      BY <1>1, <2>1
    <3> QED BY <1>3, <1>7, <1>8, <1>11, <2>1, <3>1
  <2>2. CASE j = c
    BY <1>1, <1>4, <1>5, <1>7, <1>8, <2>2
  <2> QED BY <1>10, <2>1, <2>2
<1>13. ASSUME NEW j \in 1..c, NEW k \in 1..c, k = j + 1
       PROVE  Follows(V[j], V[k])
  <2>1. j \in 1..a /\ j \in 1..Len(W) /\ k \in 1..Len(W)
    BY <1>1, <1>13
  <2>2. Follows(W[j], W[k]) /\ V[j] = W[j]
    BY <1>3, <1>7, <1>13, <2>1
  <2>3. CASE k \in 1..a
    BY <1>7, <2>2, <2>3
  <2>4. CASE k = c
    BY <1>4, <1>7, <2>2, <2>4 DEF Follows
  <2> QED BY <1>10, <2>3, <2>4
<1>14. ASSUME NEW j \in 1..c, NEW k \in 1..c, j < k
       PROVE  V[j].no + Weight(V[j]) <= V[k].no
  <2>1. j \in 1..a /\ j \in 1..Len(W) /\ k \in 1..Len(W) /\ V[j] = W[j]
    BY <1>1, <1>7, <1>14
  <2>2. W[j].no + Weight(W[j]) <= W[k].no
    BY <1>3, <1>14, <2>1
  <2>3. V[k].no = W[k].no
    BY <1>4, <1>7, <1>10
  <2> QED BY <2>1, <2>2, <2>3
<1>15. ASSUME NEW j \in 1..c, NEW n \in 1..Len(O), Whole(V[j]), base + n = V[j].no + 1
       PROVE  O[n] = V[j].what
  <2>1. j \in 1..a /\ j \in 1..Len(W) /\ V[j] = W[j] /\ n \in 1..Len(P)
    BY <1>1, <1>2, <1>5, <1>7, <1>10, <1>15
  <2> QED BY <1>2, <1>3, <1>15, <2>1
<1>16. V # <<>> /\ V[1].no = base /\ V[Len(V)].last
       /\ V[Len(V)].no + Weight(V[Len(V)]) = base + Len(O)
  <2>1. W # <<>> /\ 1 \in 1..a /\ Len(V) > 0
    BY <1>1, <1>7
  <2>2. V[1].no = base
    BY <1>3, <1>7, <2>1
  <2>3. base + Len(O) + 0 = base + Len(O)
    BY <1>1
  <2> QED BY <1>1, <1>4, <1>5, <1>7, <2>1, <2>2, <2>3
<1>17. Marked(base, V, Q, O)
  BY <1>1, <1>7, <1>8, <1>12, <1>13, <1>14, <1>15, <1>16 DEF Marked
<1> QED BY <1>5, <1>7, <1>17 DEF V, Q

-----------------------------------------------------------------------------
(* What the receiver has yet to hand over.                                 *)

\* The event te that is being put together, when runs rs are to come: it ends with the
\* first of them, or gathers it.
EndedBy(te, rs) == IF te.duration # 0 /\ Head(rs).pulse # te.pulse THEN <<te>> ELSE <<>>
Gathered(te, rs) ==
  IF te.duration # 0 /\ Head(rs).pulse = te.pulse
  THEN X!Run(Head(rs).pulse, Head(rs).duration + te.duration) ELSE Head(rs)
ComingOf(te, rs) ==
  IF rs = <<>> THEN (IF te.duration = 0 THEN <<>> ELSE <<te>>)
  ELSE EndedBy(te, rs) \o (<<Gathered(te, rs)>> \o Tail(rs))

\* The same when a sample of n has been taken.
Begun(te, rs, n) ==
  IF te.duration # 0 /\ Head(rs).pulse = te.pulse
  THEN X!Run(Head(rs).pulse, n + te.duration) ELSE X!Run(Head(rs).pulse, n)
Remaining(rs, n) ==
  IF n = Head(rs).duration THEN Tail(rs)
  ELSE <<X!Run(Head(rs).pulse, Head(rs).duration - n)>> \o Tail(rs)

\* A sequence from its first element.
LEMMA FirstAndRest ==
  ASSUME NEW Z, NEW e \in Z, NEW s \in Seq(Z)
  PROVE  /\ <<e>> \o s \in Seq(Z) /\ Len(<<e>> \o s) = Len(s) + 1 /\ <<e>> \o s # <<>>
         /\ (<<e>> \o s)[1] = e /\ Head(<<e>> \o s) = e /\ Tail(<<e>> \o s) = s
         /\ \A i \in 1..Len(s) : (<<e>> \o s)[i + 1] = s[i]
         /\ s # <<>> => <<Head(s)>> \o Tail(s) = s
<1>1. ASSUME NEW f \in Z, NEW t \in Seq(Z)
      PROVE  /\ <<f>> \o t \in Seq(Z) /\ Len(<<f>> \o t) = Len(t) + 1 /\ (<<f>> \o t)[1] = f
             /\ \A i \in 1..Len(t) : (<<f>> \o t)[i + 1] = t[i]
  <2> DEFINE u == <<f>>
  <2>1. u \in Seq(Z) /\ Len(u) = 1 /\ u[1] = f
    OBVIOUS
  <2> HIDE DEF u
  <2>2. /\ u \o t \in Seq(Z) /\ Len(u \o t) = Len(u) + Len(t)
        /\ \A i \in 1..Len(u) : (u \o t)[i] = u[i]
        /\ \A i \in 1..Len(t) : (u \o t)[i + Len(u)] = t[i]
    <3>1. u \in Seq(Z)
      BY <2>1
    <3> QED BY <3>1, Joined
  <2>3. Len(u \o t) = Len(t) + 1 /\ (u \o t)[1] = f
    BY <2>1, <2>2
  <2> QED BY <2>1, <2>2, <2>3 DEF u
<1> DEFINE a == <<e>> \o s
<1>2. /\ a \in Seq(Z) /\ Len(a) = Len(s) + 1 /\ a[1] = e /\ Len(s) \in Nat
      /\ \A i \in 1..Len(s) : a[i + 1] = s[i]
  BY <1>1
<1> HIDE DEF a
<1>3. a # <<>>
  BY <1>2
<1>4. Head(a) = e /\ Tail(a) = s
  <2>1. Tail(a) \in Seq(Z) /\ Len(Tail(a)) = Len(s) /\ \A i \in 1..Len(s) : Tail(a)[i] = a[i + 1]
    BY <1>2, <1>3, HeadTailProperties
  <2>2. \A i \in 1..Len(s) : Tail(a)[i] = s[i]
    BY <1>2, <2>1
  <2>3. Tail(a) = s
    BY <2>1, <2>2, SeqEqual
  <2> QED BY <1>2, <1>3, <2>3
<1>5. ASSUME s # <<>> PROVE <<Head(s)>> \o Tail(s) = s
  <2>1. /\ Head(s) \in Z /\ Tail(s) \in Seq(Z) /\ Len(Tail(s)) = Len(s) - 1 /\ Head(s) = s[1]
        /\ \A i \in 1..Len(s) - 1 : Tail(s)[i] = s[i + 1]
    BY <1>5, HeadTailProperties
  <2> DEFINE b == <<Head(s)>> \o Tail(s)
  <2>2. /\ b \in Seq(Z) /\ Len(b) = Len(Tail(s)) + 1 /\ b[1] = Head(s)
        /\ \A i \in 1..Len(Tail(s)) : b[i + 1] = Tail(s)[i]
    BY <1>1, <2>1
  <2> HIDE DEF b
  <2>3. Len(b) = Len(s) /\ Len(s) \in Nat
    BY <2>1, <2>2
  <2>4. ASSUME NEW i \in 1..Len(s) PROVE b[i] = s[i]
    <3>1. CASE i = 1
      BY <2>1, <2>2, <3>1
    <3>2. CASE i # 1
      <4>1. PICK k \in 1..Len(s) - 1 : i = k + 1
        <5>1. i - 1 \in 1..Len(s) - 1 /\ i = (i - 1) + 1
          BY <2>3, <3>2
        <5> QED BY <5>1
      <4> QED BY <2>1, <2>2, <4>1
    <3> QED BY <3>1, <3>2
  <2>5. b = s
    <3>1. \A i \in 1..Len(b) : b[i] = s[i]
      BY <2>3, <2>4
    <3> QED BY <2>2, <2>3, <3>1, SeqEqual
  <2> QED BY <2>5 DEF b
<1> QED BY <1>2, <1>3, <1>4, <1>5 DEF a

\* They are events.
LEMMA IrComing ==
  ASSUME NEW te \in X!Event, NEW rs \in Seq(X!Event)
  PROVE  /\ ComingOf(te, rs) \in Seq(X!Event)
         /\ rs # <<>> => /\ Gathered(te, rs) \in X!Event
                         /\ Gathered(te, rs).pulse = Head(rs).pulse
                         /\ EndedBy(te, rs) \in Seq(X!Event)
                         /\ <<Gathered(te, rs)>> \o Tail(rs) \in Seq(X!Event)
<1>1. CASE rs = <<>>
  BY <1>1 DEF ComingOf
<1>2. CASE rs # <<>>
  <2>1. Head(rs) \in X!Event /\ Tail(rs) \in Seq(X!Event)
    BY <1>2, HeadTailProperties
  <2>2. Gathered(te, rs) \in X!Event /\ Gathered(te, rs).pulse = Head(rs).pulse
    <3>1. /\ Head(rs).pulse \in BOOLEAN /\ Head(rs).duration \in Nat /\ te.duration \in Nat
      BY <2>1 DEF X!Event
    <3>2. Head(rs).duration + te.duration \in Nat
      BY <3>1
    <3>3. CASE te.duration # 0 /\ Head(rs).pulse = te.pulse
      <4>1. Gathered(te, rs) = X!Run(Head(rs).pulse, Head(rs).duration + te.duration)
        BY <3>3 DEF Gathered
      <4> QED BY <3>1, <3>2, <4>1 DEF X!Run, X!Event
    <3>4. CASE ~(te.duration # 0 /\ Head(rs).pulse = te.pulse)
      BY <2>1, <3>4 DEF Gathered
    <3> QED BY <3>3, <3>4
  <2>3. EndedBy(te, rs) \in Seq(X!Event)
    BY DEF EndedBy
  <2>4. <<Gathered(te, rs)>> \o Tail(rs) \in Seq(X!Event)
    BY <2>1, <2>2, FirstAndRest
  <2>5. EndedBy(te, rs) \o (<<Gathered(te, rs)>> \o Tail(rs)) \in Seq(X!Event)
    BY <2>3, <2>4, ConcatProperties
  <2> QED BY <1>2, <2>2, <2>3, <2>4, <2>5 DEF ComingOf
<1> QED BY <1>1, <1>2

\* A sample takes from them what it puts into the FIFO, and nothing else.
LEMMA IrTaken ==
  ASSUME NEW te \in X!Event, NEW rs \in Seq(X!Event), rs # <<>>,
         NEW n \in Nat, 0 < n, n <= Head(rs).duration,
         Tail(rs) # <<>> => Head(Tail(rs)).pulse # Head(rs).pulse
  PROVE  /\ Begun(te, rs, n) \in X!Event /\ Begun(te, rs, n).duration > 0
         /\ Begun(te, rs, n).pulse = Head(rs).pulse
         /\ Begun(te, rs, n).duration <= Gathered(te, rs).duration
         /\ Remaining(rs, n) \in Seq(X!Event) /\ Len(Remaining(rs, n)) <= Len(rs)
         /\ ComingOf(Begun(te, rs, n), Remaining(rs, n)) = <<Gathered(te, rs)>> \o Tail(rs)
<1> DEFINE m == Begun(te, rs, n)
           us == Remaining(rs, n)
<1>0. /\ m = (IF te.duration # 0 /\ Head(rs).pulse = te.pulse
               THEN X!Run(Head(rs).pulse, n + te.duration) ELSE X!Run(Head(rs).pulse, n))
      /\ us = (IF n = Head(rs).duration THEN Tail(rs)
                ELSE <<X!Run(Head(rs).pulse, Head(rs).duration - n)>> \o Tail(rs))
  BY DEF Begun, Remaining
<1> HIDE DEF m, us
<1> DEFINE run == Head(rs)
           rest == Tail(rs)
           E == Gathered(te, rs)
<1>1. /\ run \in X!Event /\ rest \in Seq(X!Event) /\ Len(rest) = Len(rs) - 1 /\ Len(rs) \in Nat
      /\ E \in X!Event
  BY HeadTailProperties, IrComing
<1> HIDE DEF run, rest
<1>2. /\ run.pulse \in BOOLEAN /\ run.duration \in Nat /\ te.duration \in Nat
      /\ run = X!Run(run.pulse, run.duration)
  BY <1>1 DEF X!Event, X!Run
<1>3. E = IF te.duration # 0 /\ run.pulse = te.pulse
          THEN X!Run(run.pulse, run.duration + te.duration) ELSE run
  BY DEF Gathered, run
<1> HIDE DEF E
<1>4. PICK k \in Nat : m = X!Run(run.pulse, n + k) /\ E = X!Run(run.pulse, run.duration + k)
  <2>1. CASE te.duration # 0 /\ run.pulse = te.pulse
    BY <1>0, <1>2, <1>3, <2>1 DEF run
  <2>2. CASE ~(te.duration # 0 /\ run.pulse = te.pulse)
    <3>1. n + 0 = n /\ run.duration + 0 = run.duration
      BY <1>2
    <3>2. m = X!Run(run.pulse, n + 0) /\ E = X!Run(run.pulse, run.duration + 0)
      BY <1>0, <1>2, <1>3, <2>2, <3>1 DEF run
    <3> QED BY <3>2
  <2> QED BY <2>1, <2>2
<1>5. \A b \in BOOLEAN, d \in Nat :
        X!Run(b, d) \in X!Event /\ X!Run(b, d).pulse = b /\ X!Run(b, d).duration = d
  BY DEF X!Run, X!Event
<1>6. /\ m \in X!Event /\ m.duration > 0 /\ m.pulse = run.pulse
      /\ m.duration = n + k /\ m.duration <= E.duration /\ E.duration = run.duration + k
  <2>1. n + k \in Nat /\ run.duration + k \in Nat /\ n + k > 0 /\ n <= run.duration
    BY <1>2 DEF run
  <2>2. n + k <= run.duration + k
    BY <1>2, <2>1
  <2> QED BY <1>2, <1>4, <1>5, <2>1, <2>2
<1>7. CASE n = run.duration
  <2>1. us = rest /\ m = E
    BY <1>0, <1>4, <1>7 DEF run, rest
  <2>2. ComingOf(m, us) = <<E>> \o rest
    <3>1. CASE rest = <<>>
      <4>1. ComingOf(m, us) = <<m>>
        <5>1. us = <<>>
          BY <2>1, <3>1
        <5>2. m.duration # 0
          <6>1. n + k # 0
            BY <1>4
          <6> QED BY <1>6, <6>1
        <5> QED BY <5>1, <5>2 DEF ComingOf
      <4>2. <<E>> \in Seq(X!Event)
        BY <1>1
      <4>3. <<E>> \o <<>> = <<E>>
        BY <4>2, ConcatEmptySeq
      <4> QED BY <2>1, <3>1, <4>1, <4>3
    <3>2. CASE rest # <<>>
      <4>1. Head(rest).pulse # m.pulse /\ m.duration # 0
        BY <1>6, <3>2 DEF run, rest
      <4>2. EndedBy(m, us) = <<m>> /\ Gathered(m, us) = Head(rest)
        BY <2>1, <4>1 DEF EndedBy, Gathered
      <4>3. <<Head(rest)>> \o Tail(rest) = rest
        BY <1>1, <3>2, FirstAndRest
      <4> QED BY <2>1, <3>2, <4>2, <4>3 DEF ComingOf
    <3> QED BY <3>1, <3>2
  <2>3. us \in Seq(X!Event) /\ Len(us) <= Len(rs)
    BY <1>1, <2>1
  <2> QED BY <1>6, <2>2, <2>3 DEF run, rest, E, m, us
<1>8. CASE n # run.duration
  <2> DEFINE x == X!Run(run.pulse, run.duration - n)
  <2>0. run.duration - n \in Nat /\ n <= run.duration
    BY <1>2 DEF run
  <2>1. /\ x \in X!Event /\ x.pulse = run.pulse /\ x.duration = run.duration - n
    BY <1>2, <1>5, <2>0
  <2>2. us = <<x>> \o rest
    BY <1>0, <1>8 DEF run, rest
  <2> HIDE DEF x
  <2>3. us \in Seq(X!Event) /\ Len(us) = Len(rest) + 1 /\ us # <<>> /\ Head(us) = x /\ Tail(us) = rest
    BY <1>1, <2>1, <2>2, FirstAndRest
  <2>4. EndedBy(m, us) = <<>> /\ Gathered(m, us) = E
    <3>1. Head(us).pulse = m.pulse /\ m.duration # 0
      BY <1>6, <2>1, <2>3
    <3>2. x.duration + m.duration = run.duration + k
      BY <1>2, <1>6, <2>1
    <3> QED BY <1>4, <2>1, <2>3, <3>1, <3>2 DEF EndedBy, Gathered
  <2>5. <<E>> \o rest \in Seq(X!Event)
    BY <1>1, FirstAndRest
  <2>6. ComingOf(m, us) = <<>> \o (<<E>> \o rest)
    BY <2>3, <2>4 DEF ComingOf
  <2>7. ComingOf(m, us) = <<E>> \o rest
    BY <2>5, <2>6, ConcatEmptySeq
  <2>8. us \in Seq(X!Event) /\ Len(us) <= Len(rs)
    BY <1>1, <2>3
  <2> QED BY <1>6, <2>7, <2>8 DEF run, rest, E, m, us
<1> QED BY <1>7, <1>8

-----------------------------------------------------------------------------
(* What is reported is what was sent.                                      *)

\* All that is on its way to the decoder, and all that is still to be reported.
Stream == kfifo \o ComingOf(this_ev, runs)
Announced == IF frame = NULL THEN owed ELSE Append(owed, frame)

\* The receiver puts an event together as long as it hears something.
Receiving ==
  /\ idle <=> this_ev.duration = 0
  /\ silent => runs = <<>> /\ idle /\ frame = NULL
  /\ ~silent => runs # <<>> \/ ~idle
  /\ idle /\ runs # <<>> => Head(runs).pulse
  /\ runs # <<>> => \A j \in 1..Len(runs) : runs[j].duration > 0

\* The decoder is before the first event of W, and a repeat may follow the last.
Heard(W) ==
  /\ W = <<>> => nec.state = "inactive" /\ (repeatable => nec.necx_repeat)
  /\ W # <<>> => DecoderAt(nec, W[1]) /\ (repeatable => Whole(W[Len(W)]) /\ W[Len(W)].x)

\* The frame on its way: its events are numbered from its end.
Flying(W) ==
  ~silent =>
    LET z == W[Len(W)] IN
    /\ frame = IF Whole(z) THEN z.what ELSE NULL
    /\ ~Whole(z) => Len(runs) <= 1
    /\ Whole(z) =>
         \A j \in Len(kfifo) + 1..Len(W) :
           /\ 2 * W[j].i + (IF W[j].space THEN 2 ELSE 1) + Len(W) = 2 * z.i + 2 + j
           /\ W[j].what = z.what /\ W[j].x = z.x /\ W[j].no = z.no

\* The thread looks at the FIFO again if something is in it.
Awake ==
  kfifo # <<>> => at_raw \in {"drain", "set", "check"} \/ (at_raw = "schedule" /\ runnable)

Followed ==
  /\ ~mistaken /\ Receiving
  /\ \E base, W : Marked(base, W, Stream, Announced) /\ Heard(W) /\ Flying(W)
IrInv == IrTyped /\ Awake /\ (~overflowed => Followed)

\* The sequences it speaks of.
LEMMA IrSequences ==
  ASSUME IrTyped
  PROVE  /\ ComingOf(this_ev, runs) \in Seq(X!Event) /\ Stream \in Seq(X!Event)
         /\ Announced \in Seq(X!Reports)
         /\ Len(Stream) = Len(kfifo) + Len(ComingOf(this_ev, runs))
         /\ \A j \in 1..Len(kfifo) : Stream[j] = kfifo[j]
         /\ \A j \in 1..Len(ComingOf(this_ev, runs)) :
              Stream[j + Len(kfifo)] = ComingOf(this_ev, runs)[j]
<1>1. /\ kfifo \in Seq(X!Event) /\ this_ev \in X!Event /\ runs \in Seq(X!Event)
      /\ owed \in Seq(X!Reports) /\ frame \in X!Reports \cup {NULL}
  BY DEF IrTyped, X!TypeOK
<1>2. ComingOf(this_ev, runs) \in Seq(X!Event)
  BY <1>1, IrComing
<1>3. Announced \in Seq(X!Reports)
  BY <1>1 DEF Announced
<1> DEFINE c == ComingOf(this_ev, runs)
<1> HIDE DEF c
<1>4. c \in Seq(X!Event) /\ kfifo \in Seq(X!Event)
  BY <1>1, <1>2 DEF c
<1>5. /\ kfifo \o c \in Seq(X!Event) /\ Len(kfifo \o c) = Len(kfifo) + Len(c)
      /\ \A j \in 1..Len(kfifo) : (kfifo \o c)[j] = kfifo[j]
      /\ \A j \in 1..Len(c) : (kfifo \o c)[j + Len(kfifo)] = c[j]
  BY <1>4, Joined
<1> QED BY <1>3, <1>4, <1>5 DEF Stream, c

\* Pulses and spaces alternate, and none but a pulse is too long.
LEMMA IrAlternate ==
  ASSUME NEW base, NEW W, NEW Y, NEW O, Marked(base, W, Y, O)
  PROVE  /\ \A j, k \in 1..Len(Y) : k = j + 1 => Y[j].pulse # Y[k].pulse
         /\ \A j \in 1..Len(Y) : /\ Y[j].pulse = ~W[j].space /\ W[j].space \in BOOLEAN
                                 /\ Y[j].duration > 0
                                 /\ W[j].space => Y[j].duration < RawTimeout
<1>1. /\ \A j \in 1..Len(Y) : Labelled(W[j]) /\ Y[j] = EventOf(W[j])
      /\ \A j, k \in 1..Len(Y) : k = j + 1 => Follows(W[j], W[k])
  BY DEF Marked
<1>2. \A j \in 1..Len(Y) : /\ Y[j].pulse = ~W[j].space /\ W[j].space \in BOOLEAN
                           /\ Y[j].duration > 0
                           /\ W[j].space => Y[j].duration < RawTimeout
  BY <1>1, IrEventOf
<1>3. ASSUME NEW j \in 1..Len(Y), NEW k \in 1..Len(Y), k = j + 1
      PROVE  Y[j].pulse # Y[k].pulse
  <2>1. Follows(W[j], W[k]) /\ (W[j].last => W[j].space)
    BY <1>1, <1>3 DEF Labelled
  <2>2. W[k].space = ~W[j].space
    <3>1. W[k].space \in BOOLEAN
      BY <1>2
    <3> QED BY <2>1, <3>1 DEF Follows
  <2> QED BY <1>2, <2>2
<1> QED BY <1>2, <1>3

\* Nothing is lost as long as there is room.
LEMMA IrStored ==
  ASSUME X!TypeOK, NEW s \in Seq(X!Event), X!Store(s), ~overflowed'
  PROVE  kfifo' = kfifo \o s
<1>1. kfifo' = kfifo \o SubSeq(s, 1, X!Smaller(Len(s), RawSize - Len(kfifo)))
      /\ overflowed' = (overflowed \/ Len(s) > RawSize - Len(kfifo))
  BY DEF X!Store
<1>2. RawSize - Len(kfifo) \in Nat /\ Len(s) \in Nat
  BY InfraredAssumption DEF X!TypeOK
<1>3. X!Smaller(Len(s), RawSize - Len(kfifo)) = Len(s)
  <2>1. PICK r \in Nat, n \in Nat : r = RawSize - Len(kfifo) /\ n = Len(s)
    BY <1>2
  <2>2. ~(n > r)
    BY <1>1, <2>1
  <2>3. n <= r
    BY <2>2
  <2> QED BY <2>1, <2>3 DEF X!Smaller
<1>4. SubSeq(s, 1, Len(s)) = s
  BY SubSeqFull
<1> QED BY <1>1, <1>3, <1>4

\* The steps of the interrupt handler wake the thread.
LEMMA IrWoken == ASSUME IrInv, X!Handle PROVE Awake'
BY DEF IrInv, IrTyped, X!TypeOK, X!Handle, Awake

\* When the stream is the same, so is what it stands for.
LEMMA IrSame ==
  ASSUME IrTyped, NEW base, NEW W, Marked(base, W, Stream, Announced),
         Heard(W), Stream' = Stream, Announced' = Announced, UNCHANGED <<nec, repeatable>>,
         mistaken' = FALSE, Receiving', Flying(W)'
  PROVE  Followed'
<1>1. Marked(base, W, Stream', Announced')
  OBVIOUS
<1>2. Heard(W)'
  BY DEF Heard
<1> QED BY <1>1, <1>2 DEF Followed

\* The receiver hands over a sample (hc_rc.c:66-93, rc-ir-raw.c:106-141).
LEMMA IrSampled ==
  ASSUME IrInv, ~overflowed, X!Sample, ~overflowed'
  PROVE  Followed'
<1>1. /\ X!TypeOK /\ this_ev \in X!Event /\ runs \in Seq(X!Event) /\ kfifo \in Seq(X!Event)
      /\ Receiving /\ mistaken = FALSE /\ runs # <<>> /\ this_ev.duration \in Nat
  BY DEF IrInv, IrTyped, X!TypeOK, Followed, X!Sample, X!Event
<1>2. PICK base, W : Marked(base, W, Stream, Announced) /\ Heard(W) /\ Flying(W)
  BY DEF IrInv, Followed
<1> DEFINE run == Head(runs)
           n == X!Smaller(run.duration, MaxSample)
           smp == X!Run(run.pulse, n)
           E == Gathered(this_ev, runs)
           pre == EndedBy(this_ev, runs)
           m == X!Merged(smp)
<1>3. run \in X!Event /\ run.duration \in Nat /\ run.duration > 0 /\ run = runs[1]
  <2>1. 1 \in 1..Len(runs) /\ run \in X!Event /\ run = runs[1]
    BY <1>1
  <2> QED BY <1>1, <2>1 DEF Receiving, X!Event
<1>4. n \in Nat /\ 0 < n /\ n <= run.duration
  BY <1>3, InfraredAssumption DEF X!Smaller
<1>5. /\ X!StoreWithFilter(smp) /\ X!Handle
      /\ runs' = IF n = run.duration THEN Tail(runs)
                 ELSE <<X!Run(run.pulse, run.duration - n)>> \o Tail(runs)
      /\ UNCHANGED <<frame, silent, repeatable, nec, owed, mistaken>>
  BY DEF X!Sample
<1> HIDE DEF n, run
<1>6. smp.pulse = run.pulse /\ smp.duration = n
  BY DEF X!Run
\* The stream around the first run.
<1>7. /\ E \in X!Event /\ E.pulse = run.pulse /\ pre \in Seq(X!Event)
      /\ <<E>> \o Tail(runs) \in Seq(X!Event) /\ Tail(runs) \in Seq(X!Event)
      /\ ComingOf(this_ev, runs) = pre \o (<<E>> \o Tail(runs))
  <2>1. ComingOf(this_ev, runs) = pre \o (<<E>> \o Tail(runs))
    BY <1>1 DEF ComingOf
  <2>2. Tail(runs) \in Seq(X!Event)
    BY <1>1, HeadTailProperties
  <2> QED BY <1>1, <2>1, <2>2, IrComing DEF run
<1> DEFINE p == Len(kfifo) + Len(pre)
           q == p + 1
<1>8. /\ p \in Nat /\ q \in 1..Len(Stream) /\ Stream[q] = E
      /\ Tail(runs) # <<>> => q + 1 \in 1..Len(Stream) /\ Stream[q + 1] = Head(Tail(runs))
  <2> DEFINE t == <<E>> \o Tail(runs)
             c == ComingOf(this_ev, runs)
  <2>1. /\ t \in Seq(X!Event) /\ Len(t) = Len(Tail(runs)) + 1 /\ t[1] = E
        /\ \A i \in 1..Len(Tail(runs)) : t[i + 1] = Tail(runs)[i]
    BY <1>7, FirstAndRest
  <2>2. c = pre \o t
    BY <1>7
  <2> HIDE DEF t, E, pre
  <2>3. t \in Seq(X!Event) /\ pre \in Seq(X!Event)
    BY <1>7, <2>1
  <2>4. Len(c) = Len(pre) + Len(t) /\ \A i \in 1..Len(t) : c[i + Len(pre)] = t[i]
    <3>1. /\ Len(pre \o t) = Len(pre) + Len(t)
          /\ \A i \in 1..Len(t) : (pre \o t)[i + Len(pre)] = t[i]
      BY <2>3, Joined
    <3> QED BY <2>2, <3>1
  <2>5. /\ Len(Stream) = Len(kfifo) + Len(c)
        /\ \A j \in 1..Len(c) : Stream[j + Len(kfifo)] = c[j]
    BY IrSequences DEF IrInv
  <2> HIDE DEF c
  <2>6. /\ Len(kfifo) \in Nat /\ Len(pre) \in Nat /\ Len(Tail(runs)) \in Nat
    BY <1>1, <1>7, <2>3
  <2>7. /\ 1 \in 1..Len(t) /\ 1 + Len(pre) \in 1..Len(c)
        /\ q = (1 + Len(pre)) + Len(kfifo) /\ q \in 1..Len(Stream) /\ p \in Nat
    BY <2>1, <2>4, <2>5, <2>6
  <2>8. Stream[q] = E
    BY <2>1, <2>4, <2>5, <2>7
  <2>9. ASSUME Tail(runs) # <<>>
        PROVE  q + 1 \in 1..Len(Stream) /\ Stream[q + 1] = Head(Tail(runs))
    <3>1. /\ 1 \in 1..Len(Tail(runs)) /\ 2 \in 1..Len(t) /\ 2 + Len(pre) \in 1..Len(c)
          /\ q + 1 = (2 + Len(pre)) + Len(kfifo) /\ q + 1 \in 1..Len(Stream)
      BY <1>7, <2>1, <2>4, <2>5, <2>6, <2>9
    <3>2. t[2] = Tail(runs)[1]
      <4>1. PICK i \in 1..Len(Tail(runs)) : i = 1
        BY <3>1
      <4>2. t[i + 1] = Tail(runs)[i]
        BY <2>1
      <4>3. i + 1 = 2
        BY <4>1
      <4> QED BY <4>1, <4>2, <4>3
    <3>3. Stream[q + 1] = t[2]
      BY <2>4, <2>5, <3>1
    <3>4. Head(Tail(runs)) = Tail(runs)[1]
      BY <1>7, <2>9
    <3> QED BY <3>1, <3>2, <3>3, <3>4
  <2> QED BY <2>7, <2>8, <2>9
<1> HIDE DEF p, E, pre
<1>9. /\ Tail(runs) # <<>> => Head(Tail(runs)).pulse # run.pulse
      /\ ~run.pulse => E.duration < RawTimeout
  <2>1. /\ \A j, k \in 1..Len(Stream) : k = j + 1 => Stream[j].pulse # Stream[k].pulse
        /\ \A j \in 1..Len(Stream) : /\ Stream[j].pulse = ~W[j].space /\ W[j].space \in BOOLEAN
                                     /\ Stream[j].duration > 0
                                     /\ W[j].space => Stream[j].duration < RawTimeout
    BY <1>2, IrAlternate
  <2>2. ~run.pulse => E.duration < RawTimeout
    BY <1>7, <1>8, <2>1
  <2>3. Tail(runs) # <<>> => Head(Tail(runs)).pulse # run.pulse
    BY <1>7, <1>8, <2>1
  <2> QED BY <2>2, <2>3
\* What becomes of it.
<1>10. m = IF this_ev.duration # 0 /\ run.pulse = this_ev.pulse
           THEN X!Run(run.pulse, n + this_ev.duration) ELSE smp
  BY <1>6 DEF X!Merged, X!Run
<1>11. /\ m \in X!Event /\ m.duration > 0 /\ m.pulse = run.pulse /\ m.duration <= E.duration
       /\ runs' \in Seq(X!Event) /\ Len(runs') <= Len(runs)
       /\ ComingOf(m, runs') = <<E>> \o Tail(runs)
  <2>1. m = Begun(this_ev, runs, n)
    BY <1>10 DEF Begun, run
  <2>2. runs' = Remaining(runs, n)
    BY <1>5 DEF Remaining, run
  <2> HIDE DEF m
  <2>3. /\ n \in Nat /\ 0 < n /\ n <= Head(runs).duration
        /\ Tail(runs) # <<>> => Head(Tail(runs)).pulse # Head(runs).pulse
    BY <1>4, <1>9 DEF run
  <2>4. /\ m \in X!Event /\ m.duration > 0 /\ m.pulse = Head(runs).pulse
        /\ m.duration <= Gathered(this_ev, runs).duration
        /\ runs' \in Seq(X!Event) /\ Len(runs') <= Len(runs)
        /\ ComingOf(m, runs') = <<Gathered(this_ev, runs)>> \o Tail(runs)
    BY <1>1, <2>1, <2>2, <2>3, IrTaken
  <2> QED BY <2>4 DEF run, E
<1> HIDE DEF m
<1>12. ~(idle /\ ~smp.pulse)
  BY <1>1, <1>6 DEF Receiving, run
<1>13. ~(~smp.pulse /\ m.duration >= RawTimeout)
  BY <1>6, <1>7, <1>9, <1>11, InfraredAssumption DEF X!Event
<1>14. X!Store(pre) /\ this_ev' = m /\ idle' = FALSE
  <2> DEFINE ended == this_ev.duration # 0 /\ smp.pulse # this_ev.pulse
             idles == ~smp.pulse /\ m.duration >= RawTimeout
  <2>1. /\ X!Store((IF ended THEN <<this_ev>> ELSE <<>>) \o IF idles THEN <<m>> ELSE <<>>)
        /\ this_ev' = (IF idles THEN X!NoEvent ELSE m)
        /\ idle' = idles
    BY <1>5, <1>12 DEF X!StoreWithFilter, m
  <2>2. pre = IF ended THEN <<this_ev>> ELSE <<>>
    BY <1>6 DEF pre, EndedBy, run
  <2>3. ~idles
    BY <1>13
  <2> HIDE DEF ended
  <2>4. pre \o <<>> = pre
    BY <1>7, ConcatEmptySeq
  <2>5. idles = FALSE
    BY <2>3
  <2> HIDE DEF idles
  <2> QED BY <2>1, <2>2, <2>4, <2>5
<1>15. kfifo' = kfifo \o pre
  BY <1>1, <1>7, <1>14, IrStored
<1>16. Stream' = Stream
  <2>1. Stream' = (kfifo \o pre) \o (<<E>> \o Tail(runs))
    BY <1>11, <1>14, <1>15 DEF Stream
  <2>2. Stream = kfifo \o (pre \o (<<E>> \o Tail(runs)))
    BY <1>7 DEF Stream
  <2>3. /\ kfifo \in Seq(X!Event) /\ pre \in Seq(X!Event) /\ <<E>> \o Tail(runs) \in Seq(X!Event)
    BY <1>1, <1>7
  <2> QED BY <2>1, <2>2, <2>3, ConcatAssociative
<1>17. Announced' = Announced
  BY <1>5 DEF Announced
<1>18. Receiving'
  <2>1. m.duration # 0
    BY <1>11 DEF X!Event
  <2>2. silent = FALSE
    BY <1>1 DEF Receiving, X!TypeOK
  <2>3. runs' # <<>> => \A j \in 1..Len(runs') : runs'[j].duration > 0
    <3>1. /\ Tail(runs) \in Seq(X!Event) /\ Len(Tail(runs)) = Len(runs) - 1
          /\ \A j \in 1..Len(Tail(runs)) : Tail(runs)[j] = runs[j + 1]
      BY <1>1, HeadTailProperties
    <3>2. \A j \in 1..Len(Tail(runs)) : Tail(runs)[j].duration > 0
      <4> SUFFICES ASSUME NEW j \in 1..Len(Tail(runs)) PROVE Tail(runs)[j].duration > 0
        OBVIOUS
      <4>1. j + 1 \in 1..Len(runs) /\ Tail(runs)[j] = runs[j + 1]
        BY <1>1, <3>1
      <4> QED BY <1>1, <4>1 DEF Receiving
    <3>3. CASE n = run.duration
      BY <1>5, <3>2, <3>3
    <3>4. CASE n # run.duration
      <4> DEFINE x == X!Run(run.pulse, run.duration - n)
      <4>1. x \in X!Event /\ x.duration > 0
        <5>1. run.duration - n \in Nat /\ run.duration - n > 0
          BY <1>3, <1>4, <3>4
        <5>2. run.pulse \in BOOLEAN
          BY <1>3 DEF X!Event
        <5> QED BY <5>1, <5>2 DEF X!Run, X!Event
      <4>2. runs' = <<x>> \o Tail(runs)
        BY <1>5, <3>4
      <4> HIDE DEF x
      <4>3. /\ Len(runs') = Len(Tail(runs)) + 1 /\ runs'[1] = x
            /\ \A i \in 1..Len(Tail(runs)) : runs'[i + 1] = Tail(runs)[i]
        BY <3>1, <4>1, <4>2, FirstAndRest
      <4>4. ASSUME NEW j \in 1..Len(runs') PROVE runs'[j].duration > 0
        <5>1. CASE j = 1
          BY <4>1, <4>3, <5>1
        <5>2. CASE j # 1
          <6>1. PICK i \in 1..Len(Tail(runs)) : j = i + 1
            <7>1. j - 1 \in 1..Len(Tail(runs)) /\ j = (j - 1) + 1
              BY <3>1, <4>3, <5>2
            <7> QED BY <7>1
          <6> QED BY <3>2, <4>3, <6>1
        <5> QED BY <5>1, <5>2
      <4> QED BY <4>4
    <3> QED BY <3>3, <3>4
  <2> QED BY <1>5, <1>14, <2>1, <2>2, <2>3 DEF Receiving
<1>19. Flying(W)'
  <2>1. Len(kfifo') >= Len(kfifo) /\ Len(kfifo) \in Nat /\ Len(kfifo') \in Nat
    <3>1. kfifo \in Seq(X!Event) /\ pre \in Seq(X!Event)
      BY <1>1, <1>7
    <3>2. Len(kfifo') = Len(kfifo) + Len(pre)
      BY <1>15, <3>1, ConcatProperties
    <3> QED BY <3>1, <3>2
  <2>2. /\ Len(W) \in Nat
        /\ \A j \in Len(kfifo') + 1..Len(W) : j \in Len(kfifo) + 1..Len(W)
    <3>1. Len(W) \in Nat
      BY <1>2 DEF Marked
    <3> QED BY <2>1, <3>1
  <2>3. Len(runs) <= 1 => Len(runs') <= 1
    BY <1>1, <1>11
  <2> QED BY <1>2, <1>5, <2>2, <2>3 DEF Flying
<1> QED BY <1>1, <1>2, <1>5, <1>16, <1>17, <1>18, <1>19, IrSame DEF IrInv

\* The receiver times out (hc_rc.c:80-86, rc-ir-raw.c:163-179).
LEMMA IrSettled ==
  ASSUME IrInv, ~overflowed, X!TimedOut, ~overflowed'
  PROVE  Followed'
<1>1. /\ X!TypeOK /\ this_ev \in X!Event /\ kfifo \in Seq(X!Event) /\ owed \in Seq(X!Reports)
      /\ Receiving /\ mistaken = FALSE
  BY DEF IrInv, IrTyped, X!TypeOK, Followed
<1>2. PICK base, W : Marked(base, W, Stream, Announced) /\ Heard(W) /\ Flying(W)
  BY DEF IrInv, Followed
<1>3. /\ runs = <<>> /\ ~silent /\ silent' = TRUE /\ X!Store(<<this_ev>>)
      /\ this_ev' = X!NoEvent /\ idle' = TRUE /\ frame' = NULL
      /\ owed' = (IF frame = NULL THEN owed ELSE Append(owed, frame))
      /\ UNCHANGED <<runs, repeatable, nec, mistaken>>
  BY DEF X!TimedOut
<1>4. this_ev'.duration = 0
  BY <1>3 DEF X!NoEvent, X!Run
<1>5. this_ev.duration # 0
  BY <1>1, <1>3 DEF Receiving
<1> DEFINE s == <<this_ev>>
<1>6. s \in Seq(X!Event) /\ s \o <<>> = s
  BY <1>1, ConcatEmptySeq
<1>7. kfifo' = kfifo \o s
  BY <1>1, <1>3, <1>6, IrStored
<1>8. Stream' = Stream
  <2>1. Stream = kfifo \o s
    BY <1>3, <1>5 DEF Stream, ComingOf
  <2> HIDE DEF s
  <2>2. Stream' = (kfifo \o s) \o <<>>
    BY <1>3, <1>4, <1>7 DEF Stream, ComingOf
  <2>3. kfifo \o s \in Seq(X!Event)
    BY <1>1, <1>6, ConcatProperties
  <2> QED BY <2>1, <2>2, <2>3, ConcatEmptySeq
<1>9. Announced' = Announced
  BY <1>3 DEF Announced
<1>10. Receiving'
  BY <1>3, <1>4 DEF Receiving
<1>11. Flying(W)'
  BY <1>3 DEF Flying
<1> QED BY <1>1, <1>2, <1>3, <1>8, <1>9, <1>10, <1>11, IrSame DEF IrInv

\* The remote control sends a frame (rc-core.h:255-285).
LEMMA IrSend ==
  ASSUME IrInv, ~overflowed, X!Send
  PROVE  Followed'
<1>1. /\ X!TypeOK /\ this_ev \in X!Event /\ kfifo \in Seq(X!Event) /\ owed \in Seq(X!Reports)
      /\ Receiving /\ mistaken = FALSE /\ idle \in BOOLEAN
  BY DEF IrInv, IrTyped, X!TypeOK, Followed
<1>2. PICK base, W : Marked(base, W, Stream, Announced) /\ Heard(W) /\ Flying(W)
  BY DEF IrInv, Followed
<1>3. PICK d \in Skew, x \in BOOLEAN, r \in X!Reports :
        /\ x /\ r = X!Rpt => repeatable
        /\ runs' = X!Skewed(IF r = X!Rpt THEN X!Repeat(x) ELSE X!Key(r, x), d) \o <<X!Silence>>
        /\ frame' = r /\ repeatable' = x
  BY DEF X!Send
<1>4. /\ silent /\ silent' = FALSE
      /\ UNCHANGED <<idle, this_ev, kfifo, nec, owed, mistaken>>
  BY DEF X!Send, X!receiver, X!thread
<1>5. d \in -1..1 /\ r # NULL /\ runs' = Sent(r, x, d)
  BY <1>3, InfraredAssumption DEF Sent, FrameOf
<1>6. runs = <<>> /\ idle /\ frame = NULL /\ this_ev.duration = 0
  BY <1>1, <1>4 DEF Receiving
<1>7. Stream = kfifo /\ Announced = owed
  <2>1. Stream = kfifo \o <<>>
    BY <1>6 DEF Stream, ComingOf
  <2> QED BY <1>1, <1>6, <2>1, ConcatEmptySeq DEF Announced
<1>8. PICK no, V : no = base + Len(owed) /\ V = W \o Marks(r, x, d, no)
  OBVIOUS
<1> DEFINE J == Marks(r, x, d, no)
           n == 2 * Pairs(r, x) + 2
           Z == Sent(r, x, d)
           a == Len(W)
<1>9. /\ W \in Seq(Labels) /\ a \in Nat /\ a = Len(kfifo) /\ no \in Nat /\ n \in Nat /\ n >= 4
      /\ W = <<>> => nec.state = "inactive" /\ (repeatable => nec.necx_repeat)
      /\ W # <<>> => DecoderAt(nec, W[1]) /\ (repeatable => Whole(W[a]) /\ W[a].x)
  <2>1. W \in Seq(Labels) /\ a \in Nat /\ a = Len(kfifo) /\ no \in Nat
    BY <1>1, <1>2, <1>7, <1>8 DEF Marked
  <2>2. Pairs(r, x) \in Nat \ {0}
    BY IrPairs
  <2> QED BY <1>2, <2>1, <2>2 DEF Heard
<1>10. /\ J \in Seq(Labels) /\ Z \in Seq(X!Event) /\ Len(J) = n /\ Len(Z) = n
      /\ \A j \in 1..n :
           /\ Labelled(J[j]) /\ Z[j] = EventOf(J[j])
           /\ J[j].what = r /\ J[j].x = x /\ J[j].d = d /\ J[j].no = no
           /\ (J[j].last <=> j = n) /\ (Whole(J[j]) <=> J[j].last)
           /\ 2 * J[j].i + (IF J[j].space THEN 2 ELSE 1) = j
  <2>1. no \in Nat
    BY <1>9
  <2>2. J \in Seq(Labels) /\ Z \in Seq(X!Event) /\ Len(J) = n /\ Len(Z) = n
    BY <1>5, <2>1, IrMarks
  <2>3. ASSUME NEW j \in 1..n
        PROVE  /\ Labelled(J[j]) /\ Z[j] = EventOf(J[j])
               /\ J[j].what = r /\ J[j].x = x /\ J[j].d = d /\ J[j].no = no
               /\ (J[j].last <=> j = n) /\ (Whole(J[j]) <=> J[j].last)
               /\ 2 * J[j].i + (IF J[j].space THEN 2 ELSE 1) = j
    BY <1>5, <2>1, IrMarks
  <2> HIDE DEF J, Z, n
  <2> QED BY <2>2, <2>3
<1>11. ASSUME NEW j \in 1..n
       PROVE  /\ J[j].i \in Nat /\ J[j].space \in BOOLEAN
              /\ Z[j].pulse = ~J[j].space /\ Z[j].duration > 0
  <2> HIDE DEF J, Z, n
  <2> QED BY <1>10, IrEventOf
<1>12. Marked(base, V, kfifo \o Z, Append(owed, r))
  <2>1. Marked(base, W, kfifo, owed)
    BY <1>2, <1>7
  <2>2. W # <<>> /\ r = X!Rpt /\ x => Whole(W[a]) /\ W[a].x
    BY <1>3, <1>9
  <2> QED BY <1>1, <1>5, <1>8, <2>1, <2>2, IrAppended
<1>13. V = W \o J
  BY <1>8
<1> HIDE DEF J, Z, n
<1>14. /\ Len(V) = a + n /\ V # <<>>
       /\ \A j \in 1..a : V[j] = W[j]
       /\ \A j \in 1..n : V[j + a] = J[j]
  <2>1. W \in Seq(Labels) /\ J \in Seq(Labels)
    BY <1>9, <1>10
  <2>2. /\ V \in Seq(Labels) /\ Len(V) = a + n
        /\ \A j \in 1..a : V[j] = W[j]
        /\ \A j \in 1..n : V[j + a] = J[j]
    BY <1>10, <1>13, <2>1, Joined
  <2>3. Len(V) > 0
    BY <1>9, <2>2
  <2> QED BY <2>2, <2>3
<1>15. V[Len(V)] = J[n] /\ Whole(J[n]) /\ J[n].what = r /\ J[n].x = x /\ J[n].no = no
       /\ 2 * J[n].i + 2 = n
  <2>1. n \in 1..n /\ Len(V) = n + a
    BY <1>9, <1>14
  <2>2. J[n].last /\ J[n].space /\ Labelled(J[n])
    BY <1>10, <2>1 DEF Labelled
  <2> QED BY <1>10, <1>14, <2>1, <2>2
<1>16. J[1].i = 0 /\ ~J[1].space /\ J[1].what = r /\ J[1].x = x
  <2>1. 1 \in 1..n
    BY <1>9
  <2>2. /\ 2 * J[1].i + (IF J[1].space THEN 2 ELSE 1) = 1
        /\ J[1].i \in Nat /\ J[1].space \in BOOLEAN /\ J[1].what = r /\ J[1].x = x
    BY <1>10, <1>11, <2>1
  <2>3. ~J[1].space
    BY <2>2
  <2> QED BY <2>2, <2>3
<1>17. Heard(V)'
  <2>1. DecoderAt(nec, V[1])
    <3>1. CASE W # <<>>
      <4>1. 1 \in 1..a
        BY <1>9, <3>1
      <4> QED BY <1>9, <1>14, <3>1, <4>1
    <3>2. CASE W = <<>>
      <4>1. a = 0 /\ 1 + a = 1 /\ 1 \in 1..n
        BY <1>9, <3>2
      <4>2. V[1] = J[1]
        BY <1>14, <4>1
      <4> QED BY <1>3, <1>9, <1>16, <3>2, <4>2 DEF DecoderAt
    <3> QED BY <3>1, <3>2
  <2> QED BY <1>3, <1>4, <1>14, <1>15, <2>1 DEF Heard
<1>18. Flying(V)'
  <2>1. ASSUME NEW j \in a + 1..Len(V)
        PROVE  /\ 2 * V[j].i + (IF V[j].space THEN 2 ELSE 1) + Len(V) = 2 * J[n].i + 2 + j
               /\ V[j].what = J[n].what /\ V[j].x = J[n].x /\ V[j].no = J[n].no
    <3>1. PICK i \in 1..n : j = i + a
      <4>1. j - a \in 1..n /\ j = (j - a) + a
        BY <1>9, <1>14
      <4> QED BY <4>1
    <3>2. V[j] = J[i]
      BY <1>14, <3>1
    <3>3. 2 * V[j].i + (IF V[j].space THEN 2 ELSE 1) = i
      BY <1>10, <3>2
    <3> QED BY <1>9, <1>10, <1>14, <1>15, <3>1, <3>2, <3>3
  <2>2. Len(kfifo') = a
    BY <1>4, <1>9
  <2>3. \A j \in Len(kfifo') + 1..Len(V) :
          /\ 2 * V[j].i + (IF V[j].space THEN 2 ELSE 1) + Len(V) = 2 * J[n].i + 2 + j
          /\ V[j].what = J[n].what /\ V[j].x = J[n].x /\ V[j].no = J[n].no
    BY <2>1, <2>2
  <2> QED BY <1>3, <1>15, <2>3 DEF Flying
<1>19. /\ Head(Z) = Z[1] /\ Z # <<>> /\ <<Head(Z)>> \o Tail(Z) = Z
       /\ Z[1].pulse /\ \A j \in 1..Len(Z) : Z[j].duration > 0
  <2>1. Z # <<>> /\ 1 \in 1..n
    BY <1>9, <1>10
  <2>2. <<Head(Z)>> \o Tail(Z) = Z /\ Head(Z) \in X!Event
    <3>1. Head(Z) \in X!Event
      BY <1>10, <2>1, HeadTailProperties
    <3> QED BY <1>10, <2>1, <3>1, FirstAndRest
  <2>3. Z[1].pulse
    BY <1>11, <1>16, <2>1
  <2> QED BY <1>10, <1>11, <2>1, <2>2, <2>3
<1>20. Receiving'
  BY <1>4, <1>5, <1>6, <1>19 DEF Receiving, Z
<1>21. Stream' = kfifo \o Z /\ Announced' = Append(owed, r)
  <2>1. ComingOf(this_ev, Z) = <<>> \o Z
    BY <1>6, <1>19 DEF ComingOf, EndedBy, Gathered
  <2>2. ComingOf(this_ev, Z) = Z
    BY <1>10, <2>1, ConcatEmptySeq
  <2>3. Stream' = kfifo \o ComingOf(this_ev, Z)
    BY <1>4, <1>5 DEF Stream, Z
  <2> QED BY <1>3, <1>4, <1>5, <2>2, <2>3 DEF Announced
<1>22. Marked(base, V, Stream', Announced')
  BY <1>12, <1>21
<1> QED BY <1>1, <1>4, <1>17, <1>18, <1>20, <1>22 DEF Followed

\* As long as something is heard, an event is still to come.
LEMMA IrOnAir ==
  ASSUME IrTyped, Receiving, ~silent
  PROVE  ComingOf(this_ev, runs) # <<>>
<1>1. this_ev \in X!Event /\ runs \in Seq(X!Event)
  BY DEF IrTyped, X!TypeOK
<1>2. CASE runs = <<>>
  <2>1. this_ev.duration # 0
    BY <1>2 DEF Receiving
  <2>2. ComingOf(this_ev, runs) = <<this_ev>>
    BY <1>2, <2>1 DEF ComingOf
  <2> QED BY <1>1, <2>2
<1>3. CASE runs # <<>>
  <2> DEFINE t == <<Gathered(this_ev, runs)>> \o Tail(runs)
             p == EndedBy(this_ev, runs)
  <2>1. t \in Seq(X!Event) /\ p \in Seq(X!Event) /\ t # <<>>
    <3>1. Gathered(this_ev, runs) \in X!Event /\ Tail(runs) \in Seq(X!Event)
      BY <1>1, <1>3, IrComing, HeadTailProperties
    <3> QED BY <1>1, <1>3, <3>1, IrComing, FirstAndRest
  <2>2. ComingOf(this_ev, runs) = p \o t
    BY <1>3 DEF ComingOf
  <2> HIDE DEF p, t
  <2> QED BY <2>1, <2>2, ConcatEqualIffEmpty
<1> QED BY <1>2, <1>3

\* The light is cut off.
LEMMA IrCut ==
  ASSUME IrInv, ~overflowed, X!Cut
  PROVE  Followed'
<1>1. /\ X!TypeOK /\ this_ev \in X!Event /\ kfifo \in Seq(X!Event) /\ owed \in Seq(X!Reports)
      /\ runs \in Seq(X!Event) /\ Receiving /\ mistaken = FALSE /\ idle \in BOOLEAN
      /\ frame \in X!Reports \cup {NULL} /\ IrTyped
  BY DEF IrInv, IrTyped, X!TypeOK, Followed
<1>2. PICK base, W : Marked(base, W, Stream, Announced) /\ Heard(W) /\ Flying(W)
  BY DEF IrInv, Followed
<1>3. /\ Len(runs) > 1 /\ Len(runs) # 2 * X!Bits - 1 /\ this_ev.pulse /\ ~Head(runs).pulse
      /\ runs' = <<X!Silence>> /\ frame' = NULL /\ repeatable' = FALSE
      /\ UNCHANGED <<silent, idle, this_ev, kfifo, nec, owed, mistaken>>
  BY DEF X!Cut, X!receiver, X!thread
<1>4. /\ runs # <<>> /\ silent = FALSE /\ idle = FALSE /\ this_ev.duration # 0
      /\ this_ev.pulse # Head(runs).pulse
  <2>1. runs # <<>>
    BY <1>1, <1>3
  <2>2. ~silent
    BY <1>1, <2>1 DEF Receiving
  <2> QED BY <1>1, <1>3, <2>1, <2>2 DEF Receiving, X!TypeOK
<1> DEFINE a == Len(kfifo)
           c == a + 2
           z == W[Len(W)]
\* The stream ends with the pulse and the runs behind it.
<1>5. /\ W \in Seq(Labels) /\ Len(W) = a + 1 + Len(runs) /\ a \in Nat /\ Len(runs) \in Nat
      /\ c \in 2..Len(W) /\ Stream \in Seq(X!Event) /\ Len(Stream) = Len(W)
      /\ Stream[a + 1] = this_ev /\ Stream[c] = Head(runs)
      /\ \A j \in 1..a : Stream[j] = kfifo[j]
  <2> DEFINE u == <<this_ev>> \o runs
  <2>1. ComingOf(this_ev, runs) = u
    <3>1. EndedBy(this_ev, runs) = <<this_ev>> /\ Gathered(this_ev, runs) = Head(runs)
      BY <1>4 DEF EndedBy, Gathered
    <3>2. <<Head(runs)>> \o Tail(runs) = runs
      BY <1>1, <1>4, FirstAndRest
    <3> QED BY <1>4, <3>1, <3>2 DEF ComingOf
  <2>2. /\ Len(u) = Len(runs) + 1 /\ u[1] = this_ev
        /\ \A i \in 1..Len(runs) : u[i + 1] = runs[i]
    BY <1>1, FirstAndRest
  <2>3. /\ Stream \in Seq(X!Event) /\ Len(Stream) = a + Len(u)
        /\ \A j \in 1..a : Stream[j] = kfifo[j]
        /\ \A j \in 1..Len(u) : Stream[j + a] = u[j]
    BY <1>1, <2>1, IrSequences
  <2> HIDE DEF u
  <2>4. W \in Seq(Labels) /\ Len(W) = Len(Stream)
    BY <1>2 DEF Marked
  <2>5. a \in Nat /\ Len(runs) \in Nat /\ Len(runs) >= 2
    BY <1>1, <1>3
  <2>6. Stream[a + 1] = this_ev
    <3>1. 1 \in 1..Len(u) /\ a + 1 = 1 + a
      BY <2>2, <2>5
    <3> QED BY <2>2, <2>3, <3>1
  <2>7. Stream[c] = Head(runs)
    <3>1. PICK i \in 1..Len(runs) : i = 1
      BY <2>5
    <3>2. u[i + 1] = runs[i]
      BY <2>2
    <3>3. i + 1 \in 1..Len(u) /\ (i + 1) + a = c
      BY <2>2, <2>5, <3>1
    <3>4. Stream[c] = u[i + 1]
      BY <2>3, <3>3
    <3> QED BY <1>1, <1>4, <3>1, <3>2, <3>4
  <2> QED BY <2>2, <2>3, <2>4, <2>5, <2>6, <2>7
\* The frame is whole, and so cut off before its end.
<1>6. /\ Whole(z) /\ frame = z.what /\ frame # NULL
      /\ \A j \in a + 1..Len(W) :
           /\ 2 * W[j].i + (IF W[j].space THEN 2 ELSE 1) + Len(W) = 2 * z.i + 2 + j
           /\ W[j].what = z.what /\ W[j].x = z.x /\ W[j].no = z.no
  <2>1. /\ frame = (IF Whole(z) THEN z.what ELSE NULL)
        /\ ~Whole(z) => Len(runs) <= 1
        /\ Whole(z) => \A j \in a + 1..Len(W) :
             /\ 2 * W[j].i + (IF W[j].space THEN 2 ELSE 1) + Len(W) = 2 * z.i + 2 + j
             /\ W[j].what = z.what /\ W[j].x = z.x /\ W[j].no = z.no
    BY <1>2, <1>4 DEF Flying
  <2> HIDE DEF z
  <2>2. Whole(z)
    BY <1>3, <1>5, <2>1
  <2>3. z.what # NULL
    <3>1. Len(W) \in 1..Len(W)
      BY <1>5
    <3>2. Labelled(z)
      BY <1>2, <3>1 DEF Marked, z
    <3> QED BY <3>2, IrEventOf, InfraredAssumption
  <2> QED BY <2>1, <2>2, <2>3
<1>7. /\ Labelled(W[c]) /\ Labelled(z) /\ W[c].space /\ W[c].i \in Nat /\ z.i \in Nat
  <2>1. c \in 1..Len(W) /\ Len(W) \in 1..Len(W)
    BY <1>5
  <2>2. Labelled(W[c]) /\ Labelled(z) /\ Stream[c] = EventOf(W[c])
    BY <1>2, <2>1 DEF Marked
  <2> HIDE DEF c, z
  <2>3. W[c].space \in BOOLEAN /\ EventOf(W[c]).pulse = ~W[c].space /\ W[c].i \in Nat /\ z.i \in Nat
    BY <2>2, IrEventOf
  <2> QED BY <1>3, <1>5, <2>2, <2>3
<1>8. /\ 2 * W[c].i + 2 + Len(W) = 2 * z.i + 2 + c
      /\ W[c].what = z.what /\ W[c].x = z.x /\ W[c].no = z.no
  <2>1. c \in a + 1..Len(W)
    BY <1>5
  <2> HIDE DEF c, z
  <2> QED BY <1>6, <1>7, <2>1
<1>9. 2 * W[c].i + Len(runs) = 2 * z.i + 1
  <2>1. PICK i \in Nat, y \in Nat, r \in Nat, k \in Nat :
           i = W[c].i /\ y = z.i /\ r = Len(runs) /\ k = a
    BY <1>5, <1>7
  <2>2. PICK n \in Nat : n = Len(W) /\ n = k + 1 + r
    BY <1>5, <2>1
  <2>3. 2 * i + 2 + n = 2 * y + 2 + (k + 2)
    BY <1>8, <2>1, <2>2
  <2>4. 2 * i + r = 2 * y + 1
    BY <2>2, <2>3
  <2> QED BY <2>1, <2>4
<1>10. PairsOf(W[c]) = z.i /\ PairsOf(W[c]) = IF z.what # X!Rpt THEN X!Bits + 1 ELSE IF z.x THEN 2 ELSE 1
  <2>1. PairsOf(W[c]) = PairsOf(z)
    BY <1>8 DEF PairsOf
  <2>2. PairsOf(z) = z.i
    BY <1>6 DEF Whole
  <2>3. PairsOf(z) = IF z.what # X!Rpt THEN X!Bits + 1 ELSE IF z.x THEN 2 ELSE 1
    BY DEF PairsOf, Pairs
  <2> QED BY <2>1, <2>2, <2>3
<1>11. W[c].i < z.i
  BY <1>3, <1>5, <1>7, <1>9
<1>12. ~W[c].last
  <2>1. W[c].last => W[c].i = PairsOf(W[c]) \/ W[c].i # 2
    BY <1>7 DEF Labelled
  <2>2. CASE W[c].last
    <3>1. EventOf(W[c]) = X!Silence
      BY <2>2 DEF EventOf
    <3>2. PICK j \in 1..Len(W) : j = c + 1
      <4>1. c + 1 \in 1..Len(W)
        BY <1>3, <1>5
      <4> QED BY <4>1
    <3>3. Follows(W[c], W[j]) /\ j \in a + 1..Len(W) /\ c \in 1..Len(W)
      BY <1>2, <1>5, <3>2 DEF Marked
    <3>4. W[j].i = 0 /\ ~W[j].space
      BY <2>2, <3>3 DEF Follows
    <3>5. 2 * W[j].i + (IF W[j].space THEN 2 ELSE 1) + Len(W) = 2 * z.i + 2 + j
      BY <1>6, <3>3
    <3>6. 1 + Len(W) = 2 * z.i + 2 + j
      BY <3>4, <3>5
    <3>7. PICK i \in Nat : i = W[c].i
      BY <1>7
    <3>8. PICK y \in Nat : y = z.i
      BY <1>7
    <3>9. PICK n \in Nat : n = Len(W)
      BY <1>3
    <3>10. PICK k \in Nat : k = c
      <4>1. c \in Nat
        BY <1>3
      <4> HIDE DEF c
      <4> QED BY <4>1
    <3> HIDE DEF c, z
    <3>11. 2 * i + 2 + n = 2 * y + 2 + k
      BY <1>8, <3>7, <3>8, <3>9, <3>10
    <3>12. 1 + n = 2 * y + 2 + (k + 1)
      BY <3>2, <3>6, <3>8, <3>9, <3>10
    <3>13. FALSE
      BY <3>11, <3>12
    <3> QED BY <3>13
  <2> QED BY <2>2
<1>13. W[c].i # 2
  <2> SUFFICES ASSUME W[c].i = 2 PROVE FALSE
    OBVIOUS
  <2>1. X!Bits \in Nat
    BY IrBits
  <2>2. z.what # X!Rpt
    BY <1>10, <1>11
  <2>3. z.i = X!Bits + 1
    BY <1>10, <2>2
  <2>4. 4 + Len(runs) = 2 * (X!Bits + 1) + 1
    BY <1>9, <2>3
  <2> QED BY <1>3, <1>5, <2>1, <2>4
<1>14. W[c].no = base + Len(owed) /\ base \in Nat
  <2>1. base \in Nat /\ W # <<>> /\ z.no + Weight(z) = base + Len(Announced)
    <3>1. W # <<>>
      BY <1>5
    <3> QED BY <1>2, <3>1 DEF Marked
  <2>2. Weight(z) = 1
    BY <1>6 DEF Weight
  <2>3. Len(Announced) = Len(owed) + 1 /\ Len(owed) \in Nat
    <3>1. Announced = Append(owed, frame) /\ frame \in X!Reports
      BY <1>1, <1>6 DEF Announced
    <3> QED BY <1>1, <3>1, AppendProperties
  <2>4. z.no \in Nat
    BY <1>7, IrEventOf
  <2> HIDE DEF z
  <2> QED BY <1>8, <2>1, <2>2, <2>3, <2>4
\* What is left of it.
<1>15. PICK V : V = CutOff(W, c)
  OBVIOUS
<1> DEFINE Q == SubSeq(Stream, 1, c - 1) \o <<X!Silence>>
<1>16. /\ Marked(base, V, Q, owed) /\ Len(V) = c /\ ~Whole(V[c])
       /\ V = SubSeq(W, 1, c - 1) \o <<[W[c] EXCEPT !.last = TRUE]>>
  <2>1. Announced = Append(owed, frame) /\ frame \in X!Reports
    BY <1>1, <1>6 DEF Announced
  <2>2. Marked(base, W, Stream, Append(owed, frame))
    BY <1>2, <2>1
  <2>3. PICK k \in 2..Len(W) : k = c
    BY <1>5
  <2>4. W[k].space /\ ~W[k].last /\ W[k].i # 2 /\ W[k].no = base + Len(owed)
    BY <1>7, <1>12, <1>13, <1>14, <2>3
  <2>5. Stream \in Seq(X!Event) /\ owed \in Seq(X!Reports)
    BY <1>1, <1>5
  <2>6. /\ Marked(base, CutOff(W, k), SubSeq(Stream, 1, k - 1) \o <<X!Silence>>, owed)
        /\ Len(CutOff(W, k)) = k /\ ~Whole(CutOff(W, k)[k])
    <3> HIDE DEF a, c, z
    <3> QED BY <2>1, <2>2, <2>4, <2>5, IrCutOff
  <2>7. CutOff(W, k) = SubSeq(W, 1, k - 1) \o <<[W[k] EXCEPT !.last = TRUE]>>
    BY DEF CutOff
  <2> HIDE DEF a
  <2> QED BY <1>15, <2>3, <2>6, <2>7
<1>17. Q = Stream'
  <2>1. SubSeq(Stream, 1, c - 1) = Append(kfifo, this_ev)
    <3> DEFINE s == SubSeq(Stream, 1, c - 1)
               t == Append(kfifo, this_ev)
    <3>1. PICK y \in Int : y = c - 1 /\ y = a + 1
      BY <1>5
    <3>2. \A i \in 1..y : Stream[i] \in X!Event
      BY <1>5, <3>1
    <3>3. /\ SubSeq(Stream, 1, y) \in Seq(X!Event) /\ Len(SubSeq(Stream, 1, y)) = y
          /\ \A i \in 1..y : SubSeq(Stream, 1, y)[i] = Stream[i]
      BY <1>5, <3>1, <3>2, SubSeqProperties
    <3>4. /\ t \in Seq(X!Event) /\ Len(t) = a + 1 /\ t[a + 1] = this_ev
          /\ \A i \in 1..a : t[i] = kfifo[i]
      BY <1>1, AppendProperties
    <3> HIDE DEF t
    <3>5. ASSUME NEW i \in 1..y PROVE Stream[i] = t[i]
      <4>1. i \in 1..a \/ i = a + 1
        BY <1>5, <3>1
      <4> QED BY <1>5, <3>4, <4>1
    <3>6. SubSeq(Stream, 1, y) = t
      <4> DEFINE v == SubSeq(Stream, 1, y)
      <4>1. v \in Seq(X!Event) /\ Len(v) = Len(t) /\ \A i \in 1..Len(v) : v[i] = t[i]
        BY <3>1, <3>3, <3>4, <3>5
      <4> HIDE DEF v
      <4>2. v = t
        BY <3>4, <4>1, SeqEqual
      <4> QED BY <4>2 DEF v
    <3> QED BY <3>1, <3>6 DEF t
  <2>2. X!Silence \in X!Event /\ X!Silence.pulse = FALSE
    BY InfraredAssumption DEF X!Silence, X!Run, X!Event
  <2> DEFINE e == <<this_ev>>
             y == <<X!Silence>>
  <2>3. Append(kfifo, this_ev) = kfifo \o e
    BY <1>1, AppendIsConcat
  <2>4. ComingOf(this_ev, y) = e \o y
    <3>1. y # <<>> /\ Head(y) = X!Silence /\ Tail(y) = <<>> /\ y \in Seq(X!Event)
      BY <2>2
    <3> HIDE DEF y
    <3>2. EndedBy(this_ev, y) = <<this_ev>> /\ Gathered(this_ev, y) = X!Silence
      BY <1>3, <1>4, <2>2, <3>1 DEF EndedBy, Gathered
    <3>3. <<X!Silence>> \o <<>> = y
      BY <3>1, ConcatEmptySeq DEF y
    <3> QED BY <3>1, <3>2, <3>3 DEF ComingOf
  <2>5. Stream' = kfifo \o (e \o y)
    BY <1>3, <2>4 DEF Stream
  <2>6. Q = (kfifo \o e) \o y
    BY <2>1, <2>3
  <2>7. kfifo \in Seq(X!Event) /\ e \in Seq(X!Event) /\ y \in Seq(X!Event)
    BY <1>1, <2>2
  <2> HIDE DEF e, y, Q
  <2> QED BY <2>5, <2>6, <2>7, ConcatAssociative
<1>18. Announced' = owed
  BY <1>3 DEF Announced
<1>19. Marked(base, V, Stream', Announced')
  BY <1>16, <1>17, <1>18
<1>20. Receiving'
  <2>1. runs' # <<>> /\ Len(runs') = 1 /\ runs'[1] = X!Silence /\ X!Silence.duration > 0
    <3>1. X!Silence \in X!Event /\ X!Silence.duration > 0
      BY InfraredAssumption DEF X!Silence, X!Run, X!Event, X!Unit
    <3> QED BY <1>3, <3>1
  <2>2. \A j \in 1..Len(runs') : runs'[j].duration > 0
    BY <2>1
  <2> QED BY <1>3, <1>4, <2>1, <2>2 DEF Receiving
<1>21. Flying(V)'
  <2>1. Len(runs') <= 1 /\ frame' = NULL
    BY <1>3
  <2> QED BY <1>16, <2>1 DEF Flying
<1>22. Heard(V)'
  <2>1. V # <<>> /\ V[1] = W[1] /\ W # <<>>
    <3> DEFINE t == SubSeq(W, 1, c - 1)
    <3>1. PICK y \in Int : y = c - 1 /\ y = a + 1 /\ y >= 1
      BY <1>5
    <3>2. \A i \in 1..y : W[i] \in Labels
      BY <1>5, <3>1
    <3>3. /\ SubSeq(W, 1, y) \in Seq(Labels) /\ Len(SubSeq(W, 1, y)) = y
          /\ \A i \in 1..y : SubSeq(W, 1, y)[i] = W[1 + i - 1]
      BY <3>1, <3>2, SubSeqProperties
    <3>4. t \in Seq(Labels) /\ Len(t) >= 1 /\ t[1] = W[1]
      BY <3>1, <3>3
    <3> HIDE DEF t
    <3>5. [W[c] EXCEPT !.last = TRUE] \in Labels
      BY <1>7 DEF Labelled, Labels
    <3> DEFINE w == <<[W[c] EXCEPT !.last = TRUE]>>
    <3>6. w \in Seq(Labels) /\ V = t \o w
      BY <1>16, <3>5 DEF t
    <3> HIDE DEF w
    <3>7. \A i \in 1..Len(t) : (t \o w)[i] = t[i]
      BY <3>4, <3>6, Joined
    <3>8. V[1] = t[1]
      <4>1. 1 \in 1..Len(t)
        BY <3>4
      <4> QED BY <3>6, <3>7, <4>1
    <3>9. V # <<>> /\ W # <<>>
      BY <1>5, <1>16
    <3> QED BY <3>4, <3>8, <3>9
  <2>2. DecoderAt(nec, W[1])
    BY <1>2, <2>1 DEF Heard
  <2> QED BY <1>3, <2>1, <2>2 DEF Heard
<1> QED BY <1>1, <1>3, <1>19, <1>20, <1>21, <1>22 DEF Followed

\* The thread decodes an event (rc-ir-raw.c:32-69).
LEMMA IrDecode ==
  ASSUME IrInv, ~overflowed, X!Decode
  PROVE  Followed'
<1>1. /\ X!TypeOK /\ this_ev \in X!Event /\ kfifo \in Seq(X!Event) /\ owed \in Seq(X!Reports)
      /\ runs \in Seq(X!Event) /\ Receiving /\ mistaken = FALSE /\ Decoding(nec) /\ IrTyped
      /\ frame \in X!Reports \cup {NULL}
  BY DEF IrInv, IrTyped, X!TypeOK, Followed
<1>2. PICK base, W : Marked(base, W, Stream, Announced) /\ Heard(W) /\ Flying(W)
  BY DEF IrInv, Followed
<1>3. PICK h, t : h = Head(kfifo) /\ t = Tail(kfifo)
  OBVIOUS
<1>4. /\ kfifo # <<>> /\ kfifo' = t /\ nec' = X!Decoded(h)
      /\ X!Reported(h) = NULL => UNCHANGED <<owed, mistaken>>
      /\ X!Reported(h) # NULL =>
           /\ mistaken' = (mistaken \/ owed = <<>> \/ X!Reported(h) # Head(owed))
           /\ owed' = IF owed = <<>> THEN owed ELSE Tail(owed)
      /\ UNCHANGED <<runs, frame, silent, repeatable, idle, this_ev>>
  BY <1>3 DEF X!Decode, X!air, X!receiver
\* The event is the first of the stream.
<1>5. PICK c, Y, a : c = ComingOf(this_ev, runs) /\ Y = Stream /\ a = Announced
  OBVIOUS
<1>6. /\ Y \in Seq(X!Event) /\ a \in Seq(X!Reports) /\ c \in Seq(X!Event)
      /\ Len(Y) = Len(kfifo) + Len(c) /\ h \in X!Event /\ t \in Seq(X!Event)
      /\ Len(kfifo) \in Nat /\ Len(kfifo) >= 1 /\ Len(c) \in Nat /\ Len(t) = Len(kfifo) - 1
  <2>1. Y \in Seq(X!Event) /\ a \in Seq(X!Reports) /\ c \in Seq(X!Event)
        /\ Len(Y) = Len(kfifo) + Len(c)
    BY <1>1, <1>5, IrSequences
  <2>2. h \in X!Event /\ t \in Seq(X!Event) /\ Len(t) = Len(kfifo) - 1
    BY <1>1, <1>3, <1>4, HeadTailProperties
  <2>3. Len(kfifo) \in Nat /\ Len(kfifo) >= 1
    BY <1>1, <1>4
  <2> QED BY <2>1, <2>2, <2>3
<1>7. Y # <<>> /\ Y[1] = h /\ Stream' = Tail(Y)
  <2>1. kfifo = <<h>> \o t
    BY <1>1, <1>3, <1>4, <1>6, FirstAndRest
  <2> DEFINE u == <<h>>
  <2>2. u \in Seq(X!Event)
    BY <1>6
  <2> HIDE DEF u
  <2>3. Y = (u \o t) \o c
    BY <1>5, <2>1 DEF Stream, u
  <2>4. Y = u \o (t \o c)
    <3>1. u \in Seq(X!Event) /\ t \in Seq(X!Event) /\ c \in Seq(X!Event)
      BY <1>6, <2>2
    <3>2. (u \o t) \o c = u \o (t \o c)
      BY <3>1, ConcatAssociative
    <3> QED BY <2>3, <3>2
  <2>5. t \o c \in Seq(X!Event)
    BY <1>6, ConcatProperties
  <2>6. PICK v : v = t \o c
    OBVIOUS
  <2>7. Y = <<h>> \o v /\ v \in Seq(X!Event)
    BY <2>4, <2>5, <2>6 DEF u
  <2>8. Y # <<>> /\ Y[1] = h /\ Tail(Y) = v
    BY <1>6, <2>7, FirstAndRest
  <2>9. Stream' = v
    BY <1>4, <1>5, <2>6 DEF Stream
  <2> QED BY <2>8, <2>9
<1>8. Marked(base, W, Y, a)
  BY <1>2, <1>5
<1>9. /\ W \in Seq(Labels) /\ Len(W) = Len(Y) /\ W # <<>> /\ Len(W) \in Nat /\ Len(W) >= 1
      /\ base \in Nat
  <2>1. W \in Seq(Labels) /\ Len(W) = Len(Y) /\ base \in Nat
    BY <1>8 DEF Marked
  <2> QED BY <1>6, <2>1
<1>10. PICK l, z, V : l = W[1] /\ z = W[Len(W)] /\ V = Tail(W)
  OBVIOUS
<1>11. /\ Labelled(l) /\ h = EventOf(l) /\ DecoderAt(nec, l)
       /\ z.last /\ z.no + Weight(z) = base + Len(a) /\ Labelled(z)
       /\ repeatable => Whole(z) /\ z.x
  <2>1. 1 \in 1..Len(W) /\ Len(W) \in 1..Len(W)
    BY <1>9
  <2>2. Labelled(l) /\ h = EventOf(l) /\ Labelled(z)
    BY <1>7, <1>8, <1>10, <2>1 DEF Marked
  <2>3. z.last /\ z.no + Weight(z) = base + Len(a)
    BY <1>8, <1>9, <1>10 DEF Marked
  <2> QED BY <1>2, <1>9, <1>10, <2>2, <2>3 DEF Heard
<1>12. /\ V \in Seq(Labels) /\ Len(V) = Len(W) - 1
       /\ \A j \in 1..Len(W) - 1 : V[j] = W[j + 1]
       /\ V # <<>> => Len(W) >= 2 /\ V[1] = W[2] /\ V[Len(V)] = z
       /\ V = <<>> => l = z
  <2>1. /\ V \in Seq(Labels) /\ Len(V) = Len(W) - 1
        /\ \A j \in 1..Len(W) - 1 : V[j] = W[j + 1]
    BY <1>9, <1>10, HeadTailProperties
  <2>2. ASSUME V # <<>> PROVE Len(W) >= 2 /\ V[1] = W[2] /\ V[Len(V)] = z
    <3>1. Len(W) >= 2
      BY <1>9, <2>1, <2>2
    <3>2. PICK i \in 1..Len(W) - 1, j \in 1..Len(W) - 1 :
             i = 1 /\ i + 1 = 2 /\ j = Len(V) /\ j + 1 = Len(W)
      BY <1>9, <2>1, <3>1
    <3>3. V[i] = W[i + 1] /\ V[j] = W[j + 1]
      BY <2>1
    <3> QED BY <1>10, <3>1, <3>2, <3>3
  <2>3. ASSUME V = <<>> PROVE l = z
    <3>1. Len(W) = 1
      BY <1>9, <2>1, <2>3
    <3> QED BY <1>10, <3>1
  <2> QED BY <2>1, <2>2, <2>3
\* It is decoded for what it stands for.
<1>13. X!Reported(h) = (IF Whole(l) THEN l.what ELSE NULL) /\ Heard(V)'
  <2>1. CASE V = <<>>
    <3>1. l.last /\ (repeatable => Whole(l) /\ l.x)
      BY <1>11, <1>12, <2>1
    <3>2. /\ X!Reported(h) = IF Whole(l) THEN l.what ELSE NULL
          /\ X!Decoded(h).state = "inactive"
          /\ Whole(l) /\ l.x => X!Decoded(h).necx_repeat
      BY <1>1, <1>11, <3>1, IrSilence
    <3> QED BY <1>4, <2>1, <3>1, <3>2 DEF Heard
  <2>2. CASE V # <<>>
    <3>1. PICK m : m = W[2] /\ m = V[1]
      BY <1>12, <2>2
    <3>2. 1 \in 1..Len(W) /\ 2 \in 1..Len(W) /\ 2 = 1 + 1
      BY <1>9, <1>12, <2>2
    <3>3. Labelled(m) /\ Follows(l, m)
      BY <1>8, <1>10, <3>1, <3>2 DEF Marked
    <3>4. /\ DecoderAt(X!Decoded(h), m)
          /\ X!Reported(h) = IF Whole(l) THEN l.what ELSE NULL
      BY <1>1, <1>11, <3>3, IrEvent
    <3>5. DecoderAt(nec', V[1]) /\ (repeatable' => Whole(V[Len(V)]) /\ V[Len(V)].x)
      BY <1>4, <1>11, <1>12, <2>2, <3>1, <3>4
    <3>6. Heard(V)'
      BY <2>2, <3>5 DEF Heard
    <3> QED BY <3>4, <3>6
  <2> QED BY <2>1, <2>2
<1>14. /\ Whole(l) => a # <<>> /\ Head(a) = l.what /\ Marked(base + 1, V, Tail(Y), Tail(a))
       /\ ~Whole(l) => Marked(base, V, Tail(Y), a)
  BY <1>6, <1>7, <1>8, <1>10, IrDropped
\* While a frame is heard there is more to come.
<1>15. ~silent => Len(W) >= 2
  <2>1. ~silent => c # <<>>
    BY <1>1, <1>5, IrOnAir
  <2>2. c # <<>> => Len(c) >= 1
    BY <1>6
  <2> QED BY <1>6, <1>9, <2>1, <2>2
\* A whole frame is reported, but not before it has been heard to its end.
<1>16. Whole(l) => owed # <<>>
  <2> SUFFICES ASSUME Whole(l), owed = <<>> PROVE FALSE
    OBVIOUS
  <2>1. frame # NULL /\ a = Append(owed, frame) /\ a # <<>>
    BY <1>5, <1>14 DEF Announced
  <2>2. ~silent
    BY <1>1, <2>1 DEF Receiving
  <2>3. Whole(z)
    BY <1>2, <1>10, <2>1, <2>2 DEF Flying
  <2>4. Len(a) = 1
    <3>1. frame \in X!Reports
      BY <1>1, <2>1
    <3>2. Len(a) = Len(owed) + 1 /\ Len(owed) = 0
      BY <1>1, <2>1, <3>1, AppendProperties
    <3> QED BY <3>2
  <2>5. Weight(z) = 1 /\ Weight(l) = 1
    BY <2>3 DEF Weight
  <2>6. PICK k \in 1..Len(W), i \in 1..Len(W) : k = Len(W) /\ i = 1 /\ i < k
    BY <1>9, <1>15, <2>2
  <2>7. W[i].no + Weight(W[i]) <= W[k].no /\ base <= W[i].no
    BY <1>8, <2>6 DEF Marked
  <2>8. l.no + 1 <= z.no /\ base <= l.no /\ z.no + 1 = base + 1
    BY <1>10, <1>11, <2>4, <2>5, <2>6, <2>7
  <2>9. l.no \in Nat /\ z.no \in Nat
    BY <1>11, IrEventOf
  <2> QED BY <1>9, <2>8, <2>9
<1>17. l.what # NULL
  BY <1>11, IrEventOf, InfraredAssumption
<1>18. mistaken' = FALSE /\ \E b : Marked(b, V, Stream', Announced')
  <2>1. CASE Whole(l)
    <3>1. X!Reported(h) = l.what /\ owed # <<>>
      BY <1>13, <1>16, <2>1
    <3>2. owed' = Tail(owed) /\ mistaken' = (l.what # Head(owed))
      BY <1>1, <1>4, <1>17, <3>1
    <3>3. Head(owed) = Head(a) /\ Announced' = Tail(a)
      <4>1. CASE frame = NULL
        <5>1. a = owed /\ Announced' = owed'
          BY <1>4, <1>5, <4>1 DEF Announced
        <5> QED BY <3>2, <5>1
      <4>2. CASE frame # NULL
        <5>1. a = Append(owed, frame) /\ Announced' = Append(Tail(owed), frame)
          BY <1>4, <1>5, <3>2, <4>2 DEF Announced
        <5>2. frame \in X!Reports
          BY <1>1, <4>2
        <5>3. Head(Append(owed, frame)) = Head(owed)
              /\ Tail(Append(owed, frame)) = Append(Tail(owed), frame)
          BY <1>1, <3>1, <5>2, HeadTailAppend
        <5> QED BY <5>1, <5>3
      <4> QED BY <4>1, <4>2
    <3>4. mistaken' = FALSE
      BY <1>14, <2>1, <3>2, <3>3
    <3>5. Marked(base + 1, V, Stream', Announced')
      BY <1>7, <1>14, <2>1, <3>3
    <3> QED BY <3>4, <3>5
  <2>2. CASE ~Whole(l)
    <3>1. UNCHANGED <<owed, mistaken>>
      BY <1>4, <1>13, <2>2
    <3>2. Announced' = a
      BY <1>4, <1>5, <3>1 DEF Announced
    <3>3. Marked(base, V, Stream', Announced')
      BY <1>7, <1>14, <2>2, <3>2
    <3> QED BY <1>1, <3>1, <3>3
  <2> QED BY <2>1, <2>2
<1>19. Receiving'
  BY <1>1, <1>4 DEF Receiving
<1>20. Flying(V)'
  <2> SUFFICES ASSUME ~silent
               PROVE  /\ frame = IF Whole(z) THEN z.what ELSE NULL
                      /\ ~Whole(z) => Len(runs) <= 1
                      /\ Whole(z) =>
                           \A j \in Len(t) + 1..Len(V) :
                             /\ 2 * V[j].i + (IF V[j].space THEN 2 ELSE 1) + Len(V) = 2 * z.i + 2 + j
                             /\ V[j].what = z.what /\ V[j].x = z.x /\ V[j].no = z.no
    <3>1. ~silent => V[Len(V)] = z
      <4>1. ~silent => V # <<>>
        BY <1>9, <1>12, <1>15
      <4> QED BY <1>12, <4>1
    <3> QED BY <1>4, <3>1 DEF Flying
  <2>1. /\ frame = IF Whole(z) THEN z.what ELSE NULL
        /\ ~Whole(z) => Len(runs) <= 1
        /\ Whole(z) =>
             \A j \in Len(kfifo) + 1..Len(W) :
               /\ 2 * W[j].i + (IF W[j].space THEN 2 ELSE 1) + Len(W) = 2 * z.i + 2 + j
               /\ W[j].what = z.what /\ W[j].x = z.x /\ W[j].no = z.no
    BY <1>2, <1>10 DEF Flying
  <2>2. ASSUME Whole(z), NEW j \in Len(t) + 1..Len(V)
        PROVE  /\ 2 * V[j].i + (IF V[j].space THEN 2 ELSE 1) + Len(V) = 2 * z.i + 2 + j
               /\ V[j].what = z.what /\ V[j].x = z.x /\ V[j].no = z.no
    <3>1. PICK k \in Len(kfifo) + 1..Len(W) : k = j + 1
      <4>1. j + 1 \in Len(kfifo) + 1..Len(W)
        BY <1>6, <1>9, <1>12
      <4> QED BY <4>1
    <3>2. V[j] = W[k]
      <4>1. j \in 1..Len(W) - 1
        BY <1>6, <1>9, <1>12
      <4> QED BY <1>12, <3>1, <4>1
    <3>3. /\ 2 * W[k].i + (IF W[k].space THEN 2 ELSE 1) + Len(W) = 2 * z.i + 2 + k
          /\ W[k].what = z.what /\ W[k].x = z.x /\ W[k].no = z.no
      BY <2>1, <2>2
    <3>4. W[k].i \in Nat /\ z.i \in Nat
      <4>1. Labelled(W[k])
        <5>1. k \in 1..Len(W)
          BY <1>6, <1>9
        <5> QED BY <1>8, <5>1 DEF Marked
      <4> QED BY <1>11, <4>1, IrEventOf
    <3>5. PICK p \in {1, 2} : p = IF W[k].space THEN 2 ELSE 1
      OBVIOUS
    <3>6. 2 * W[k].i + p + (Len(W) - 1) = 2 * z.i + 2 + j
      <4>1. PICK x \in Nat, y \in Nat, n \in Nat : x = W[k].i /\ y = z.i /\ n = Len(W)
        BY <1>9, <3>4
      <4>2. 2 * x + p + n = 2 * y + 2 + (j + 1)
        BY <3>1, <3>3, <3>5, <4>1
      <4>3. 2 * x + p + (n - 1) = 2 * y + 2 + j
        BY <4>2
      <4> QED BY <4>1, <4>3
    <3>7. 2 * V[j].i + (IF V[j].space THEN 2 ELSE 1) + Len(V) = 2 * z.i + 2 + j
      BY <1>12, <3>2, <3>5, <3>6
    <3> QED BY <3>2, <3>3, <3>7
  <2> QED BY <2>1, <2>2
<1>21. ~mistaken'
  BY <1>18
<1>22. PICK b : Marked(b, V, Stream', Announced')
  BY <1>18
<1>23. Marked(b, V, Stream, Announced)' /\ Heard(V)' /\ Flying(V)'
  BY <1>13, <1>20, <1>22
<1> QED BY <1>19, <1>21, <1>23 DEF Followed

\* A thread that sleeps was not needed (rc-ir-raw.c:32-69).
LEMMA IrAwake == IrInv /\ [X!Next]_IrVars => Awake'
<1> SUFFICES ASSUME IrInv, [X!Next]_IrVars PROVE Awake'
  OBVIOUS
<1>1. X!TypeOK /\ Awake
  BY DEF IrInv, IrTyped
<1>2. CASE UNCHANGED IrVars \/ X!Ended
  BY <1>1, <1>2 DEF IrVars, X!Ended, X!vars, X!air, X!receiver, X!thread, Awake
<1>3. CASE X!Send \/ X!Cut
  BY <1>1, <1>3 DEF X!Send, X!Cut, X!thread, Awake
<1>4. CASE X!Sample \/ X!TimedOut
  BY <1>4, IrWoken DEF X!Sample, X!TimedOut
<1>5. CASE X!Decode
  <2>1. at_raw' = at_raw /\ at_raw = "drain"
    BY <1>5 DEF X!Decode, X!thread
  <2> QED BY <2>1 DEF Awake
<1>6. CASE X!Drained \/ X!Declare \/ X!Check \/ X!Schedule
  BY <1>1, <1>6 DEF X!Drained, X!Declare, X!Check, X!Schedule, X!TypeOK, Awake
<1> QED BY <1>2, <1>3, <1>4, <1>5, <1>6 DEF X!Next

\* Nothing is sent at first.
LEMMA IrInvInit == X!Init => IrInv
<1> SUFFICES ASSUME X!Init PROVE IrInv
  OBVIOUS
<1>1. IrTyped /\ Awake
  BY IrTypedInit DEF X!Init, Awake
<1>2. /\ runs = <<>> /\ idle /\ silent /\ frame = NULL /\ this_ev.duration = 0 /\ mistaken = FALSE
      /\ kfifo = <<>> /\ owed = <<>> /\ nec.state = "inactive" /\ repeatable = FALSE
  BY DEF X!Init, X!NoEvent, X!Run
<1>3. Receiving
  BY <1>2 DEF Receiving
<1>4. Stream = <<>> /\ Announced = <<>>
  <2>1. Stream = <<>> \o <<>>
    BY <1>2 DEF Stream, ComingOf
  <2>2. <<>> \in Seq(X!Event)
    OBVIOUS
  <2> QED BY <1>2, <2>1, <2>2, ConcatEmptySeq DEF Announced
<1>5. Marked(0, <<>>, <<>>, <<>>)
  BY DEF Marked
<1>6. Heard(<<>>) /\ Flying(<<>>)
  BY <1>2 DEF Heard, Flying
<1>7. Followed
  BY <1>2, <1>3, <1>4, <1>5, <1>6 DEF Followed
<1> QED BY <1>1, <1>7 DEF IrInv

\* Every step of who sends, receives and decodes.
LEMMA IrInvNext == IrInv /\ [X!Next]_IrVars => IrInv'
<1> SUFFICES ASSUME IrInv, [X!Next]_IrVars PROVE IrInv'
  OBVIOUS
<1>1. IrTyped' /\ Awake'
  BY IrTypedNext, IrAwake DEF IrInv
<1>2. ASSUME ~overflowed' PROVE Followed'
  <2>1. overflowed' = overflowed
        /\ UNCHANGED <<runs, frame, silent, repeatable, idle, this_ev, kfifo, nec, owed, mistaken>>
        => Followed'
    <3> SUFFICES ASSUME overflowed' = overflowed,
                        UNCHANGED <<runs, frame, silent, repeatable, idle, this_ev, kfifo, nec,
                                    owed, mistaken>>
                 PROVE  Followed'
      OBVIOUS
    <3>1. Followed
      BY <1>2 DEF IrInv
    <3>2. PICK base, W : Marked(base, W, Stream, Announced) /\ Heard(W) /\ Flying(W)
      BY <3>1 DEF Followed
    <3>3. Stream' = Stream /\ Announced' = Announced
      BY DEF Stream, Announced
    <3>4. Receiving' /\ Flying(W)' /\ mistaken' = FALSE
      BY <3>1, <3>2 DEF Followed, Receiving, Flying, IrInv, IrTyped, X!TypeOK
    <3> QED BY <3>2, <3>3, <3>4, IrSame DEF IrInv
  <2>2. CASE UNCHANGED IrVars \/ X!Ended
    BY <2>1, <2>2 DEF IrVars, X!Ended, X!vars, X!air, X!receiver, X!thread
  <2>3. CASE ~overflowed /\ (X!Send \/ X!Cut \/ X!Sample \/ X!TimedOut \/ X!Decode)
    BY <1>2, <2>3, IrSend, IrCut, IrSampled, IrSettled, IrDecode
  <2>4. CASE X!Drained \/ X!Declare \/ X!Check \/ X!Schedule
    BY <2>1, <2>4 DEF X!Drained, X!Declare, X!Check, X!Schedule, X!air, X!receiver
  <2> QED BY <2>2, <2>3, <2>4 DEF X!Next
<1> QED BY <1>1, <1>2 DEF IrInv

\* What the invariant of the receiver promises.
LEMMA IrHolds == IrInv => X!ReportsWhatIsSent /\ X!SentIsReported
<1> SUFFICES ASSUME IrInv PROVE X!ReportsWhatIsSent /\ X!SentIsReported
  OBVIOUS
<1>1. X!ReportsWhatIsSent
  BY DEF IrInv, Followed, X!ReportsWhatIsSent
<1>2. ASSUME at_raw = "asleep" PROVE kfifo = <<>>
  BY <1>2 DEF IrInv, Awake
<1>3. ASSUME ~overflowed, kfifo = <<>>, silent PROVE owed = <<>>
  <2>1. Receiving
    BY <1>3 DEF IrInv, Followed
  <2>2. PICK base, W : Marked(base, W, Stream, Announced)
    BY <1>3 DEF IrInv, Followed
  <2>3. runs = <<>> /\ this_ev.duration = 0 /\ frame = NULL
    BY <1>3, <2>1 DEF Receiving
  <2>4. Stream = <<>>
    <3>1. Stream = <<>> \o <<>>
      BY <1>3, <2>3 DEF Stream, ComingOf
    <3>2. <<>> \in Seq(X!Event)
      OBVIOUS
    <3> QED BY <3>1, <3>2, ConcatEmptySeq
  <2>5. W \in Seq(Labels) /\ Len(W) = 0 /\ (W = <<>> => Announced = <<>>)
    BY <2>2, <2>4 DEF Marked
  <2> QED BY <2>3, <2>5 DEF Announced
<1> QED BY <1>1, <1>2, <1>3 DEF X!SentIsReported

\* Every frame that was sent whole is reported, once and in order, as what it was, and no
\* other is, for any codes, samples and interleaving of the receiver with the thread that
\* decodes, as long as the FIFO has room (rc-ir-raw.c:32-179, ir-nec-decoder.c:41-171).
THEOREM SpecFramesReported == Spec => []FramesReported
<1>1. Init => IrInv
  BY IrInvInit DEF Init
<1>2. IrInv /\ [Next]_vars => IrInv'
  BY OneMoves, IrInvNext
<1>3. IrInv => FramesReported
  BY IrHolds DEF FramesReported
<1> QED BY <1>1, <1>2, <1>3, PTL DEF Spec

-----------------------------------------------------------------------------
(* The whole board.                                                        *)

\* The FIFO of the I2C controller is no deeper than it is.
I2cBounds ==
  Len(rfifo) <= FifoDepth /\ i2c_done \in BOOLEAN /\ result \in {"none", "ok", "error"}

LEMMA I2cBounded == I2cInv /\ I2cBounds /\ [B!Next]_I2cVars => I2cBounds'
<1> SUFFICES ASSUME I2cInv, I2cBounds, [B!Next]_I2cVars PROVE I2cBounds'
  OBVIOUS
<1>1. rfifo \in Seq(1..Long) /\ Len(rfifo) \in Nat /\ FifoDepth \in Nat /\ ridx \in Nat /\ rlen \in Nat
  BY DriversAssumption DEF I2cInv, I2cType, B!Lens
<1>2. CASE UNCHANGED I2cVars
  BY <1>2 DEF I2cVars, I2cBounds
<1>3. CASE \E t \in Tasks : B!Lock(t) \/ B!HostBusy(t) \/ \E k \in B!Kinds : B!SetFlag(t, k)
  BY <1>3 DEF B!Lock, B!HostBusy, B!SetFlag, B!hw, I2cBounds
<1>4. CASE B!Reader
  <2>1. i2c_done' \in BOOLEAN /\ result' \in {"none", "ok", "error"}
    BY <1>4 DEF B!Reader, B!Start, B!Ready, B!TryAgain, B!GiveUp, B!Waited, B!Rest, B!RestEnds,
                B!Poll, B!PollEnds, B!Return, I2cBounds
  <2>2. rfifo' = <<>> \/ rfifo' = rfifo \/ (rfifo # <<>> /\ rfifo' = Tail(rfifo))
    BY <1>4 DEF B!Reader, B!Start, B!Ready, B!TryAgain, B!GiveUp, B!Waited, B!Rest, B!RestEnds,
                B!Poll, B!PollEnds, B!Take, B!hw
  <2>3. Len(rfifo') <= FifoDepth
    BY <1>1, <2>2 DEF I2cBounds
  <2> QED BY <2>1, <2>3 DEF I2cBounds
<1>5. CASE B!Arrive
  <2>1. Len(rfifo) < FifoDepth /\ rfifo' = Append(rfifo, came') /\ UNCHANGED <<i2c_done, result>>
    BY <1>5 DEF B!Arrive
  <2>2. Len(Append(rfifo, came')) = Len(rfifo) + 1
    BY <1>1
  <2> QED BY <1>1, <2>1, <2>2 DEF I2cBounds
<1>6. CASE B!Isr
  <2> DEFINE n == IF Len(rfifo) < rlen - ridx THEN Len(rfifo) ELSE rlen - ridx
  <2>1. /\ ridx <= rlen /\ rfifo' = SubSeq(rfifo, n + 1, Len(rfifo))
        /\ i2c_done' = (i2c_done \/ ridx' = rlen) /\ result' = result
    BY <1>6 DEF B!Isr
  <2>2. n \in 0..Len(rfifo)
    BY <1>1, <2>1
  <2> HIDE DEF n
  <2>3. Len(SubSeq(rfifo, n + 1, Len(rfifo))) = Len(rfifo) - n
    BY <1>1, <2>2, SubSeqProperties
  <2>4. Len(rfifo') <= FifoDepth
    BY <1>1, <2>1, <2>2, <2>3 DEF I2cBounds
  <2> QED BY <2>1, <2>4 DEF I2cBounds
<1> QED BY <1>2, <1>3, <1>4, <1>5, <1>6 DEF B!Next

\* What the drivers rest on, with the bounds and types that hold after a mishap too.
BoardInv ==
  /\ which \in Names
  /\ NotifierInv /\ SndInv /\ DiskInv /\ InputInv /\ RcInv /\ KeymapInv /\ KeymapAsked
  /\ Inv /\ AdcBounds /\ Len(isrs) <= MaxIsr
  /\ TxInv /\ RxInv /\ RxLife /\ I2cInv /\ I2cBounds /\ FilesTyped /\ BchInv /\ FtlInv /\ IrTyped

LEMMA BoardInit == Init => BoardInv
<1> SUFFICES ASSUME Init PROVE BoardInv
  OBVIOUS
<1>1. which \in Names /\ NotifierInv /\ SndInv
  BY NotifierInit, SndInit DEF Init
<1>2. /\ DiskInv /\ InputInv /\ RcInv /\ KeymapInv /\ Inv
      /\ TxInv /\ RxInv /\ RxLife /\ I2cInv
  BY DiskInit, InputInit, RcInit, KeymapInit, RegistriesInit, TxInit, RxInit, RxLifeInit, I2cInit
  DEF Init
<1>3. FilesTyped /\ BchInv /\ FtlInv /\ IrTyped
  BY FilesTypedInit, BchInit, FtlInit, IrTypedInit DEF Init
<1>4. AdcBounds
  BY DriversAssumption DEF Init, C!Init, AdcBounds
<1>5. Len(isrs) <= MaxIsr
  BY DriversAssumption DEF Init, G!Init
<1>6. I2cBounds
  <2>1. rfifo = <<>> /\ i2c_done \in BOOLEAN /\ result = "none"
    BY DEF Init, B!Init
  <2> QED BY <2>1, DriversAssumption DEF I2cBounds
<1>7. KeymapAsked
  BY DEF Init, K!Init, KeymapAsked
<1> QED BY <1>1, <1>2, <1>3, <1>4, <1>5, <1>6, <1>7 DEF BoardInv

LEMMA BoardNext == BoardInv /\ [Next]_vars => BoardInv'
<1> SUFFICES ASSUME BoardInv, [Next]_vars PROVE BoardInv'
  OBVIOUS
<1>1. which' \in Names /\ NotifierInv' /\ SndInv'
  BY OneMoves, CallbacksNext DEF BoardInv
<1>2. DiskInv' /\ Inv' /\ I2cInv'
  BY DiskNext, RegistriesNext, I2cNext DEF BoardInv
<1>3. /\ InputInv' /\ RcInv' /\ KeymapInv' /\ KeymapAsked'
      /\ TxInv' /\ RxInv' /\ RxLife' /\ BchInv' /\ FtlInv'
  BY OneMoves, InputNext, RcNext, KeymapNext, KeymapRequests, TxNext, RxNext, RxLifeNext, BchNext,
     FtlNext
  DEF BoardInv
<1>4. AdcBounds' /\ I2cBounds' /\ FilesTyped' /\ IrTyped'
  BY OneMoves, AdcBounded, I2cBounded, FilesTypedNext, IrTypedNext DEF BoardInv
<1>5. (Len(isrs) <= MaxIsr)'
  BY OneMoves, GpioBounded DEF BoardInv, Inv
<1> QED BY <1>1, <1>2, <1>3, <1>4, <1>5 DEF BoardInv

\* The types follow.
LEMMA BoardTypes == BoardInv => TypeOK
<1> SUFFICES ASSUME BoardInv PROVE TypeOK
  OBVIOUS
<1>1. N!TypeOK /\ S!TypeOK /\ A!TypeOK
  BY NotifierHolds DEF BoardInv, SndInv, DiskInv, DiskType
<1>2. I!TypeOK /\ R!TypeOK /\ K!TypeOK
  BY InputHolds, KeymapHolds DEF BoardInv, RcInv
<1>3. D!TypeOK /\ M!TypeOK
  BY DEF BoardInv, Inv, IdsInv, IdsTypes, D!TypeOK, ModulesInv
<1>4. G!TypeOK
  <2>1. G!NoRepeat(chain)
    BY DEF BoardInv, Inv, GpioInv, NoRepeat, G!NoRepeat
  <2> QED BY <2>1 DEF BoardInv, Inv, GpioInv, G!TypeOK
<1>5. C!TypeOK
  BY DEF BoardInv, Inv, AdcInv, AdcBounds, C!TypeOK
<1>6. T!TypeOK /\ U!TypeOK
  BY TxHolds, RxHolds DEF BoardInv
<1>7. B!TypeOK
  BY DEF BoardInv, I2cInv, I2cType, I2cBounds, B!TypeOK
<1>8. F!TypeOK /\ X!TypeOK
  BY DEF BoardInv, FilesTyped, IrTyped
<1>9. H!TypeOK /\ L!TypeOK
  BY BchHolds, FtlHolds DEF BoardInv
<1> QED BY <1>1, <1>2, <1>3, <1>4, <1>5, <1>6, <1>7, <1>8, <1>9 DEF BoardInv, TypeOK

\* Every variable of every driver stays in its type, its indices within their buffers,
\* its counters within their bounds and its bits within a frame, for any values of the
\* constants and after a mishap as well: an overrun ring, a FIFO that dropped events, a
\* mount pulled away, an ADC opened twice (uart.c:340-396, rc-ir-raw.c:32-179,
\* fs_umount.c:56-207, adc.c:129-228).
THEOREM SpecTypeOK == Spec => []TypeOK
BY BoardInit, BoardNext, BoardTypes, PTL DEF Spec
=============================================================================
