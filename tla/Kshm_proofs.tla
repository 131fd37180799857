---------------------------- MODULE Kshm_proofs ----------------------------
(***************************************************************************)
(* Proofs about Kshm, for any buffer, rounding and record sizes.           *)
(***************************************************************************)
EXTENDS Kshm, Integers, SequenceTheorems, TLAPS

Aligned(p) == \E k \in Nat : p = Align * k

-----------------------------------------------------------------------------
(* Offsets and lines.                                                      *)

LEMMA Division ==
  ASSUME NEW x \in Nat, NEW a \in Nat \ {0}
  PROVE  x \div a \in Nat /\ a * (x \div a) <= x /\ x < a * (x \div a) + a
  OBVIOUS

LEMMA Cancels ==
  ASSUME NEW m \in Int, NEW n \in Int, NEW a \in Nat \ {0}
  PROVE  /\ a * m < a * n => m < n
         /\ a * m <= a * n => m <= n
         /\ m <= n => a * m <= a * n
  OBVIOUS

LEMMA NextMultiple ==
  ASSUME NEW m \in Nat, NEW n \in Nat, NEW a \in Nat \ {0}, m < n
  PROVE  a * m + a <= a * n
  OBVIOUS

LEMMA RoundupIs ==
  ASSUME NEW s \in Sizes
  PROVE  Roundup(s) \in Nat /\ s <= Roundup(s) /\ Roundup(s) < Size /\ Aligned(Roundup(s))
<1> DEFINE d == (s + Align - 1) \div Align
<1>1. s \in Nat \ {0} /\ Align \in Nat \ {0} /\ Roundup(s) < Size
  BY KshmAssumption
<1>2. d \in Nat /\ s + Align - 1 < Align * d + Align
  BY <1>1, Division
<1> HIDE DEF d
<1>3. Roundup(s) = Align * d
  BY <1>1, <1>2 DEF Roundup, d
<1> QED
  BY <1>1, <1>2, <1>3 DEF Aligned

LEMMA AlignedSum ==
  ASSUME NEW p \in Nat, NEW q \in Nat, Aligned(p), Aligned(q)
  PROVE  Aligned(p + q)
<1>1. PICK k \in Nat, m \in Nat : p = Align * k /\ q = Align * m
  BY DEF Aligned
<1>2. p + q = Align * (k + m)
  BY <1>1, KshmAssumption
<1> QED
  BY <1>2 DEF Aligned

\* A line taken by s bytes at p begins inside them.
LEMMA LineBegins ==
  ASSUME NEW p \in Nat, NEW s \in Nat \ {0}, Aligned(p), NEW a \in LinesOf(p, s)
  PROVE  a \in Nat /\ p <= Align * a /\ Align * a < p + s
<1>1. PICK k \in Nat : p = Align * k
  BY DEF Aligned
<1>2. Align \in Nat \ {0}
  BY KshmAssumption
<1>3. p \div Align \in Nat /\ Align * k < Align * (p \div Align) + Align
  BY <1>1, <1>2, Division
<1>4. /\ (p + s - 1) \div Align \in Nat
      /\ Align * ((p + s - 1) \div Align) <= p + s - 1
  BY <1>2, Division
<1>5. a \in Nat /\ p \div Align <= a /\ a <= (p + s - 1) \div Align
  BY <1>3, <1>4 DEF LinesOf
<1>6. Align * a <= p + s - 1
  <2>1. Align * a <= Align * ((p + s - 1) \div Align)
    BY <1>2, <1>4, <1>5, Cancels
  <2> QED
    BY <2>1, <1>2, <1>4, <1>5
<1>7. k <= p \div Align
  <2>1. ~(p \div Align < k)
    BY <1>2, <1>3, NextMultiple
  <2> QED
    BY <2>1, <1>3
<1>8. Align * k <= Align * a
  BY <1>2, <1>3, <1>5, <1>7, Cancels
<1> QED
  BY <1>1, <1>2, <1>5, <1>6, <1>8

\* Records that are apart share no line.
LEMMA LinesApart ==
  ASSUME NEW p \in Nat, NEW q \in Nat, Aligned(p), Aligned(q),
         NEW s \in Nat \ {0}, NEW z \in Nat \ {0}, p + s <= q \/ q + z <= p
  PROVE  LinesOf(p, s) \cap LinesOf(q, z) = {}
<1> SUFFICES ASSUME NEW a \in LinesOf(p, s), a \in LinesOf(q, z) PROVE FALSE
  OBVIOUS
<1>1. a \in Nat /\ p <= Align * a /\ Align * a < p + s
  BY LineBegins
<1>2. q <= Align * a /\ Align * a < q + z
  BY LineBegins
<1>3. Align * a \in Nat
  BY <1>1, KshmAssumption
<1> QED
  BY <1>1, <1>2, <1>3

\* A record in the buffer takes lines of it, the one it begins in among them.
LEMMA LinesInside ==
  ASSUME NEW p \in Nat, NEW s \in Sizes, Aligned(p), p + Roundup(s) <= Size
  PROVE  LinesOf(p, s) \subseteq Lines
<1> SUFFICES ASSUME NEW a \in LinesOf(p, s) PROVE a \in Lines
  OBVIOUS
<1>1. Align \in Nat \ {0} /\ Size \in Nat /\ s \in Nat \ {0}
  BY KshmAssumption
<1>2. Roundup(s) \in Nat /\ s <= Roundup(s) /\ Aligned(Roundup(s))
  BY RoundupIs
<1>3. PICK m \in Nat : p + Roundup(s) = Align * m
  BY <1>2, AlignedSum DEF Aligned
<1>4. a \in Nat /\ Align * a < p + s
  BY <1>1, LineBegins
<1>5. Align * a < Align * m
  BY <1>1, <1>2, <1>3, <1>4
<1>6. Align * a + Align <= Align * m
  BY <1>1, <1>4, <1>5, Cancels, NextMultiple
<1>7. Size \div Align \in Nat /\ Size < Align * (Size \div Align) + Align
  BY <1>1, Division
<1>8. Align * a < Align * (Size \div Align)
  BY <1>1, <1>3, <1>4, <1>6, <1>7
<1>9. a < Size \div Align
  BY <1>1, <1>4, <1>7, <1>8, Cancels
<1> QED
  BY <1>4, <1>7, <1>9 DEF Lines

LEMMA FirstLine ==
  ASSUME NEW p \in Nat, NEW s \in Nat \ {0}
  PROVE  p \div Align \in LinesOf(p, s)
<1> DEFINE b == p \div Align
           d == (p + s - 1) \div Align
<1>1. Align \in Nat \ {0}
  BY KshmAssumption
<1>2. b \in Nat /\ Align * b <= p
  BY <1>1, Division
<1>3. d \in Nat /\ p + s - 1 < Align * d + Align
  BY <1>1, Division
<1> HIDE DEF b, d
<1>4. ~(d < b)
  BY <1>1, <1>2, <1>3, NextMultiple
<1>5. b \in b..d
  BY <1>2, <1>3, <1>4
<1> QED
  BY <1>5 DEF LinesOf, b, d

-----------------------------------------------------------------------------
(* The inductive invariant.                                                *)

R == rd[index]
W == wt[index]

End(e) == e.at + Roundup(e.size)

\* Where the record after offset p is, and the offset after a record.
Start(p, s) == IF p + Roundup(s) > Size THEN 0 ELSE p
After(e) == IF End(e) = Size THEN 0 ELSE End(e)

\* The records between rd and wt, which may go on from the base of the buffer.
InRing(e, r, w) ==
  IF r <= w THEN r <= e.at /\ End(e) <= w ELSE r <= e.at \/ End(e) <= w

\* A record comes before another: those from rd to the end are the first.
Before(e, f, r) == IF r <= e.at <=> r <= f.at THEN End(e) <= f.at ELSE r <= e.at

Placed ==
  /\ \A i \in Side : Aligned(rd[i]) /\ Aligned(wt[i])
  /\ \A i \in DOMAIN unread : /\ Aligned(unread[i].at) /\ End(unread[i]) <= Size
                              /\ InRing(unread[i], R, W)
  /\ \A i, j \in DOMAIN unread : i < j => Before(unread[i], unread[j], R)

Linked ==
  /\ unread = <<>> => R = W /\ rsize = wsize
  /\ unread # <<>> =>
       /\ unread[1].at = Start(R, rsize) /\ rsize = unread[1].size
       /\ W = After(unread[Len(unread)]) /\ wsize = unread[Len(unread)].rec
  /\ \A i \in 1..(Len(unread) - 1) :
       /\ unread[i + 1].at = Start(After(unread[i]), unread[i + 1].size)
       /\ unread[i + 1].size = unread[i].rec

Stored ==
  /\ \A i \in DOMAIN unread :
       \A a \in LinesOf(unread[i].at, unread[i].size) : mem[a] = unread[i].rec
  /\ wpc = "update" => \A a \in LinesOf(wptr, wsize) : mem[a] = wnext

\* The place a writer has is behind wt and before rd, or at the base.
Room ==
  /\ Aligned(wptr)
  /\ \/ /\ wptr = W
        /\ IF W < R THEN W + Roundup(wsize) < R
           ELSE W + Roundup(wsize) < Size \/ (W + Roundup(wsize) = Size /\ R > 0)
     \/ wptr = 0 /\ W + Roundup(wsize) > Size /\ Roundup(wsize) < R /\ R <= W

Writing ==
  /\ wpc \in {"clear", "flip", "times"} => unread = <<>> /\ wptr = 0
  /\ wpc = "flip" => rd[1 - index] = 0 /\ wt[1 - index] = 0
  /\ wpc = "times" => R = 0 /\ W = 0
  /\ wpc \in {"copy", "update"} => Room

\* A reader may have loaded index before the rings were switched: it finds nothing.
Reading ==
  /\ rpc \in {"wt", "rd"} /\ ridx # index =>
       /\ rd[ridx] = wt[ridx]
       /\ unread # <<>> \/ wpc \in {"times", "copy", "update"}
  /\ rpc = "rd" => rwt = rd[ridx] \/ (ridx = index /\ unread # <<>>)
  /\ rpc \in {"copy", "update"} => unread # <<>> /\ rptr = unread[1].at
  /\ rpc = "update" => got = unread[1].rec

\* The parity the next record is read with, once the reader is done with the last one.
NextOdd ==
  IF rpc = "load" THEN ~rdOdd ELSE IF rpc = "store" THEN ~rodd ELSE rdOdd

Parity ==
  /\ ~overtaken =>
       (NextOdd <=> IF unread = <<>> THEN wtOdd ELSE unread[1].odd)
  /\ unread # <<>> => (wtOdd <=> ~unread[Len(unread)].odd)
  /\ \A i \in 1..(Len(unread) - 1) : unread[i + 1].odd <=> ~unread[i].odd
  /\ rpc = "copy" => (rodd <=> rdOdd)

IInv == TypeOK /\ Placed /\ Linked /\ Stored /\ Writing /\ Reading /\ Parity

-----------------------------------------------------------------------------
(* Consequences of the invariant.                                          *)

LEMMA Numbers ==
  /\ Size \in Nat
  /\ \A p \in Offset : p \in Nat /\ p < Size
  /\ \A s \in Sizes : /\ s \in Nat \ {0} /\ Roundup(s) \in Nat /\ s <= Roundup(s)
                      /\ Roundup(s) < Size /\ Aligned(Roundup(s))
<1>1. Size \in Nat /\ Sizes \subseteq Nat \ {0}
  BY KshmAssumption
<1> QED
  BY <1>1, RoundupIs DEF Offset

LEMMA BaseIsOffset == 0 \in Offset
<1>1. First \in Sizes /\ Size \in Nat
  BY KshmAssumption
<1>2. Roundup(First) \in Nat /\ Roundup(First) < Size
  BY <1>1, RoundupIs
<1> QED
  BY <1>1, <1>2 DEF Offset

LEMMA AdvanceStays ==
  ASSUME NEW p \in Offset, NEW s \in Sizes
  PROVE  Advance(p, s) \in Offset
BY RoundupIs, KshmAssumption DEF Advance, Offset

\* What is read from the place of the first record is that record.
LEMMA ReadsFirst ==
  ASSUME IInv, rpc = "copy"
  PROVE  unread # <<>> /\ mem[rptr \div Align] = unread[1].rec /\ unread[1].rec \in Sizes
<1>1. unread # <<>> /\ rptr = unread[1].at
  BY DEF IInv, Reading
<1>2. 1 \in DOMAIN unread /\ unread[1] \in Extent
  BY <1>1 DEF IInv, TypeOK
<1>3. unread[1].at \in Nat /\ unread[1].size \in Nat \ {0} /\ unread[1].rec \in Sizes
  <2>1. unread[1].at \in Offset /\ unread[1].size \in Sizes /\ unread[1].rec \in Sizes
    BY <1>2 DEF Extent
  <2> QED
    BY <2>1, Numbers
<1>4. rptr \div Align \in LinesOf(unread[1].at, unread[1].size)
  BY <1>1, <1>3, FirstLine
<1> QED
  BY <1>1, <1>2, <1>3, <1>4 DEF IInv, Stored

LEMMA InitIInv == Init => IInv
<1> SUFFICES ASSUME Init PROVE IInv
  OBVIOUS
<1> USE DEF Init
<1>1. TypeOK
  <2>1. rdOdd \in BOOLEAN /\ wtOdd \in BOOLEAN /\ rodd \in BOOLEAN /\ overtaken \in BOOLEAN
    OBVIOUS
  <2>2. 0 \in 0..Size
    BY KshmAssumption
  <2> QED
    BY <2>1, <2>2, KshmAssumption, BaseIsOffset DEF TypeOK, Side
<1>2. Placed
  <2>1. Aligned(0)
    BY KshmAssumption DEF Aligned
  <2> QED
    BY <2>1 DEF Placed
<1>3. Linked
  BY DEF Linked, R, W, Side
<1>4. Stored /\ Writing /\ Reading
  BY DEF Stored, Writing, Reading
<1>5. Parity
  BY DEF Parity, NextOdd
<1> QED
  BY <1>1, <1>2, <1>3, <1>4, <1>5 DEF IInv

LEMMA TypeStep == IInv /\ [Next]_vars => TypeOK'
<1> SUFFICES ASSUME IInv, [Next]_vars PROVE TypeOK'
  OBVIOUS
<1>t. TypeOK
  BY DEF IInv
<1>z. Size \in Nat /\ First \in Sizes /\ 0 \in Offset
  BY KshmAssumption, BaseIsOffset
<1> USE DEF TypeOK, Side, desc, writer, reader
<1>1. ASSUME RequestWrite PROVE TypeOK'
  BY <1>t, <1>z, <1>1 DEF RequestWrite, WriteAt
<1>2. ASSUME ResetStep PROVE TypeOK'
  <2>1. ASSUME ResetClear PROVE TypeOK'
    <3>1. 0 \in 0..Size
      BY <1>z
    <3> QED
      BY <1>t, <1>z, <2>1, <3>1 DEF ResetClear
  <2>2. ASSUME ResetFlip PROVE TypeOK'
    BY <1>t, <2>2 DEF ResetFlip
  <2>3. ASSUME ResetTimes PROVE TypeOK'
    <3>1. rdOdd' \in BOOLEAN /\ wtOdd' \in BOOLEAN
      BY <2>3, Zenon DEF ResetTimes
    <3>2. (rpc \in {"load", "store"}) \in BOOLEAN
      OBVIOUS
    <3>3. overtaken' \in BOOLEAN
      BY <2>3, <3>2, Zenon DEF ResetTimes
    <3> QED
      BY <1>t, <2>3, <3>1, <3>3 DEF ResetTimes
  <2> QED
    BY <1>2, <2>1, <2>2, <2>3 DEF ResetStep
<1>3. ASSUME CopyIn PROVE TypeOK'
  BY <1>t, <1>3 DEF CopyIn
<1>4. ASSUME UpdateWrite PROVE TypeOK'
  <2>1. wt' \in [Side -> Offset]
    BY <1>t, <1>4, AdvanceStays DEF UpdateWrite
  <2>2. unread' \in Seq(Extent)
    BY <1>t, <1>4 DEF UpdateWrite, Extent
  <2> QED
    BY <1>t, <1>z, <1>4, <2>1, <2>2 DEF UpdateWrite
<1>5. ASSUME UpdateReserved PROVE TypeOK'
  <2>1. \A s \in Sizes : Roundup(s) \in 0..Size
    BY <1>z, RoundupIs
  <2> QED
    BY <1>t, <1>5, <2>1 DEF UpdateReserved
<1>6. ASSUME RequestRead \/ LoadWt PROVE TypeOK'
  BY <1>t, <1>6 DEF RequestRead, LoadWt
<1>7. ASSUME LoadRd PROVE TypeOK'
  BY <1>t, <1>z, <1>7 DEF LoadRd
<1>8. ASSUME CopyOut PROVE TypeOK'
  <2>1. got' \in Sizes
    BY <1>8, ReadsFirst DEF CopyOut
  <2> QED
    BY <1>t, <1>8, <2>1 DEF CopyOut
<1>9. ASSUME UpdateRead PROVE TypeOK'
  <2>1. unread # <<>>
    BY <1>9 DEF IInv, Reading, UpdateRead
  <2>2. rd' \in [Side -> Offset]
    BY <1>t, <1>9, AdvanceStays DEF UpdateRead
  <2> QED
    BY <1>t, <1>z, <1>9, <2>1, <2>2 DEF UpdateRead
<1>10. ASSUME LoadTimes \/ StoreTimes PROVE TypeOK'
  BY <1>t, <1>10 DEF LoadTimes, StoreTimes
<1>11. ASSUME Reset PROVE TypeOK'
  <2>1. 0 \in 0..Size
    BY <1>z
  <2>2. rdOdd' \in BOOLEAN /\ wtOdd' \in BOOLEAN /\ overtaken' \in BOOLEAN
    BY <1>11, Zenon DEF Reset
  <2> QED
    BY <1>t, <1>z, <1>11, <2>1, <2>2 DEF Reset
<1>12. ASSUME UNCHANGED vars PROVE TypeOK'
  BY <1>t, <1>12 DEF vars
<1> QED
  BY <1>1, <1>2, <1>3, <1>4, <1>5, <1>6, <1>7, <1>8, <1>9, <1>10, <1>11, <1>12
     DEF Next, WriterStep, ReaderStep

-----------------------------------------------------------------------------
(* The writer.                                                             *)

\* What the numbers in the state are.
LEMMA StateNumbers ==
  ASSUME TypeOK
  PROVE  /\ R \in Nat /\ W \in Nat /\ R < Size /\ W < Size
         /\ wptr \in Nat /\ wsize \in Sizes /\ rsize \in Sizes
         /\ Len(unread) \in Nat /\ DOMAIN unread = 1..Len(unread)
         /\ \A i \in DOMAIN unread :
              /\ unread[i] \in Extent /\ unread[i].at \in Nat /\ unread[i].size \in Sizes
              /\ unread[i].rec \in Sizes /\ End(unread[i]) \in Nat
              /\ unread[i].at < End(unread[i])
<1>1. R \in Offset /\ W \in Offset /\ wptr \in Offset
  BY DEF TypeOK, R, W
<1>2. Len(unread) \in Nat /\ DOMAIN unread = 1..Len(unread)
  BY DEF TypeOK
<1>3. ASSUME NEW i \in DOMAIN unread
      PROVE  /\ unread[i] \in Extent /\ unread[i].at \in Nat /\ unread[i].size \in Sizes
             /\ unread[i].rec \in Sizes /\ End(unread[i]) \in Nat
             /\ unread[i].at < End(unread[i])
  <2>1. unread[i] \in Extent
    BY DEF TypeOK
  <2>2. unread[i].at \in Offset /\ unread[i].size \in Sizes /\ unread[i].rec \in Sizes
    BY <2>1 DEF Extent
  <2> QED
    BY <2>1, <2>2, Numbers DEF End
<1> QED
  BY <1>1, <1>2, <1>3, Numbers DEF TypeOK

\* Offsets that meet leave no record between them.
LEMMA MeetEmpty ==
  ASSUME IInv, R = W
  PROVE  unread = <<>>
<1> SUFFICES ASSUME unread # <<>> PROVE FALSE
  OBVIOUS
<1>1. 1 \in DOMAIN unread
  BY DEF IInv, TypeOK
<1>2. InRing(unread[1], R, W)
  BY <1>1 DEF IInv, Placed
<1> QED
  BY <1>1, <1>2, StateNumbers DEF InRing, IInv

\* kshm_request_write: a place to write, or an empty ring to be abandoned.
LEMMA RequestKeeps ==
  ASSUME IInv, RequestWrite
  PROVE  (Placed /\ Linked /\ Stored /\ Writing /\ Reading)'
<1> DEFINE n == Roundup(wsize)
<1>0. TypeOK /\ Placed /\ Linked /\ Stored /\ Writing /\ Reading
  BY DEF IInv
<1>1. UNCHANGED <<desc, mem, wnext, wsize, reader, unread, overtaken>> /\ wpc = "idle"
  BY DEF RequestWrite
<1> USE DEF desc, reader
<1>2. Placed' /\ Linked'
  BY <1>0, <1>1 DEF Placed, Linked, InRing, Before, R, W
<1>3. CASE wptr' \in WriteAt(W, R, wsize) /\ wpc' = "copy"
  <2>1. n \in Nat /\ n > 0 /\ R \in Nat /\ W \in Nat /\ R < Size /\ W < Size /\ Size \in Nat
    BY <1>0, StateNumbers, Numbers
  <2>2. Aligned(W) /\ Aligned(0)
    <3>1. Aligned(0)
      BY KshmAssumption DEF Aligned
    <3> QED
      BY <3>1, <1>0 DEF Placed, W, TypeOK
  <2>3. Room'
    <3> HIDE DEF n
    <3>1. CASE wptr' = W /\ (TailRoom(W, R) > n \/ (TailRoom(W, R) = n /\ HeadRoom(W, R) > 0))
      BY <1>1, <2>1, <2>2, <3>1 DEF Room, TailRoom, HeadRoom, R, W, n
    <3>2. CASE wptr' = 0 /\ HeadRoom(W, R) > n
               /\ ~(TailRoom(W, R) > n \/ (TailRoom(W, R) = n /\ HeadRoom(W, R) > 0))
      BY <1>1, <2>1, <2>2, <3>2 DEF Room, TailRoom, HeadRoom, R, W, n
    <3> QED
      BY <1>3, <3>1, <3>2 DEF WriteAt, n
  <2>4. Writing' /\ Reading' /\ Stored'
    BY <1>0, <1>1, <1>3, <2>3 DEF Writing, Reading, Stored
  <2> QED
    BY <1>2, <2>4
<1>4. CASE R = W /\ wptr' = 0 /\ wpc' = "clear"
  <2>1. unread = <<>>
    BY <1>4, MeetEmpty
  <2>2. ~(rpc \in {"wt", "rd"} /\ ridx # index)
    BY <1>0, <1>1, <2>1 DEF Reading
  <2> QED
    BY <1>0, <1>1, <1>2, <1>4, <2>1, <2>2 DEF Writing, Reading, Stored
<1> QED
  BY <1>3, <1>4 DEF RequestWrite, R, W

\* kshm_special_reset: a reader that loaded index before finds both offsets equal.
LEMMA ResetStepKeeps ==
  ASSUME IInv, ResetStep
  PROVE  (Placed /\ Linked /\ Stored /\ Writing /\ Reading)'
<1>0. TypeOK /\ Placed /\ Linked /\ Stored /\ Writing /\ Reading
  BY DEF IInv
<1>1. unread = <<>> /\ wptr = 0 /\ R = W /\ rsize = wsize
  BY <1>0 DEF ResetStep, ResetClear, ResetFlip, ResetTimes, Writing, Linked
<1>2. Aligned(0)
  BY KshmAssumption DEF Aligned
<1>3. index \in Side /\ 1 - index \in Side /\ 1 - index # index
  BY <1>0 DEF TypeOK, Side
<1> USE DEF reader
<1>4. CASE ResetClear
  <2>1. R' = R /\ W' = W
    BY <1>0, <1>3, <1>4 DEF ResetClear, R, W, TypeOK
  <2>2. Placed'
    BY <1>0, <1>1, <1>2, <1>3, <1>4 DEF ResetClear, Placed, TypeOK
  <2>3. Linked' /\ Stored'
    BY <1>0, <1>1, <1>4, <2>1 DEF ResetClear, Linked, Stored
  <2>4. Writing'
    BY <1>0, <1>1, <1>3, <1>4 DEF ResetClear, Writing, TypeOK
  <2>5. Reading'
    <3>1. rpc \in {"wt", "rd"} => ridx = index
      BY <1>0, <1>1, <1>4 DEF ResetClear, Reading
    <3> QED
      BY <1>0, <1>1, <1>3, <1>4, <3>1 DEF ResetClear, Reading, TypeOK
  <2> QED
    BY <2>2, <2>3, <2>4, <2>5
<1>5. CASE ResetFlip
  <2>1. R' = 0 /\ W' = 0
    BY <1>0, <1>3, <1>5 DEF ResetFlip, R, W, Writing
  <2>2. Placed'
    BY <1>0, <1>1, <1>5 DEF ResetFlip, Placed
  <2>3. Linked' /\ Stored' /\ Writing'
    BY <1>0, <1>1, <1>5, <2>1 DEF ResetFlip, Linked, Stored, Writing
  <2>4. Reading'
    <3>1. rpc \in {"wt", "rd"} => ridx = index
      BY <1>0, <1>1, <1>5 DEF ResetFlip, Reading
    <3> QED
      BY <1>0, <1>1, <1>3, <1>5, <3>1 DEF ResetFlip, Reading, R, W
  <2> QED
    BY <2>2, <2>3, <2>4
<1>6. CASE ResetTimes
  <2>1. R = 0 /\ W = 0
    BY <1>0, <1>6 DEF ResetTimes, Writing
  <2>2. Placed' /\ Linked' /\ Stored'
    BY <1>0, <1>1, <1>6 DEF ResetTimes, Placed, Linked, Stored, InRing, Before, R, W
  <2>3. Room'
    <3>1. Roundup(wsize) \in Nat /\ Roundup(wsize) < Size
      BY <1>0, StateNumbers, Numbers
    <3> QED
      BY <1>1, <1>2, <1>6, <2>1, <3>1 DEF ResetTimes, Room, R, W
  <2>4. Writing' /\ Reading'
    BY <1>0, <1>1, <1>6, <2>3 DEF ResetTimes, Writing, Reading
  <2> QED
    BY <2>2, <2>4
<1> QED
  BY <1>4, <1>5, <1>6 DEF ResetStep

\* The place a writer has is apart from every record, and in the buffer.
LEMMA RoomIsApart ==
  ASSUME IInv, Room
  PROVE  /\ wptr + Roundup(wsize) <= Size
         /\ \A i \in DOMAIN unread :
              \/ End(unread[i]) <= wptr
              \/ wptr + Roundup(wsize) <= unread[i].at
<1> DEFINE n == Roundup(wsize)
<1>1. /\ n \in Nat /\ n > 0 /\ R \in Nat /\ W \in Nat /\ R < Size /\ W < Size
      /\ Size \in Nat /\ wptr \in Nat
  BY StateNumbers, Numbers DEF IInv
<1> HIDE DEF n
<1>2. wptr + n <= Size
  BY <1>1 DEF Room, n
<1>3. ASSUME NEW i \in DOMAIN unread
      PROVE  End(unread[i]) <= wptr \/ wptr + n <= unread[i].at
  <2>1. unread[i].at \in Nat /\ End(unread[i]) \in Nat /\ InRing(unread[i], R, W)
    BY StateNumbers DEF IInv, Placed
  <2> QED
    BY <1>1, <2>1 DEF Room, InRing, n
<1> QED
  BY <1>2, <1>3 DEF n

\* Nor does it share a line with one.
LEMMA RoomLines ==
  ASSUME IInv, Room
  PROVE  /\ LinesOf(wptr, wsize) \subseteq Lines
         /\ \A i \in DOMAIN unread :
              LinesOf(wptr, wsize) \cap LinesOf(unread[i].at, unread[i].size) = {}
<1>1. wptr \in Nat /\ wsize \in Sizes /\ Aligned(wptr)
  BY StateNumbers DEF IInv, Room
<1>2. wsize \in Nat \ {0} /\ Roundup(wsize) \in Nat /\ wsize <= Roundup(wsize)
  BY <1>1, Numbers
<1>3. ASSUME NEW i \in DOMAIN unread
      PROVE  LinesOf(wptr, wsize) \cap LinesOf(unread[i].at, unread[i].size) = {}
  <2> DEFINE p == unread[i].at
             z == unread[i].size
  <2>1. p \in Nat /\ z \in Sizes /\ Aligned(p) /\ End(unread[i]) = p + Roundup(z)
    BY StateNumbers DEF IInv, Placed, End
  <2>2. z \in Nat \ {0} /\ Roundup(z) \in Nat /\ z <= Roundup(z)
    BY <2>1, Numbers
  <2>3. p + Roundup(z) <= wptr \/ wptr + Roundup(wsize) <= p
    BY <2>1, RoomIsApart
  <2> HIDE DEF p, z
  <2>4. p + z <= wptr \/ wptr + wsize <= p
    BY <1>1, <1>2, <2>1, <2>2, <2>3
  <2>5. LinesOf(wptr, wsize) \cap LinesOf(p, z) = {}
    BY <1>1, <1>2, <2>1, <2>2, <2>4, LinesApart
  <2> QED
    BY <2>5 DEF p, z
<1> QED
  BY <1>1, <1>3, RoomIsApart, LinesInside

\* The copy overwrites no record.
LEMMA CopyInKeeps ==
  ASSUME IInv, CopyIn
  PROVE  (Placed /\ Linked /\ Stored /\ Writing /\ Reading)'
<1>0. TypeOK /\ Placed /\ Linked /\ Stored /\ Writing /\ Reading /\ Room
  BY DEF IInv, Writing, CopyIn
<1>1. /\ UNCHANGED <<desc, wptr, wsize, reader, unread, overtaken>>
      /\ wpc = "copy" /\ wpc' = "update"
      /\ mem' = [a \in Lines |-> IF a \in LinesOf(wptr, wsize) THEN wnext' ELSE mem[a]]
  BY DEF CopyIn
<1> USE DEF desc, reader
<1>2. Placed' /\ Linked'
  BY <1>0, <1>1 DEF Placed, Linked, InRing, Before, R, W
<1>3. Writing' /\ Reading'
  BY <1>0, <1>1 DEF Writing, Reading, Room, R, W
<1>4. Stored'
  <2>1. \A a \in LinesOf(wptr, wsize) : mem'[a] = wnext'
    BY <1>0, <1>1, RoomLines
  <2>2. ASSUME NEW i \in DOMAIN unread, NEW a \in LinesOf(unread[i].at, unread[i].size)
        PROVE  mem'[a] = unread[i].rec
    <3>1. unread[i].at \in Nat /\ unread[i].size \in Sizes /\ Aligned(unread[i].at)
      BY <1>0, StateNumbers DEF Placed
    <3>2. unread[i].at + Roundup(unread[i].size) <= Size
      BY <1>0 DEF Placed, End
    <3>3. a \in Lines
      BY <3>1, <3>2, LinesInside
    <3>4. a \notin LinesOf(wptr, wsize)
      BY <1>0, RoomLines
    <3>5. mem[a] = unread[i].rec
      BY <1>0 DEF Stored
    <3> QED
      BY <1>1, <3>3, <3>4, <3>5
  <2> QED
    BY <1>1, <2>1, <2>2 DEF Stored
<1> QED
  BY <1>2, <1>3, <1>4

\* kshm_update_write: wt moves past the record, which thereby is behind all others.
LEMMA UpdateWriteKeeps ==
  ASSUME IInv, UpdateWrite
  PROVE  (Placed /\ Linked /\ Stored /\ Writing /\ Reading)'
<1> DEFINE n == Roundup(wsize)
           e == [rec |-> wnext, at |-> wptr, size |-> wsize, odd |-> wtOdd]
           k == Len(unread)
<1>0. TypeOK /\ Placed /\ Linked /\ Stored /\ Writing /\ Reading /\ Room
  BY DEF IInv, Writing, UpdateWrite
<1>1. /\ UNCHANGED <<index, rd, mem, wnext, reader>>
      /\ wt' = [wt EXCEPT ![index] = Advance(@, wsize)]
      /\ unread' = Append(unread, e)
      /\ wpc = "update" /\ wpc' = "idle" /\ wsize' = wnext /\ wptr' = 0
  BY DEF UpdateWrite
<1>2. /\ k \in Nat /\ DOMAIN unread = 1..k /\ Len(unread') = k + 1
      /\ DOMAIN unread' = 1..(k + 1)
      /\ \A i \in 1..k : unread'[i] = unread[i]
      /\ unread'[k + 1] = e
  BY <1>0, <1>1 DEF TypeOK
<1>3. /\ n \in Nat /\ n > 0 /\ R \in Nat /\ W \in Nat /\ R < Size /\ W < Size
      /\ Size \in Nat /\ wptr \in Nat /\ n < Size
  BY <1>0, StateNumbers, Numbers
<1>4. e.at = wptr /\ End(e) = wptr + n /\ e.size = wsize /\ e.rec = wnext
  BY DEF End
<1>5. R' = R /\ W' = Advance(W, wsize)
  BY <1>0, <1>1 DEF R, W, TypeOK
<1> USE DEF reader
<1> HIDE DEF n, e, k
<1>6. /\ W' = IF wptr + n = Size THEN 0 ELSE wptr + n
      /\ wptr + n <= Size
      /\ wptr = Start(W, wsize)
  BY <1>0, <1>3, <1>5 DEF Room, Advance, Start, n
<1>7. Placed'
  <2>1. \A i \in Side : Aligned(rd'[i]) /\ Aligned(wt'[i])
    <3>1. Aligned(0)
      BY KshmAssumption DEF Aligned
    <3>2. Aligned(wptr + n)
      BY <1>0, <1>3, AlignedSum, Numbers, StateNumbers DEF Room, n
    <3>3. Aligned(W')
      BY <1>6, <3>1, <3>2
    <3> QED
      BY <1>0, <1>1, <3>3 DEF Placed, W, TypeOK
  <2>2. InRing(e, R', W') /\ Aligned(e.at) /\ End(e) <= Size
    BY <1>0, <1>3, <1>4, <1>5, <1>6 DEF InRing, Room, n
  <2>3. ASSUME NEW i \in 1..k
        PROVE  InRing(unread[i], R', W') /\ Before(unread[i], e, R)
    <3>1. unread[i].at \in Nat /\ End(unread[i]) \in Nat /\ unread[i].at < End(unread[i])
      BY <1>0, <1>2, StateNumbers
    <3>2. InRing(unread[i], R, W)
      BY <1>0, <1>2 DEF Placed
    <3> QED
      BY <1>0, <1>3, <1>4, <1>5, <1>6, <3>1, <3>2 DEF InRing, Before, Room, n
  <2>4. ASSUME NEW i \in 1..(k + 1)
        PROVE  Aligned(unread'[i].at) /\ End(unread'[i]) <= Size /\ InRing(unread'[i], R', W')
    BY <1>0, <1>2, <2>2, <2>3 DEF Placed
  <2>5. ASSUME NEW i \in 1..(k + 1), NEW j \in 1..(k + 1), i < j
        PROVE  Before(unread'[i], unread'[j], R')
    <3>1. CASE j = k + 1
      BY <1>2, <1>5, <2>3, <2>5, <3>1
    <3>2. CASE j # k + 1
      BY <1>0, <1>2, <1>5, <2>5, <3>2 DEF Placed
    <3> QED
      BY <3>1, <3>2
  <2> QED
    BY <1>2, <2>1, <2>4, <2>5 DEF Placed
<1>8. Linked'
  <2>1. unread'[1].at = Start(R, rsize) /\ rsize = unread'[1].size
    <3>1. CASE unread = <<>>
      BY <1>0, <1>2, <1>4, <1>6, <3>1 DEF Linked, k
    <3>2. CASE unread # <<>>
      BY <1>0, <1>2, <3>2 DEF Linked, TypeOK, k
    <3> QED
      BY <3>1, <3>2
  <2>2. W' = After(unread'[k + 1]) /\ wsize' = unread'[k + 1].rec
    BY <1>1, <1>2, <1>4, <1>6 DEF After
  <2>3. ASSUME NEW i \in 1..k
        PROVE  /\ unread'[i + 1].at = Start(After(unread'[i]), unread'[i + 1].size)
               /\ unread'[i + 1].size = unread'[i].rec
    <3>1. CASE i = k
      <4>1. unread # <<>> /\ unread'[i] = unread[k] /\ unread'[i + 1] = e
        BY <1>2, <3>1
      <4>2. W = After(unread[k]) /\ wsize = unread[k].rec
        BY <1>0, <4>1 DEF Linked, k
      <4> QED
        BY <1>4, <1>6, <4>1, <4>2
    <3>2. CASE i # k
      <4>1. i \in 1..(k - 1) /\ unread'[i] = unread[i] /\ unread'[i + 1] = unread[i + 1]
        BY <1>2, <3>2
      <4> QED
        BY <1>0, <4>1 DEF Linked, k
    <3> QED
      BY <3>1, <3>2
  <2>4. unread' # <<>> /\ (k + 1) - 1 = k
    BY <1>2
  <2> QED
    BY <1>1, <1>2, <1>5, <2>1, <2>2, <2>3, <2>4 DEF Linked
<1>9. Stored'
  <2>1. ASSUME NEW i \in 1..(k + 1), NEW a \in LinesOf(unread'[i].at, unread'[i].size)
        PROVE  mem[a] = unread'[i].rec
    <3>1. CASE i = k + 1
      BY <1>0, <1>1, <1>2, <1>4, <2>1, <3>1 DEF Stored
    <3>2. CASE i # k + 1
      BY <1>0, <1>2, <2>1, <3>2 DEF Stored
    <3> QED
      BY <3>1, <3>2
  <2> QED
    BY <1>1, <1>2, <2>1 DEF Stored
<1>10. Writing' /\ Reading'
  <2>1. unread' # <<>> /\ (unread # <<>> => unread'[1] = unread[1])
    BY <1>0, <1>2 DEF TypeOK, k
  <2>2. rpc \in {"wt", "rd"} /\ ridx # index => wt'[ridx] = wt[ridx]
    BY <1>0, <1>1 DEF TypeOK
  <2> QED
    BY <1>0, <1>1, <2>1, <2>2 DEF Writing, Reading
<1> QED
  BY <1>7, <1>8, <1>9, <1>10

-----------------------------------------------------------------------------
(* The reader.                                                             *)

\* kshm_request_read: with the loads it has done, it finds the first record or none.
LEMMA LooksKeeps ==
  ASSUME IInv, RequestRead \/ LoadWt \/ LoadRd
  PROVE  (Placed /\ Linked /\ Stored /\ Writing /\ Reading)'
<1>0. TypeOK /\ Placed /\ Linked /\ Stored /\ Writing /\ Reading
  BY DEF IInv
<1>1. UNCHANGED <<desc, mem, writer, rsize, got, unread>>
  BY DEF RequestRead, LoadWt, LoadRd
<1> USE DEF desc, writer
<1>2. (Placed /\ Linked /\ Stored /\ Writing)'
  BY <1>0, <1>1 DEF Placed, Linked, Stored, Writing, Room, R, W
<1>3. CASE RequestRead
  BY <1>0, <1>1, <1>2, <1>3 DEF RequestRead, Reading
<1>4. CASE LoadWt
  BY <1>0, <1>1, <1>2, <1>4 DEF LoadWt, Reading, Linked, R, W
<1>5. CASE LoadRd
  <2> DEFINE r == rd[ridx]
             n == Roundup(rsize)
  <2>1. rpc = "rd" /\ UNCHANGED rsize
    BY <1>5 DEF LoadRd
  <2>2. CASE Avail(rwt, r) < n /\ rpc' = "idle"
    BY <1>0, <1>1, <1>2, <2>2 DEF Reading
  <2>3. CASE /\ ~(Avail(rwt, r) < n) /\ rpc' = "copy"
             /\ rptr' = IF r + n > Size THEN 0 ELSE r
    <3>1. r \in Nat /\ n \in Nat /\ n > 0
      BY <1>0, StateNumbers, Numbers DEF TypeOK
    <3>2. rwt # r
      BY <2>3, <3>1 DEF Avail
    <3>3. ridx = index /\ unread # <<>>
      BY <1>0, <2>1, <3>2 DEF Reading
    <3>4. rptr' = unread[1].at
      BY <1>0, <2>3, <3>3 DEF Linked, Start, R
    <3> QED
      BY <1>1, <1>2, <2>3, <3>3, <3>4 DEF Reading
  <2> QED
    BY <1>5, <2>2, <2>3 DEF LoadRd
<1> QED
  BY <1>3, <1>4, <1>5

LEMMA CopyOutKeeps ==
  ASSUME IInv, CopyOut
  PROVE  (Placed /\ Linked /\ Stored /\ Writing /\ Reading)'
<1>0. TypeOK /\ Placed /\ Linked /\ Stored /\ Writing /\ Reading
  BY DEF IInv
<1>1. /\ UNCHANGED <<desc, mem, writer, ridx, rwt, rptr, rsize, unread>>
      /\ rpc = "copy" /\ rpc' = "update" /\ got' = mem[rptr \div Align]
  BY DEF CopyOut
<1> USE DEF desc, writer
<1>2. (Placed /\ Linked /\ Stored /\ Writing)'
  BY <1>0, <1>1 DEF Placed, Linked, Stored, Writing, Room, R, W
<1>3. Reading'
  BY <1>0, <1>1, ReadsFirst DEF Reading
<1> QED
  BY <1>2, <1>3

LEMMA CountsKeeps ==
  ASSUME IInv, LoadTimes \/ StoreTimes
  PROVE  (Placed /\ Linked /\ Stored /\ Writing /\ Reading)'
<1>0. TypeOK /\ Placed /\ Linked /\ Stored /\ Writing /\ Reading
  BY DEF IInv
<1>1. /\ UNCHANGED <<index, rd, wt, mem, writer, ridx, rwt, rptr, rsize, got, unread>>
      /\ rpc' \in {"idle", "store"}
  BY DEF LoadTimes, StoreTimes, desc
<1> USE DEF writer
<1>2. (Placed /\ Linked /\ Stored /\ Writing)'
  BY <1>0, <1>1 DEF Placed, Linked, Stored, Writing, Room, R, W
<1>3. Reading'
  BY <1>1 DEF Reading
<1> QED
  BY <1>2, <1>3

\* kshm_update_read: rd moves past the first record, to where the next begins.
LEMMA UpdateReadKeeps ==
  ASSUME IInv, UpdateRead
  PROVE  (Placed /\ Linked /\ Stored /\ Writing /\ Reading)'
<1> DEFINE k == Len(unread)
           f == unread[1]
           n == Roundup(rsize)
           r == R'
<1>0. TypeOK /\ Placed /\ Linked /\ Stored /\ Writing /\ Reading
  BY DEF IInv
<1>1. /\ UNCHANGED <<index, wt, mem, writer>>
      /\ rd' = [rd EXCEPT ![index] = Advance(@, rsize)]
      /\ unread' = Tail(unread) /\ rsize' = got
      /\ rpc = "update" /\ rpc' = "load"
  BY DEF UpdateRead
<1>2. /\ unread # <<>> /\ k \in Nat \ {0} /\ DOMAIN unread = 1..k /\ Len(unread') = k - 1
      /\ DOMAIN unread' = 1..(k - 1)
      /\ \A i \in 1..(k - 1) : unread'[i] = unread[i + 1]
  BY <1>0, <1>1 DEF Reading, TypeOK
<1>3. /\ R \in Nat /\ W \in Nat /\ R < Size /\ W < Size /\ Size \in Nat
      /\ n \in Nat /\ n > 0 /\ n < Size
  BY <1>0, StateNumbers, Numbers
<1>4. /\ f.at = Start(R, rsize) /\ End(f) = f.at + n
      /\ f.rec = got
  BY <1>0, <1>1, <1>2 DEF Linked, Reading, End
<1>5. r = Advance(R, rsize) /\ W' = W
  BY <1>0, <1>1 DEF R, W, TypeOK
<1>6. InRing(f, R, W) /\ End(f) <= Size
  BY <1>0, <1>2 DEF Placed
<1> USE DEF writer
<1> HIDE DEF k, f, n, r
<1>7. r = After(f) /\ r \in Nat
  BY <1>3, <1>4, <1>5 DEF Start, Advance, After, n
<1>8. Placed'
  <2>1. \A i \in Side : Aligned(rd'[i]) /\ Aligned(wt'[i])
    <3>1. Aligned(0)
      BY KshmAssumption DEF Aligned
    <3>2. f.at \in Nat /\ Aligned(f.at)
      BY <1>0, <1>2, StateNumbers DEF Placed, f
    <3>3. Aligned(f.at + n)
      BY <1>0, <1>3, <3>2, AlignedSum, Numbers, StateNumbers DEF n
    <3>4. Aligned(r)
      BY <1>4, <1>7, <3>1, <3>3 DEF After
    <3> QED
      BY <1>0, <1>1, <3>4 DEF Placed, r, R, TypeOK
  <2>2. ASSUME NEW i \in 2..k
        PROVE  /\ unread[i].at \in Nat /\ End(unread[i]) \in Nat
               /\ unread[i].at < End(unread[i]) /\ End(unread[i]) <= Size
               /\ InRing(unread[i], R, W) /\ Before(f, unread[i], R)
    <3>1. i \in DOMAIN unread /\ 1 \in DOMAIN unread /\ 1 < i
      BY <1>2
    <3>2. Before(f, unread[i], R)
      BY <1>0, <3>1 DEF Placed, f
    <3>3. InRing(unread[i], R, W) /\ End(unread[i]) <= Size
      BY <1>0, <3>1 DEF Placed
    <3> QED
      BY <1>0, <3>1, <3>2, <3>3, StateNumbers
  <2>3. ASSUME NEW i \in 2..k
        PROVE  /\ InRing(unread[i], r, W)
               /\ IF r = R + n THEN R <= unread[i].at <=> r <= unread[i].at
                  ELSE unread[i].at < R /\ r <= unread[i].at
    <3> DEFINE p == unread[i].at
               q == End(unread[i])
    <3>1. /\ p \in Nat /\ q \in Nat /\ p < q /\ q <= Size
          /\ IF R <= W THEN R <= p /\ q <= W ELSE R <= p \/ q <= W
          /\ IF R <= f.at <=> R <= p THEN End(f) <= p ELSE R <= f.at
      BY <2>2 DEF InRing, Before
    <3>2. IF R <= W THEN R <= f.at /\ End(f) <= W ELSE R <= f.at \/ End(f) <= W
      BY <1>6 DEF InRing
    <3> HIDE DEF p, q
    <3>3. CASE f.at = R /\ R + n < Size /\ r = R + n
      BY <1>3, <1>4, <3>1, <3>2, <3>3 DEF InRing, p, q
    <3>4. CASE f.at = R /\ R + n = Size /\ r = 0
      BY <1>3, <1>4, <3>1, <3>2, <3>4 DEF InRing, p, q
    <3>5. CASE f.at = 0 /\ R + n > Size /\ r = n
      BY <1>3, <1>4, <3>1, <3>2, <3>5 DEF InRing, p, q
    <3> QED
      BY <1>3, <1>4, <1>6, <1>7, <3>3, <3>4, <3>5 DEF Start, After, n
  <2>4. ASSUME NEW i \in 2..k, NEW j \in 2..k, i < j
        PROVE  Before(unread[i], unread[j], r)
    <3>1. Before(unread[i], unread[j], R)
      BY <1>0, <1>2, <2>4 DEF Placed
    <3>2. /\ unread[i].at \in Nat /\ End(unread[i]) \in Nat
          /\ unread[j].at \in Nat /\ End(unread[j]) \in Nat
      BY <2>2
    <3> QED
      BY <1>3, <1>7, <2>3, <3>1, <3>2 DEF Before
  <2>5. ASSUME NEW i \in 1..(k - 1)
        PROVE  /\ Aligned(unread'[i].at) /\ End(unread'[i]) <= Size
               /\ InRing(unread'[i], R', W')
    <3>1. i + 1 \in 2..k /\ i + 1 \in DOMAIN unread /\ unread'[i] = unread[i + 1]
      BY <1>2
    <3> QED
      BY <1>0, <1>5, <2>3, <3>1 DEF Placed, r
  <2>6. ASSUME NEW i \in 1..(k - 1), NEW j \in 1..(k - 1), i < j
        PROVE  Before(unread'[i], unread'[j], R')
    <3>1. /\ i + 1 \in 2..k /\ j + 1 \in 2..k /\ i + 1 < j + 1
          /\ unread'[i] = unread[i + 1] /\ unread'[j] = unread[j + 1]
      BY <1>2, <2>6
    <3> QED
      BY <2>4, <3>1 DEF r
  <2> QED
    BY <1>2, <2>1, <2>5, <2>6 DEF Placed
<1>9. Linked'
  <2>1. CASE k = 1
    <3>1. unread' = <<>>
      BY <1>0, <1>1, <1>2, <2>1 DEF TypeOK, k
    <3>2. R' = W' /\ rsize' = wsize
      BY <1>0, <1>1, <1>2, <1>4, <1>5, <1>7, <2>1 DEF Linked, f, r, k
    <3> QED
      BY <1>1, <3>1, <3>2 DEF Linked
  <2>2. CASE k > 1
    <3>1. /\ 1 \in 1..(k - 1) /\ unread' # <<>>
          /\ unread'[1] = unread[2] /\ unread'[k - 1] = unread[k]
      BY <1>2, <2>2
    <3>2. unread'[1].at = Start(R', rsize') /\ rsize' = unread'[1].size
      <4>1. /\ unread[1 + 1].at = Start(After(unread[1]), unread[1 + 1].size)
            /\ unread[1 + 1].size = unread[1].rec
        BY <1>0, <3>1 DEF Linked, k
      <4> QED
        BY <1>1, <1>4, <1>7, <3>1, <4>1 DEF f, r
    <3>3. W' = After(unread'[k - 1]) /\ wsize' = unread'[k - 1].rec
      BY <1>0, <1>1, <1>2, <1>5, <3>1 DEF Linked, k
    <3>4. ASSUME NEW i \in 1..((k - 1) - 1)
          PROVE  /\ unread'[i + 1].at = Start(After(unread'[i]), unread'[i + 1].size)
                 /\ unread'[i + 1].size = unread'[i].rec
      <4>1. /\ i + 1 \in 1..(k - 1) /\ unread'[i] = unread[i + 1]
            /\ unread'[i + 1] = unread[(i + 1) + 1]
        BY <1>2
      <4> QED
        BY <1>0, <4>1 DEF Linked, k
    <3> QED
      BY <1>2, <3>1, <3>2, <3>3, <3>4 DEF Linked
  <2> QED
    BY <1>2, <2>1, <2>2
<1>10. Stored'
  BY <1>0, <1>1, <1>2 DEF Stored
<1>11. Writing'
  <2>1. wpc \notin {"clear", "flip", "times"}
    BY <1>0, <1>2 DEF Writing
  <2>2. ASSUME wpc \in {"copy", "update"} PROVE Room'
    <3>1. Room
      BY <1>0, <2>2 DEF Writing
    <3>2. IF R <= W THEN R <= f.at /\ End(f) <= W ELSE R <= f.at \/ End(f) <= W
      BY <1>6 DEF InRing
    <3>3. wptr \in Nat /\ Roundup(wsize) \in Nat
      BY <1>0, StateNumbers, Numbers
    <3>4. UNCHANGED <<wptr, wsize>>
      BY <1>1
    <3>5. \/ f.at = R /\ R + n < Size /\ r = R + n
          \/ f.at = R /\ R + n = Size /\ r = 0
          \/ f.at = 0 /\ R + n > Size /\ r = n
      BY <1>3, <1>4, <1>6, <1>7 DEF Start, After, n
    <3> DEFINE m == Roundup(wsize)
    <3>6. \/ /\ wptr = W
             /\ IF W < r THEN W + m < r ELSE W + m < Size \/ (W + m = Size /\ r > 0)
          \/ wptr = 0 /\ W + m > Size /\ m < r /\ r <= W
      BY <1>3, <1>4, <3>1, <3>2, <3>3, <3>5 DEF Room
    <3> QED
      BY <1>5, <3>1, <3>4, <3>6 DEF Room, r
  <2> QED
    BY <1>1, <2>1, <2>2 DEF Writing
<1>12. Reading'
  BY <1>1 DEF Reading
<1> QED
  BY <1>8, <1>9, <1>10, <1>11, <1>12

-----------------------------------------------------------------------------
(* The invariant and what follows from it.                                 *)

\* What is left of a sequence when its first element goes.
LEMMA TailShifts ==
  ASSUME NEW S, NEW s \in Seq(S), s # <<>>
  PROVE  /\ Len(s) \in Nat \ {0} /\ DOMAIN s = 1..Len(s)
         /\ Len(Tail(s)) = Len(s) - 1 /\ DOMAIN Tail(s) = 1..(Len(s) - 1)
         /\ \A i \in 1..(Len(s) - 1) : Tail(s)[i] = s[i + 1]
         /\ Tail(s) = <<>> <=> Len(s) = 1
<1>1. Len(s) \in Nat \ {0} /\ DOMAIN s = 1..Len(s)
  OBVIOUS
<1>2. Tail(s) \in Seq(S) /\ Len(Tail(s)) = Len(s) - 1
  OBVIOUS
<1>3. Tail(s) = <<>> <=> Len(Tail(s)) = 0
  BY <1>2, EmptySeq
<1> QED
  BY <1>1, <1>2, <1>3

\* The parities stay those of successive records; a reset clears both, with no record
\* in the ring.
LEMMA ParityStep == IInv /\ [Next]_vars => Parity'
<1> SUFFICES ASSUME IInv, [Next]_vars PROVE Parity'
  OBVIOUS
<1>0. /\ TypeOK /\ Linked /\ Writing /\ Reading /\ Parity
      /\ Len(unread) \in Nat
  BY DEF IInv, TypeOK
<1> USE DEF desc, writer, reader, NextOdd
<1>1. ASSUME RequestWrite \/ UpdateReserved \/ CopyIn PROVE Parity'
  BY <1>0, <1>1 DEF Parity, RequestWrite, UpdateReserved, CopyIn
<1>2. ASSUME ResetClear \/ ResetFlip PROVE Parity'
  BY <1>0, <1>2 DEF Parity, ResetClear, ResetFlip
<1>3. ASSUME ResetTimes PROVE Parity'
  BY <1>0, <1>3 DEF Parity, ResetTimes, Writing, Reading
<1>4. ASSUME UpdateWrite PROVE Parity'
  <2> DEFINE k == Len(unread)
  <2>1. /\ Len(unread') = k + 1 /\ unread' # <<>> /\ unread'[k + 1].odd = wtOdd
        /\ \A i \in 1..k : unread'[i] = unread[i]
        /\ unread # <<>> <=> k # 0
    BY <1>0, <1>4 DEF UpdateWrite, TypeOK
  <2>2. UNCHANGED <<reader, rdOdd, overtaken>> /\ (wtOdd' <=> ~wtOdd)
    BY <1>4 DEF UpdateWrite
  <2> HIDE DEF k
  <2>3. k \in Nat
    BY <1>0 DEF k
  <2>4. ~overtaken' => (NextOdd' <=> unread'[1].odd)
    <3>1. CASE k = 0
      <4>1. unread = <<>> /\ unread'[1].odd = wtOdd
        BY <2>1, <3>1
      <4> QED
        BY <1>0, <2>2, <4>1 DEF Parity
    <3>2. CASE k # 0
      <4>1. unread # <<>> /\ unread'[1] = unread[1]
        BY <2>1, <2>3, <3>2
      <4> QED
        BY <1>0, <2>2, <4>1 DEF Parity
    <3> QED
      BY <3>1, <3>2
  <2>5. wtOdd' <=> ~unread'[Len(unread')].odd
    BY <2>1, <2>2
  <2>6. ASSUME NEW i \in 1..(Len(unread') - 1)
        PROVE  unread'[i + 1].odd <=> ~unread'[i].odd
    <3>1. CASE i = k
      <4>1. unread # <<>> /\ unread'[i] = unread[k] /\ unread'[i + 1].odd = wtOdd
        BY <2>1, <2>3, <3>1
      <4> QED
        BY <1>0, <4>1 DEF Parity, k
    <3>2. CASE i # k
      <4>1. i \in 1..(k - 1) /\ unread'[i] = unread[i] /\ unread'[i + 1] = unread[i + 1]
        BY <2>1, <2>3, <3>2
      <4> QED
        BY <1>0, <4>1 DEF Parity, k
    <3> QED
      BY <3>1, <3>2
  <2>7. rpc' = "copy" => (rodd' <=> rdOdd')
    BY <1>0, <2>2 DEF Parity
  <2> QED
    BY <2>1, <2>4, <2>5, <2>6, <2>7 DEF Parity
<1>5. ASSUME RequestRead \/ LoadWt \/ LoadRd \/ CopyOut PROVE Parity'
  BY <1>0, <1>5 DEF Parity, RequestRead, LoadWt, LoadRd, CopyOut
<1>6. ASSUME UpdateRead PROVE Parity'
  <2> DEFINE k == Len(unread)
  <2>1. unread # <<>>
    BY <1>0, <1>6 DEF UpdateRead, Reading
  <2>2. /\ Len(unread') = k - 1 /\ \A i \in 1..(k - 1) : unread'[i] = unread[i + 1]
        /\ k \in Nat \ {0} /\ (unread' = <<>> <=> k = 1)
    BY <1>0, <1>6, <2>1, TailShifts DEF UpdateRead, TypeOK
  <2>3. /\ rpc = "update" /\ rpc' = "load"
        /\ UNCHANGED <<rdOdd, wtOdd, overtaken>>
    BY <1>6 DEF UpdateRead
  <2>4. ~overtaken => (rdOdd <=> unread[1].odd)
    BY <1>0, <2>1, <2>3 DEF Parity
  <2> HIDE DEF k
  <2>5. CASE k = 1
    <3>1. wtOdd <=> ~unread[1].odd
      BY <1>0, <2>1, <2>5 DEF Parity, k
    <3> QED
      BY <2>2, <2>3, <2>4, <2>5, <3>1 DEF Parity
  <2>6. CASE k # 1
    <3>1. /\ 1 \in 1..(k - 1) /\ unread'[1] = unread[1 + 1] /\ unread'[k - 1] = unread[k]
          /\ unread' # <<>>
      BY <2>2, <2>6
    <3>2. unread[1 + 1].odd <=> ~unread[1].odd
      BY <1>0, <3>1 DEF Parity, k
    <3>3. ~overtaken' => (NextOdd' <=> unread'[1].odd)
      BY <2>3, <2>4, <3>1, <3>2
    <3>4. wtOdd' <=> ~unread'[Len(unread')].odd
      BY <1>0, <2>1, <2>2, <2>3, <3>1 DEF Parity, k
    <3>5. ASSUME NEW i \in 1..(Len(unread') - 1)
          PROVE  unread'[i + 1].odd <=> ~unread'[i].odd
      <4>1. /\ i + 1 \in 1..(k - 1) /\ unread'[i] = unread[i + 1]
            /\ unread'[i + 1] = unread[(i + 1) + 1]
        BY <2>2
      <4> QED
        BY <1>0, <4>1 DEF Parity, k
    <3> QED
      BY <2>3, <3>1, <3>3, <3>4, <3>5 DEF Parity
  <2> QED
    BY <2>5, <2>6
<1>7. ASSUME LoadTimes PROVE Parity'
  BY <1>0, <1>7 DEF Parity, LoadTimes
<1>8. ASSUME StoreTimes PROVE Parity'
  BY <1>0, <1>8 DEF Parity, StoreTimes
<1>9. ASSUME Reset PROVE Parity'
  BY <1>0, <1>9 DEF Parity, Reset
<1>10. ASSUME UNCHANGED vars PROVE Parity'
  BY <1>0, <1>10 DEF Parity, vars
<1> QED
  BY <1>1, <1>2, <1>3, <1>4, <1>5, <1>6, <1>7, <1>8, <1>9, <1>10
     DEF Next, WriterStep, ResetStep, ReaderStep

\* kshm_reset and kshm_update_reserved.
LEMMA ResetKeeps ==
  ASSUME IInv, Reset \/ UpdateReserved \/ UNCHANGED vars
  PROVE  (Placed /\ Linked /\ Stored /\ Writing /\ Reading)'
<1>0. TypeOK /\ Placed /\ Linked /\ Stored /\ Writing /\ Reading
  BY DEF IInv
<1>1. CASE Reset
  <2>1. Aligned(0)
    BY KshmAssumption DEF Aligned
  <2>2. Placed'
    BY <1>1, <2>1 DEF Reset, Placed
  <2>3. Linked'
    BY <1>1 DEF Reset, Linked, R, W, Side
  <2>4. (Stored /\ Writing /\ Reading)'
    BY <1>1 DEF Reset, Stored, Writing, Reading
  <2> QED
    BY <2>2, <2>3, <2>4
<1>2. CASE UpdateReserved \/ UNCHANGED vars
  <2>1. UNCHANGED <<index, rd, wt, mem, writer, reader, unread>>
    BY <1>2 DEF UpdateReserved, vars, desc
  <2> QED
    BY <1>0, <2>1 DEF Placed, Linked, Stored, Writing, Reading, Room, R, W, writer, reader
<1> QED
  BY <1>1, <1>2

LEMMA NextIInv == IInv /\ [Next]_vars => IInv'
<1> SUFFICES ASSUME IInv, [Next]_vars PROVE IInv'
  OBVIOUS
<1>1. (Placed /\ Linked /\ Stored /\ Writing /\ Reading)'
  BY RequestKeeps, ResetStepKeeps, CopyInKeeps, UpdateWriteKeeps, LooksKeeps, CopyOutKeeps,
     UpdateReadKeeps, CountsKeeps, ResetKeeps
     DEF Next, WriterStep, ReaderStep
<1> QED
  BY <1>1, TypeStep, ParityStep DEF IInv

LEMMA SpecIInv == Spec => []IInv
  BY InitIInv, NextIInv, PTL DEF Spec

\* Offsets, locals and counters stay in their range, for any size of the buffer
\* (kshm.c:228-315, 370-480).
THEOREM SpecTypeOK == Spec => []TypeOK
<1>1. IInv => TypeOK
  BY DEF IInv
<1> QED
  BY <1>1, SpecIInv, PTL

\* The writer never has lines of a record still to be read or being read, for any size
\* of the buffer and of the records, whatever steps of the two sides come between
\* (kshm.c:376-406, 237-272).
THEOREM SpecNoOverwrite == Spec => []NoOverwrite
<1>1. IInv => NoOverwrite
  <2> SUFFICES ASSUME IInv PROVE NoOverwrite
    OBVIOUS
  <2>1. ASSUME wpc \in {"copy", "update"}
        PROVE  /\ wptr + wsize <= Size
               /\ \A i \in DOMAIN unread :
                    LinesOf(wptr, wsize) \cap LinesOf(unread[i].at, unread[i].size) = {}
    <3>1. Room
      BY <2>1 DEF IInv, Writing
    <3>2. wptr + Roundup(wsize) <= Size
      BY <3>1, RoomIsApart
    <3>3. wptr + wsize <= Size
      BY <3>2, StateNumbers, Numbers DEF IInv
    <3> QED
      BY <3>1, <3>3, RoomLines
  <2>2. ASSUME rpc \in {"copy", "update"}
        PROVE  unread # <<>> /\ rptr = unread[1].at /\ rsize = unread[1].size
    BY <2>2 DEF IInv, Reading, Linked
  <2> QED
    BY <2>1, <2>2 DEF NoOverwrite
<1> QED
  BY <1>1, SpecIInv, PTL

\* The reader drops the cache lines that the writer flushed for the same record, unless
\* the rings were switched between the two stores of kshm_update_read
\* (kshm.c:198-215, 265-277, 313-314, 466-470).
THEOREM SpecParityAgrees == Spec => []ParityAgrees
<1>1. IInv => ParityAgrees
  <2> SUFFICES ASSUME IInv, rpc = "copy", ~overtaken
               PROVE  unread # <<>> /\ rodd = unread[1].odd
    BY DEF ParityAgrees
  <2>1. unread # <<>> /\ 1 \in DOMAIN unread
    BY DEF IInv, Reading, TypeOK
  <2>2. rodd \in BOOLEAN /\ unread[1].odd \in BOOLEAN
    <3>1. unread[1] \in Extent
      BY <2>1 DEF IInv, TypeOK
    <3>2. unread[1].odd \in BOOLEAN
      BY <3>1, Zenon DEF Extent
    <3>3. rodd \in BOOLEAN
      BY Zenon DEF IInv, TypeOK
    <3> QED
      BY <3>2, <3>3
  <2>3. rodd <=> unread[1].odd
    BY <2>1 DEF IInv, Parity, NextOdd
  <2> QED
    BY <2>1, <2>2, <2>3
<1> QED
  BY <1>1, SpecIInv, PTL

-----------------------------------------------------------------------------
(* The channel is a queue of records.                                      *)

\* The contents of the records of a sequence.
Recs(s) == [i \in DOMAIN s |-> s[i].rec]

LEMMA RecsIs ==
  ASSUME NEW s \in Seq(Extent)
  PROVE  /\ Recs(s) \in Seq(Sizes) /\ Len(Recs(s)) = Len(s)
         /\ Len(s) \in Nat /\ DOMAIN s = 1..Len(s)
         /\ \A i \in 1..Len(s) : Recs(s)[i] = s[i].rec
<1>1. Len(s) \in Nat /\ DOMAIN s = 1..Len(s)
  OBVIOUS
<1>2. ASSUME NEW i \in 1..Len(s) PROVE s[i].rec \in Sizes
  <2>1. s[i] \in Extent
    BY <1>1
  <2> QED
    BY <2>1 DEF Extent
<1>3. Recs(s) \in [1..Len(s) -> Sizes]
  BY <1>1, <1>2 DEF Recs
<1>4. Recs(s) \in Seq(Sizes) /\ Len(Recs(s)) = Len(s)
  BY <1>1, <1>3, IsASeq, LenProperties
<1> QED
  BY <1>1, <1>4 DEF Recs

LEMMA RecsTail ==
  ASSUME NEW s \in Seq(Extent), s # <<>>
  PROVE  /\ Recs(s) # <<>> /\ Head(Recs(s)) = s[1].rec
         /\ Recs(Tail(s)) = Tail(Recs(s))
<1> DEFINE c == Recs(s)
           t == Tail(s)
<1>1. /\ c \in Seq(Sizes) /\ Len(c) = Len(s) /\ Len(s) \in Nat \ {0}
      /\ \A i \in 1..Len(s) : c[i] = s[i].rec
  BY RecsIs, TailShifts
<1>2. /\ t \in Seq(Extent) /\ Len(t) = Len(s) - 1
      /\ \A i \in 1..(Len(s) - 1) : t[i] = s[i + 1]
  BY TailShifts
<1>3. /\ Recs(t) \in Seq(Sizes) /\ Len(Recs(t)) = Len(t)
      /\ \A i \in 1..Len(t) : Recs(t)[i] = t[i].rec
  BY <1>2, RecsIs
<1> HIDE DEF c, t
<1>4. c # <<>> /\ Head(c) = s[1].rec
  BY <1>1
<1>5. /\ Tail(c) \in Seq(Sizes) /\ Len(Tail(c)) = Len(c) - 1
      /\ \A i \in 1..(Len(c) - 1) : Tail(c)[i] = c[i + 1]
  BY <1>1, <1>4, TailShifts
<1>6. ASSUME NEW i \in 1..Len(t) PROVE Recs(t)[i] = Tail(c)[i]
  <2>1. i \in 1..(Len(s) - 1) /\ i + 1 \in 1..Len(s)
    BY <1>1, <1>2
  <2> QED
    BY <2>1, <1>1, <1>2, <1>3, <1>5
<1>7. Recs(t) = Tail(c)
  BY <1>1, <1>2, <1>3, <1>5, <1>6, SeqEqual
<1> QED
  BY <1>4, <1>7 DEF c, t

LEMMA RecsAppend ==
  ASSUME NEW s \in Seq(Extent), NEW e \in Extent
  PROVE  Recs(Append(s, e)) = Append(Recs(s), e.rec)
<1> DEFINE c == Recs(s)
           t == Append(s, e)
<1>0. e.rec \in Sizes
  BY DEF Extent
<1>1. /\ c \in Seq(Sizes) /\ Len(c) = Len(s) /\ Len(s) \in Nat
      /\ \A i \in 1..Len(s) : c[i] = s[i].rec
  BY RecsIs
<1>2. /\ t \in Seq(Extent) /\ Len(t) = Len(s) + 1 /\ t[Len(s) + 1] = e
      /\ \A i \in 1..Len(s) : t[i] = s[i]
  BY AppendProperties
<1>3. /\ Recs(t) \in Seq(Sizes) /\ Len(Recs(t)) = Len(t)
      /\ \A i \in 1..Len(t) : Recs(t)[i] = t[i].rec
  BY <1>2, RecsIs
<1> HIDE DEF c, t
<1>4. /\ Append(c, e.rec) \in Seq(Sizes) /\ Len(Append(c, e.rec)) = Len(c) + 1
      /\ Append(c, e.rec)[Len(c) + 1] = e.rec
      /\ \A i \in 1..Len(c) : Append(c, e.rec)[i] = c[i]
  BY <1>0, <1>1, AppendProperties
<1>5. ASSUME NEW i \in 1..Len(t) PROVE Recs(t)[i] = Append(c, e.rec)[i]
  <2>1. i \in 1..Len(s) \/ i = Len(s) + 1
    BY <1>1, <1>2
  <2> QED
    BY <2>1, <1>1, <1>2, <1>3, <1>4
<1>6. Recs(t) = Append(c, e.rec)
  BY <1>1, <1>2, <1>3, <1>4, <1>5, SeqEqual
<1> QED
  BY <1>6 DEF c, t

\* Appending behind the record being read leaves it first.
LEMMA TailAppend ==
  ASSUME NEW S, NEW c \in Seq(S), NEW x \in S, c # <<>>
  PROVE  Tail(Append(c, x)) = Append(Tail(c), x)
<1>1. Len(c) \in Nat \ {0} /\ Tail(c) \in Seq(S) /\ Len(Tail(c)) = Len(c) - 1
  BY TailShifts
<1>2. \A i \in 1..(Len(c) - 1) : Tail(c)[i] = c[i + 1]
  BY TailShifts
<1>3. /\ Append(c, x) \in Seq(S) /\ Append(c, x) # <<>>
      /\ Len(Append(c, x)) = Len(c) + 1 /\ Append(c, x)[Len(c) + 1] = x
      /\ \A i \in 1..Len(c) : Append(c, x)[i] = c[i]
  BY AppendProperties
<1>4. /\ Tail(Append(c, x)) \in Seq(S) /\ Len(Tail(Append(c, x))) = Len(c)
      /\ \A i \in 1..Len(c) : Tail(Append(c, x))[i] = Append(c, x)[i + 1]
  BY <1>1, <1>3, TailShifts
<1>5. /\ Append(Tail(c), x) \in Seq(S) /\ Len(Append(Tail(c), x)) = Len(c)
      /\ Append(Tail(c), x)[Len(c)] = x
      /\ \A i \in 1..(Len(c) - 1) : Append(Tail(c), x)[i] = Tail(c)[i]
  <2>1. /\ Append(Tail(c), x) \in Seq(S) /\ Len(Append(Tail(c), x)) = Len(Tail(c)) + 1
        /\ Append(Tail(c), x)[Len(Tail(c)) + 1] = x
        /\ \A i \in 1..Len(Tail(c)) : Append(Tail(c), x)[i] = Tail(c)[i]
    BY <1>1, AppendProperties
  <2>2. Len(Tail(c)) + 1 = Len(c)
    BY <1>1
  <2> QED
    BY <1>1, <2>1, <2>2
<1>6. ASSUME NEW i \in 1..Len(c) PROVE Tail(Append(c, x))[i] = Append(Tail(c), x)[i]
  <2>1. CASE i = Len(c)
    <3>1. Tail(Append(c, x))[i] = Append(c, x)[i + 1]
      BY <1>4
    <3>2. Append(c, x)[i + 1] = x /\ Append(Tail(c), x)[i] = x
      BY <2>1, <1>3, <1>5
    <3> QED
      BY <3>1, <3>2
  <2>2. CASE i \in 1..(Len(c) - 1)
    <3>1. i + 1 \in 1..Len(c)
      BY <1>1, <2>2
    <3>2. Tail(Append(c, x))[i] = c[i + 1]
      BY <3>1, <1>3, <1>4
    <3>3. Append(Tail(c), x)[i] = c[i + 1]
      BY <2>2, <1>2, <1>5
    <3> QED
      BY <3>2, <3>3
  <2>3. \A n \in Nat \ {0} : \A j \in 1..n : j = n \/ j \in 1..(n - 1)
    OBVIOUS
  <2>4. i = Len(c) \/ i \in 1..(Len(c) - 1)
    BY <1>1, <2>3
  <2> QED
    BY <2>1, <2>2, <2>4
<1> QED
  BY <1>4, <1>5, <1>6, SeqEqual

\* What the abstract channel holds: the record being read has left it already.
Held == IF rpc = "update" THEN Tail(Contents) ELSE Contents

LEMMA StepImplementsFifo ==
  ASSUME IInv, IInv', [Next]_vars
  PROVE  [Fifo!Next]_<<Held, got>>
<1>0. TypeOK /\ TypeOK' /\ Reading /\ Writing
  BY DEF IInv
<1>1. Contents = Recs(unread) /\ Contents' = Recs(unread')
  BY DEF Contents, Recs
<1>2. unread \in Seq(Extent) /\ unread' \in Seq(Extent)
  BY <1>0 DEF TypeOK
<1>3. Recs(unread) \in Seq(Sizes) /\ (rpc = "update" => unread # <<>>)
  BY <1>0, <1>2, RecsIs DEF Reading
<1>4. CASE UNCHANGED <<unread, got>> /\ (rpc = "update" <=> rpc' = "update")
  BY <1>1, <1>4 DEF Held
<1>5. CASE CopyOut
  <2>1. /\ rpc = "copy" /\ rpc' = "update" /\ unread' = unread
        /\ got' = mem[rptr \div Align]
    BY <1>5 DEF CopyOut
  <2>2. unread # <<>> /\ got' = unread[1].rec
    BY <2>1, ReadsFirst
  <2>3. Held = Recs(unread) /\ Held' = Tail(Recs(unread))
    BY <1>1, <2>1 DEF Held
  <2>4. Held # <<>> /\ got' = Head(Held) /\ Held' = Tail(Held)
    BY <1>2, <2>2, <2>3, RecsTail
  <2> QED
    BY <2>4 DEF Fifo!Next, Fifo!Get, Held
<1>6. CASE UpdateWrite
  <2> DEFINE e == [rec |-> wnext, at |-> wptr, size |-> wsize, odd |-> wtOdd]
  <2>1. unread' = Append(unread, e) /\ UNCHANGED reader
    BY <1>6 DEF UpdateWrite
  <2>2. rpc' = rpc /\ got' = got
    BY <2>1 DEF reader
  <2>3. e \in Extent /\ e.rec = wnext /\ wnext \in Sizes
    BY <1>0 DEF TypeOK, Extent
  <2>4. Recs(unread') = Append(Recs(unread), wnext)
    BY <1>2, <2>1, <2>3, RecsAppend
  <2>5. Held' = Append(Held, wnext)
    <3>1. CASE rpc = "update"
      <4>1. Recs(unread) # <<>>
        BY <1>2, <1>3, <3>1, RecsTail
      <4>2. Tail(Append(Recs(unread), wnext)) = Append(Tail(Recs(unread)), wnext)
        BY <1>3, <2>3, <4>1, TailAppend
      <4> QED
        BY <1>1, <2>2, <2>4, <3>1, <4>2 DEF Held
    <3>2. CASE rpc # "update"
      BY <1>1, <2>2, <2>4, <3>2 DEF Held
    <3> QED
      BY <3>1, <3>2
  <2> QED
    BY <2>2, <2>3, <2>5 DEF Fifo!Next, Fifo!Put, Held
<1>7. CASE UpdateRead
  <2>1. rpc = "update" /\ rpc' = "load" /\ unread' = Tail(unread) /\ got' = got
    BY <1>7 DEF UpdateRead
  <2>2. Recs(unread') = Tail(Recs(unread))
    BY <1>2, <1>3, <2>1, RecsTail
  <2> QED
    BY <1>1, <2>1, <2>2 DEF Held
<1>8. CASE Reset
  <2>1. rpc' = "idle" /\ unread' = <<>> /\ got' = got
    BY <1>8 DEF Reset
  <2>2. Recs(unread') \in Seq(Sizes) /\ Len(Recs(unread')) = 0
    BY <1>2, <2>1, RecsIs, EmptySeq
  <2>3. Held' = <<>>
    BY <1>1, <2>1, <2>2, EmptySeq DEF Held
  <2> QED
    BY <2>1, <2>3 DEF Fifo!Next, Fifo!Clear, Held
<1>9. CASE WriterStep /\ ~UpdateWrite
  <2>1. UNCHANGED <<reader, unread>>
    BY <1>9 DEF WriterStep, ResetStep, RequestWrite, ResetClear, ResetFlip, ResetTimes, CopyIn
  <2> QED
    BY <2>1, <1>4 DEF reader
<1>10. CASE UpdateReserved
  BY <1>4, <1>10 DEF UpdateReserved, reader
<1>11. CASE ReaderStep /\ ~CopyOut /\ ~UpdateRead
  BY <1>4, <1>11 DEF ReaderStep, RequestRead, LoadWt, LoadRd, LoadTimes, StoreTimes
<1>12. CASE UNCHANGED vars
  BY <1>4, <1>12 DEF vars, reader
<1> QED
  BY <1>5, <1>6, <1>7, <1>8, <1>9, <1>10, <1>11, <1>12 DEF Next

\* The records come out whole, once and in order, for any size of the buffer and of the
\* records: copying one out takes the oldest, storing wt adds the newest, and every other
\* step leaves the channel as it is (kshm.c:237-315, 376-480).
THEOREM SpecImplementsFifo == Spec => ImplementsFifo
<1>1. Init => Fifo!Init
  <2> SUFFICES ASSUME Init PROVE Contents = <<>> /\ got \in Sizes /\ rpc # "update"
    BY DEF Fifo!Init
  <2>1. unread = <<>> /\ unread \in Seq(Extent) /\ Contents = Recs(unread)
    BY EmptySeq DEF Init, Contents, Recs
  <2>2. Contents = <<>>
    BY <2>1, RecsIs, EmptySeq
  <2> QED
    BY <2>2, KshmAssumption DEF Init
<1>2. IInv /\ IInv' /\ [Next]_vars =>
        [Fifo!Next]_<<IF rpc = "update" THEN Tail(Contents) ELSE Contents, got>>
  BY StepImplementsFifo DEF Held
<1> QED
  BY <1>1, <1>2, SpecIInv, PTL DEF Spec, ImplementsFifo, Fifo!Spec

=============================================================================
