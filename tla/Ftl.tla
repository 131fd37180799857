-------------------------------- MODULE Ftl --------------------------------
(***************************************************************************)
(* A flash device written as a block device, drivers/mtd/ftl.c of          *)
(* third_party/nuttx without its write buffer: a write is cut at the       *)
(* bounds of the erase blocks, and an erase block of which it covers a     *)
(* part is read, erased and written again with that part changed.  Each    *)
(* access to the flash is a step, and may fail, and before any of them the *)
(* power may go.  Calls come one at a time.  Of the data of a block no     *)
(* more is kept than which block they are meant for, and whether they are  *)
(* those of the call under way or older.                                   *)
(***************************************************************************)
EXTENDS Integers

CONSTANTS
  Per,        \* blkper, blocks of an erase block, a power of 2
  NErase      \* erase blocks

VARIABLES
  flash,      \* what the device holds, by block
  eblock,     \* the erase block in memory, as far as a call has read it
  phase,
  startblock, nblocks,
  current,    \* startblock or alignedblock: where the call has come to
  remaining,
  source,     \* buffer, in blocks from its beginning
  wiped        \* history: blocks of an erase block that could not be written again

flashed == <<flash, eblock, wiped>>
call == <<phase, startblock, nblocks, current, remaining, source>>
vars == <<flashed, call>>

Size == Per * NErase
Blocks == 0..Size - 1
Offsets == 0..Per - 1
Erased == [of |-> Size, new |-> FALSE]
Values == [of : Blocks, new : BOOLEAN] \cup {Erased}

Old(b) == [of |-> b, new |-> FALSE]

First(b) == b - (b % Per)
EraseBlock(b) == First(b)..First(b) + Per - 1

TypeOK ==
  /\ flash \in [Blocks -> Values] /\ eblock \in [Offsets -> Values]
  /\ phase \in {"idle", "go", "erase", "write"}
  /\ startblock \in Blocks /\ nblocks \in 0..Size
  /\ current \in 0..Size /\ remaining \in 0..Size /\ source \in 0..Size
  /\ wiped \subseteq Blocks

Init ==
  /\ flash = [b \in Blocks |-> Old(b)] /\ eblock = [i \in Offsets |-> Erased] /\ wiped = {}
  /\ phase = "idle" /\ startblock = 0 /\ nblocks = 0
  /\ current = 0 /\ remaining = 0 /\ source = 0

Smaller(m, n) == IF m <= n THEN m ELSE n

\* The next piece covers a part of an erase block: the head of the request, which may
\* be all of it, or the tail.
Partial == current % Per # 0 \/ remaining < Per

\* Fault: the head goes to the end of its erase block even if the request is shorter.
PieceUnbounded == Per - (current % Per)

\* Blocks of the next piece: nbytes, and what is taken off remaining.
Piece == Smaller(remaining, Per - (current % Per))

Passed == startblock..current - 1

\* The call returns, and its data are old now, f being what the flash holds.
Return(f) ==
  /\ phase' = "idle" /\ startblock' = 0 /\ nblocks' = 0
  /\ current' = 0 /\ remaining' = 0 /\ source' = 0
  /\ eblock' = [i \in Offsets |-> Erased]
  /\ flash' = [b \in Blocks |-> IF b \in wiped' THEN Erased ELSE Old(f[b].of)]

\* The erase block under way is lost; no second one before the first was written again.
Lose == wiped \subseteq EraseBlock(current) /\ wiped' = EraseBlock(current)

\* ftl_flush is called.
Write ==
  /\ phase = "idle"
  /\ \E s \in Blocks, n \in 1..Size :
       /\ s + n <= Size
       /\ startblock' = s /\ nblocks' = n
       /\ current' = s /\ remaining' = n /\ source' = 0
  /\ phase' = "go"
  /\ UNCHANGED flashed

\* ftl_alloc_eblock and MTD_BREAD, either of which may fail.
ReadErase ==
  /\ phase = "go" /\ remaining > 0 /\ Partial
  /\ UNCHANGED wiped
  /\ \/ /\ eblock' = [i \in Offsets |-> flash[First(current) + i]]
        /\ phase' = "erase"
        /\ UNCHANGED <<flash, startblock, nblocks, current, remaining, source>>
     \/ Return(flash)

\* MTD_ERASE; what a failed one leaves is not known.
Erase ==
  /\ phase = "erase" \/ (phase = "go" /\ remaining > 0 /\ ~Partial)
  /\ \/ /\ flash' = [b \in Blocks |->
                       IF b \in EraseBlock(current) THEN Erased ELSE flash[b]]
        /\ phase' = "write"
        /\ UNCHANGED <<eblock, wiped, startblock, nblocks, current, remaining, source>>
     \/ Lose /\ Return(flash)

\* Fault: the piece is copied to the beginning of the erase block.
ChangedInFront ==
  [i \in Offsets |->
     IF i < Piece THEN [of |-> startblock + source + i, new |-> TRUE] ELSE eblock[i]]

\* What is written back: the buffered erase block with the piece copied into it; a
\* whole erase block comes from the buffer of the caller.
Changed ==
  LET o == current % Per IN
  [i \in Offsets |->
     IF o <= i /\ i < o + Piece THEN [of |-> startblock + source + i - o, new |-> TRUE]
     ELSE eblock[i]]

\* MTD_BWRITE; what a failed one leaves is not known.
WriteErase ==
  /\ phase = "write"
  /\ \/ /\ flash' = [b \in Blocks |->
                       IF b \in EraseBlock(current) THEN Changed[b - First(current)]
                       ELSE flash[b]]
        /\ current' = current + Piece /\ remaining' = remaining - Piece
        /\ source' = source + Piece
        /\ phase' = "go"
        /\ wiped' = wiped \ (current..current + Piece - 1)
        /\ UNCHANGED <<eblock, startblock, nblocks>>
     \/ Lose /\ Return(flash)

Done ==
  /\ phase = "go" /\ remaining = 0
  /\ UNCHANGED wiped
  /\ Return(flash)

\* The power goes, and with it what is in memory.
PowerCut ==
  /\ phase # "idle"
  /\ IF phase = "write" THEN Lose ELSE UNCHANGED wiped
  /\ Return(flash)

Next == Write \/ ReadErase \/ Erase \/ WriteErase \/ Done \/ PowerCut

Spec == Init /\ [][Next]_vars

-----------------------------------------------------------------------------

\* Every block holds the data written to it last, those of the call under way as far as
\* it has come, and so what the call does not name is kept.  Excepted is the erase block
\* between its erase and the end of the write, and what a failure or a power cut in
\* that time has lost (ftl.c:271-429).
NeighboursKept ==
  \A b \in Blocks \ wiped :
    \/ flash[b] = [of |-> b, new |-> phase # "idle" /\ b \in Passed]
    \/ phase = "write" /\ b \in EraseBlock(current)

\* A call that returns nblocks has written them all (ftl.c:332-345, 374-378, 431).
ReturnsAllWritten == phase = "go" => current + remaining = startblock + nblocks
=============================================================================
