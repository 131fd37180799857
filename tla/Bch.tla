-------------------------------- MODULE Bch --------------------------------
(***************************************************************************)
(* A block device read and written as a character device, drivers/bch of   *)
(* third_party/nuttx, behind a file that block_proxy opens: parts of a     *)
(* sector go through a buffer of one sector, whole sectors past it.  Calls *)
(* hold the semaphore of the device, so that one call is one action.  All  *)
(* the bytes of a write are the same value.                                *)
(***************************************************************************)
EXTENDS Integers

CONSTANTS
  SectSize, NSectors,
  Bytes,       \* the values of a byte
  Junk,        \* that of one which may be any
  MaxFiles,    \* 255, where bch_open fails
  MayFail,     \* whether the block device may fail
  PerBlock     \* sectors of an erase block of it

VARIABLES
  medium,      \* what the block device holds, by sector
  sector,      \* the sector in the buffer, -1 if none
  buffer, dirty,
  refs,
  unlinked,
  there,       \* the device has been set up and not torn down
  wanted,      \* history: what a character device would hold
  behind,      \* history: places in the buffer that are not what was written: the sector
               \* could not be read, or was written past the buffer, and they were not since
  spoiled      \* history: places on the device whose write failed, or was of such places
               \* of the buffer, and which were not written since

cache == <<medium, sector, buffer, dirty, wanted, behind, spoiled>>
life == <<refs, unlinked, there>>
vars == <<cache, life>>

Sectors == 0..NSectors - 1
Offsets == 0..SectSize - 1
Contents == [Offsets -> Bytes \cup {Junk}]

Blank == [i \in Offsets |-> CHOOSE b \in Bytes : TRUE]

Smaller(m, n) == IF m <= n THEN m ELSE n

TypeOK ==
  /\ medium \in [Sectors -> Contents] /\ wanted \in [Sectors -> [Offsets -> Bytes]]
  /\ sector \in Sectors \cup {-1} /\ buffer \in Contents /\ dirty \in BOOLEAN
  /\ refs \in 0..MaxFiles /\ unlinked \in BOOLEAN /\ there \in BOOLEAN
  /\ behind \subseteq Offsets /\ spoiled \subseteq Sectors \X Offsets

Init ==
  /\ medium = [s \in Sectors |-> Blank]
  /\ wanted = medium
  /\ sector = -1 /\ dirty = FALSE /\ buffer = Blank
  /\ refs = 0 /\ unlinked = FALSE /\ there = FALSE
  /\ behind = {} /\ spoiled = {}

-----------------------------------------------------------------------------
(* What the calls do, on a record of the cache.                            *)

Cache ==
  [medium |-> medium, sector |-> sector, buffer |-> buffer, dirty |-> dirty,
   wanted |-> wanted, behind |-> behind, spoiled |-> spoiled]

\* The places of the sectors of S, and the sectors that are erased with one of them.
Places(S) == S \X Offsets
Around(S) == {t \in Sectors : \E s \in S : t \div PerBlock = s \div PerBlock}

\* b with v at places i to j - 1.
Put(b, i, j, v) == [k \in Offsets |-> IF i <= k /\ k < j THEN v ELSE b[k]]

\* A write of the sectors of S failed: any of them may be as it was, erased or written,
\* and the ones around them erased.
Ruin(c, S) ==
  [c EXCEPT
     !.medium = [s \in Sectors |-> IF s \in Around(S) THEN [i \in Offsets |-> Junk] ELSE @[s]],
     !.spoiled = @ \cup Places(Around(S))]

\* bchlib_flushsector: dirty is cleared whether the write succeeds or not.
Flush(c, fails) ==
  IF ~c.dirty THEN c
  ELSE IF fails THEN Ruin([c EXCEPT !.dirty = FALSE], {c.sector})
  ELSE [c EXCEPT !.dirty = FALSE, !.medium[c.sector] = c.buffer,
                 !.spoiled = (@ \ Places({c.sector})) \cup ({c.sector} \X c.behind)]

\* Fault: the buffer is taken for another sector before it was written.
ReadUnflushed(c, s, fails, part) ==
  IF c.sector = s THEN c
  ELSE [c EXCEPT !.dirty = FALSE, !.sector = s, !.buffer = c.medium[s],
                 !.behind = {k \in Offsets : <<s, k>> \in c.spoiled}]

\* bchlib_readsector, for the part (head or tail) of a request: after a read that
\* failed what the buffer has, old bytes or some of the new, is under the new number.
ReadSector(c, s, fails, part) ==
  IF c.sector = s THEN c
  ELSE LET f == Flush(c, fails = "flush") IN
       IF fails = part
       THEN [f EXCEPT !.sector = s, !.buffer = [i \in Offsets |-> Junk], !.behind = Offsets]
       ELSE [f EXCEPT !.sector = s, !.buffer = f.medium[s],
                      !.behind = {k \in Offsets : <<s, k>> \in f.spoiled}]

\* Fault: what is put into the buffer is not marked.
PartUnmarked(c, s, i, j, v, fails, part) ==
  LET r == ReadSector(c, s, fails, part) IN
  [r EXCEPT !.buffer = Put(@, i, j, v), !.wanted[s] = Put(@, i, j, v), !.behind = @ \ (i..j - 1)]

\* Bytes i to j - 1 of sector s are written into the buffer.
WritePart(c, s, i, j, v, fails, part) ==
  LET r == ReadSector(c, s, fails, part) IN
  [r EXCEPT !.buffer = Put(@, i, j, v), !.dirty = TRUE,
            !.wanted[s] = Put(@, i, j, v), !.behind = @ \ (i..j - 1)]

\* Sectors s to e - 1 are written past the buffer, which keeps what it holds.
WriteWhole(c, s, e, v) ==
  LET whole == [i \in Offsets |-> v]
      Over(m) == [t \in Sectors |-> IF t \in s..e - 1 THEN whole ELSE m[t]]
  IN [c EXCEPT !.medium = Over(@), !.wanted = Over(@), !.spoiled = @ \ Places(s..e - 1),
               !.behind = IF c.sector \in s..e - 1 THEN Offsets ELSE @]

-----------------------------------------------------------------------------
(* How a request is cut: a part of the first sector if it starts inside    *)
(* one, whole sectors, and a part of the last.                             *)

Pieces(offset, len) ==
  LET at == offset % SectSize
      head == IF at > 0 THEN Smaller(SectSize - at, len) ELSE 0
      s == offset \div SectSize + (IF at > 0 THEN 1 ELSE 0)
      e == Smaller(s + (len - head) \div SectSize, NSectors)
  IN [at |-> at, head |-> head, first |-> s, end |-> e,
      tail |-> IF e >= NSectors THEN 0 ELSE len - head - (e - s) * SectSize]

\* What of a call fails: at most one kind of the accesses to the block device it makes.
Failures(p) ==
  {"none"} \cup
    {x \in {"flush", "head", "whole", "tail"} :
       /\ MayFail
       /\ CASE x = "flush" -> dirty \/ p.head > 0
            [] x = "head" -> p.head > 0
            [] x = "whole" -> p.first < p.end
            [] x = "tail" -> p.tail > 0}

Requests == {r \in (0..NSectors * SectSize - 1) \X (1..NSectors * SectSize) :
               r[1] + r[2] <= NSectors * SectSize + 1}

\* What should be at a place that is right neither in the buffer nor on the device is
\* forgotten.
StillWanted(c) ==
  [s \in Sectors |-> [k \in Offsets |->
     IF <<s, k>> \in c.spoiled /\ (c.sector # s \/ k \in c.behind) THEN Blank[k]
     ELSE c.wanted[s][k]]]

Become(c) ==
  /\ medium' = c.medium /\ sector' = c.sector /\ buffer' = c.buffer /\ dirty' = c.dirty
  /\ wanted' = StillWanted(c) /\ behind' = c.behind /\ spoiled' = c.spoiled

\* bchlib_write of the pieces p: a part, whole sectors, a part.  A flush or a write of
\* whole sectors that fails ends it.
HeadWritten(p, v, fails) ==
  IF p.head = 0 THEN Cache
  ELSE WritePart(Cache, p.first - 1, p.at, p.at + p.head, v, fails, "head")

WholeFails(p, c, fails) ==
  p.first < p.end /\ (fails = "whole" \/ (fails = "flush" /\ c.dirty))

\* Fault: a write that failed is taken to have left the device as it was.
WholeUnspoiled(p, c, v, fails) ==
  IF p.first >= p.end THEN c
  ELSE LET f == Flush(c, fails = "flush") IN
       IF ~WholeFails(p, c, fails) THEN WriteWhole(f, p.first, p.end, v)
       ELSE IF fails = "flush" THEN f
       ELSE [Ruin(f, p.first..p.end - 1) EXCEPT !.spoiled = f.spoiled]

WholeWritten(p, c, v, fails) ==
  IF p.first >= p.end THEN c
  ELSE LET f == Flush(c, fails = "flush") IN
       IF ~WholeFails(p, c, fails) THEN WriteWhole(f, p.first, p.end, v)
       ELSE IF fails = "flush" THEN f
       ELSE Ruin(f, p.first..p.end - 1)

Written(p, v, fails) ==
  LET c == HeadWritten(p, v, fails)
      w == WholeWritten(p, c, v, fails)
  IN IF p.tail = 0 \/ WholeFails(p, c, fails) THEN w
     ELSE WritePart(w, p.end, 0, p.tail, v, fails, "tail")

\* bch_write
Write ==
  /\ refs > 0
  /\ \E c \in UNION {{Written(Pieces(r[1], r[2]), v, fails) :
                       v \in Bytes, fails \in Failures(Pieces(r[1], r[2]))} : r \in Requests} :
       Become(c)
  /\ UNCHANGED life

\* bchlib_read, likewise; only the read of whole sectors is looked at for failure.
HeadRead(p, fails) ==
  IF p.head = 0 THEN Cache ELSE ReadSector(Cache, p.first - 1, fails, "head")

ReadFails(p, fails) == p.first < p.end /\ fails = "whole"

TailRead(p, fails) ==
  LET c == HeadRead(p, fails) IN
  IF p.tail = 0 \/ ReadFails(p, fails) THEN c ELSE ReadSector(c, p.end, fails, "tail")

\* bch_read
Read ==
  /\ refs > 0
  /\ \E c \in UNION {{TailRead(Pieces(r[1], r[2]), fails) :
                       fails \in Failures(Pieces(r[1], r[2]))} : r \in Requests} :
       Become(c)
  /\ UNCHANGED life

-----------------------------------------------------------------------------

\* bchdev_register: bchlib_setup and register_driver.  What the new buffer holds is not
\* initialised.
Setup ==
  /\ ~there
  /\ there' = TRUE /\ refs' = 0 /\ unlinked' = FALSE
  /\ sector' = -1 /\ dirty' = FALSE /\ buffer' = [i \in Offsets |-> Junk] /\ behind' = {}
  /\ UNCHANGED <<medium, wanted, spoiled>>

\* bch_open; a name that was removed is not found.
Open ==
  /\ there /\ ~unlinked /\ refs < MaxFiles
  /\ refs' = refs + 1
  /\ UNCHANGED <<cache, unlinked, there>>

\* Fault: it is flushed only when it is torn down.
CloseUnflushed ==
  /\ refs > 0
  /\ refs' = refs - 1 /\ there' = ~(refs = 1 /\ unlinked)
  /\ UNCHANGED <<cache, unlinked>>

\* bch_close, which tears an unlinked device down with its last file.
Close ==
  /\ refs > 0
  /\ \E fails \in {FALSE, MayFail} : Become(Flush(Cache, fails))
  /\ refs' = refs - 1
  /\ there' = ~(refs = 1 /\ unlinked)
  /\ UNCHANGED unlinked

\* bch_unlink, which tears it down at once if no file is open.
Unlink ==
  /\ there /\ ~unlinked
  /\ unlinked' = TRUE
  /\ there' = (refs > 0)
  /\ IF refs = 0
     THEN \E fails \in {FALSE, MayFail} : Become(Flush(Cache, fails))
     ELSE UNCHANGED cache
  /\ UNCHANGED refs

Next == Setup \/ Open \/ Close \/ Unlink \/ Write \/ Read

Spec == Init /\ [][Next]_vars

-----------------------------------------------------------------------------

\* The buffer and the medium together hold what was written, byte by byte: the buffer if
\* it has the sector, and the medium too unless it is dirty.  A flush that fails leaves the
\* buffer right, a sector written past the buffer is right on the medium, and the next
\* write of a byte makes it right again.  Excepted until then are, on the medium, what is
\* erased with a write that failed, and in the buffer a sector that could not be read or
\* was written past it (bchlib_cache.c:112-191, bchlib_write.c:84-188, ftl.c:348-372).
HoldsWritten ==
  \A s \in Sectors, k \in Offsets :
    /\ sector = s /\ k \notin behind => buffer[k] = wanted[s][k]
    /\ (sector = s /\ dirty) \/ <<s, k>> \in spoiled \/ medium[s][k] = wanted[s][k]

\* Whether bytes i to j - 1 of the buffer, or the sectors of S on the medium, are those a
\* character device has.
RightPart(c, i, j) ==
  \A k \in (i..j - 1) \ c.behind : c.buffer[k] = c.wanted[c.sector][k]

RightWhole(c, S) ==
  \A s \in S, k \in Offsets : <<s, k>> \notin c.spoiled => c.medium[s][k] = c.wanted[s][k]

\* Once no file is open everything written is on the medium, but for what failed
\* (bchdev_driver.c:160-206).
ClosedIsWritten == refs = 0 => RightWhole(Cache, Sectors)

\* The sector that is read from the medium while the buffer, c, has it dirty.
Past(p, c) == IF c.dirty THEN (p.first..p.end - 1) \cap {c.sector} ELSE {}

\* A read returns what was written, whatever is asked for and whichever access fails,
\* unless it goes past a dirty buffer (bchlib_read.c:71-190).
ReadsWritten ==
  refs > 0 => \A r \in Requests : \A fails \in Failures(Pieces(r[1], r[2])) :
    LET p == Pieces(r[1], r[2])
        c == HeadRead(p, fails)
    IN /\ p.head > 0 => RightPart(c, p.at, p.at + p.head)
       /\ ~ReadFails(p, fails) => RightWhole(c, (p.first..p.end - 1) \ Past(p, c))
       /\ p.tail > 0 /\ ~ReadFails(p, fails) => RightPart(TailRead(p, fails), 0, p.tail)
=============================================================================
