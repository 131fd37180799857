------------------------------- MODULE Keymap -------------------------------
(***************************************************************************)
(* The scancode table of a remote control, drivers/input/rc/rc-main.c: an  *)
(* array kept sorted by scancode, grown when full, shrunk when two thirds  *)
(* are unused, and searched by halving.  It is loaded entry by entry when  *)
(* the device is registered and changed by ioctl afterwards, each under    *)
(* one lock.  scancode_mask, which nothing in the sources sets, is left    *)
(* out.                                                                    *)
(***************************************************************************)
EXTENDS Integers, FiniteSets, Sequences

CONSTANTS
  Scancodes,     \* numbers
  Keycodes,
  MaxTable,      \* entries of the table a device is registered with
  MinSize,       \* IR_TAB_MIN_SIZE, in entries
  MaxSize,       \* IR_TAB_MAX_SIZE, in entries
  NULL           \* KEY_RESERVED, and KEY_UNKNOWN, which stands for the same

VARIABLES
  scan,       \* rc_map->scan up to len: entries <<scancode, keycode>>
  size,       \* rc_map->size
  toload,     \* entries of the given table not yet copied
  failed,     \* the device could not be registered
  loaded,     \* history: scancodes copied so far
  doubled,    \* history: the given table has a scancode twice
  request     \* history: the last request, and whether it was granted

load == <<toload, failed, loaded, doubled>>
vars == <<scan, size, load, request>>

Entries == Scancodes \X (Keycodes \cup {NULL})

TypeOK ==
  /\ scan \in Seq(Entries)
  /\ size \in 1..MaxSize
  /\ toload \in 0..MaxTable /\ failed \in BOOLEAN
  /\ loaded \subseteq Scancodes /\ doubled \in BOOLEAN
  /\ request \in [scancode : Scancodes, key : Keycodes \cup {NULL}, granted : BOOLEAN]
                \cup {NULL}

\* The powers of two that a size may be.
Powers == {1, 2, 4, 8, 16, 32, 64, 128, 256, 512, 1024}

\* Fault: room for a power of two below.
RoundDown(n) == CHOOSE p \in Powers : p <= n /\ n < 2 * p

\* roundup_pow_of_two
RoundUp(n) == CHOOSE p \in Powers : n <= p /\ p < 2 * n

\* ir_create_table
Init ==
  /\ scan = <<>>
  /\ toload \in 1..MaxTable /\ size = RoundUp(toload)
  /\ failed = FALSE /\ loaded = {} /\ doubled = FALSE /\ request = NULL

Asks(s, k, granted) == request' = [scancode |-> s, key |-> k, granted |-> granted]

-----------------------------------------------------------------------------
(* The table.                                                              *)

\* ir_resize_table with n entries in use, if the allocation succeeds.
Resized(n) ==
  IF n = size THEN IF size >= MaxSize THEN size ELSE 2 * size
  ELSE IF n * 3 < size /\ size > MinSize THEN size \div 2 ELSE size

\* Fault: after the last entry that is lower or the same.
PlaceAfter(s) == 1 + Cardinality({i \in 1..Len(scan) : scan[i][1] <= s})

\* Where ir_establish_scancode stops: behind the lower scancodes.
Place(s) == 1 + Cardinality({i \in 1..Len(scan) : scan[i][1] < s})
Present(s) == Place(s) <= Len(scan) /\ scan[Place(s)][1] = s

\* The entries behind moved down by one, or up.
TakenOut(sq, i) == SubSeq(sq, 1, i - 1) \o SubSeq(sq, i + 1, Len(sq))
PutIn(sq, i, x) == SubSeq(sq, 1, i - 1) \o <<x>> \o SubSeq(sq, i, Len(sq))

\* ir_establish_scancode with room for one more.
Established(s) ==
  LET p == Place(s)
  IN  IF Present(s) THEN scan
      ELSE PutIn(scan, p, <<s, NULL>>)

\* ir_update_mapping: no key deletes the entry; the table may shrink when the
\* entry had a key before.
Update(sq, i, k, room) ==
  LET new == IF k = NULL THEN TakenOut(sq, i)
             ELSE [sq EXCEPT ![i] = <<@[1], k>>]
  IN  /\ scan' = new
      /\ size' \in IF sq[i][2] # NULL /\ room = size THEN {size, Resized(Len(new))} ELSE {room}

-----------------------------------------------------------------------------
(* ir_setkeytable: the loop over the entries given, then registration.     *)

Load(s, k) ==
  /\ toload > 0 /\ ~failed
  /\ toload' = toload - 1
  /\ loaded' = IF toload = 1 THEN {} ELSE loaded \cup {s}
  /\ doubled' = (doubled \/ s \in loaded)
  /\ IF Present(s) \/ Len(scan) < size
     THEN /\ Update(Established(s), Place(s), k, size)
          /\ UNCHANGED failed /\ Asks(s, k, TRUE)
     ELSE failed' = TRUE /\ scan' = <<>> /\ UNCHANGED size /\ Asks(s, k, FALSE)

-----------------------------------------------------------------------------
(* ir_setkeycode.                                                          *)

\* Fault: the table is not grown.
SetFull(s, k) ==
  /\ toload = 0 /\ ~failed
  /\ Update(Established(s), Place(s), k, size) /\ Asks(s, k, TRUE)
  /\ UNCHANGED load

\* By scancode; refused when the table is full and cannot grow.
Set(s, k) ==
  /\ toload = 0 /\ ~failed
  /\ IF Present(s) \/ Len(scan) < size
     THEN Update(Established(s), Place(s), k, size) /\ Asks(s, k, TRUE)
     ELSE \/ size < MaxSize /\ Update(Established(s), Place(s), k, 2 * size) /\ Asks(s, k, TRUE)
          \/ UNCHANGED <<scan, size>> /\ Asks(s, k, FALSE)
  /\ UNCHANGED load

\* By index.
SetIndex(i, k) ==
  /\ toload = 0 /\ ~failed /\ i <= Len(scan)
  /\ Update(scan, i, k, size) /\ Asks(scan[i][1], k, TRUE)
  /\ UNCHANGED load

Refused == failed /\ UNCHANGED vars

-----------------------------------------------------------------------------

Next ==
  \/ \E s \in Scancodes, k \in Keycodes \cup {NULL} : Load(s, k) \/ Set(s, k)
  \/ \E i \in 1..MaxSize, k \in Keycodes \cup {NULL} : SetIndex(i, k)
  \/ Refused

Spec == Init /\ [][Next]_vars

-----------------------------------------------------------------------------
(* The search.                                                             *)

\* bsearch: the index of s between the bounds b[1] and b[2], 0 if it is not there.
Search(s) ==
  LET f[b \in (1..(Len(scan) + 1)) \X (0..Len(scan))] ==
        IF b[1] > b[2] THEN 0
        ELSE LET mid == (b[1] + b[2]) \div 2
             IN  IF scan[mid][1] = s THEN mid
                 ELSE IF s < scan[mid][1] THEN f[<<b[1], mid - 1>>] ELSE f[<<mid + 1, b[2]>>]
  IN  f[<<1, Len(scan)>>]

\* rc_g_keycode_from_table
KeycodeFromTable(s) == LET i == Search(s) IN IF i = 0 THEN NULL ELSE scan[i][2]

-----------------------------------------------------------------------------
(* What the table is asked.                                                *)

State == IF failed THEN "failed" ELSE IF toload > 0 THEN "loading" ELSE "ready"

\* The search finds for each scancode the key of the last request granted for it,
\* through every insertion, deletion and change of size; no request touches another
\* scancode, and one that is refused touches none (rc-main.c:306-401, 416-484, 511-525).
K == INSTANCE KeyTable WITH map <- [s \in Scancodes |-> KeycodeFromTable(s)], state <- State
ImplementsKeyTable == K!Spec

\* The entries fit into what was allocated (rc-main.c:255-293, 376-393).
EntriesFit == Len(scan) <= size

\* A table that is given whole is taken whole: room for its entries was made
\* before, and only a scancode given twice can shrink it while it is loaded
\* (rc-main.c:335-342, 467-484).
GivenTableFits == failed => doubled
=============================================================================
