-------------------------------- MODULE Lists --------------------------------
(***************************************************************************)
(* The intrusive lists of the kernel (kernel/list.h, NuttX's dq_queue_t) as *)
(* sequences of the structures linked on them.                             *)
(***************************************************************************)
EXTENDS Naturals, Sequences

\* v is linked on the list.
OnList(v, s) == \E i \in DOMAIN s : s[i] = v

\* Nothing is linked twice.
NoRepeat(s) == \A i, k \in DOMAIN s : s[i] = s[k] => i = k

\* The list without its i-th entry, whose neighbours are linked to each other.
TakenOut(s, i) == SubSeq(s, 1, i - 1) \o SubSeq(s, i + 1, Len(s))

\* The list without w: list_del_init of an entry that is on it, or on none.
Without(s, w) ==
  IF OnList(w, s) THEN TakenOut(s, CHOOSE i \in DOMAIN s : s[i] = w) ELSE s
=============================================================================
