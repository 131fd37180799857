---------------------------- MODULE Lists_proofs ----------------------------
(***************************************************************************)
(* What taking an entry off a list, and appending one, do to its entries.  *)
(***************************************************************************)
EXTENDS Lists, SequenceTheorems, TLAPS


\* r holds what s holds, without w, or with it.
IsWithout(r, s, w) == NoRepeat(r) /\ \A v : OnList(v, r) <=> v # w /\ OnList(v, s)
IsWith(r, s, w) == NoRepeat(r) /\ \A v : OnList(v, r) <=> v = w \/ OnList(v, s)

\* Taking position i out of a list moves the later entries down by one.
LEMMA TakenOutIsShift ==
  ASSUME NEW S, NEW s \in Seq(S), NEW i \in 1..Len(s)
  PROVE  /\ TakenOut(s, i) \in Seq(S)
         /\ Len(TakenOut(s, i)) = Len(s) - 1
         /\ \A k \in 1..(Len(s) - 1) :
              TakenOut(s, i)[k] = IF k < i THEN s[k] ELSE s[k + 1]
<1> DEFINE a == SubSeq(s, 1, i - 1)
           b == SubSeq(s, i + 1, Len(s))
<1>1. /\ a \in Seq(S) /\ Len(a) = i - 1
      /\ \A k \in 1..(i - 1) : a[k] = s[k]
  BY SubSeqProperties
<1>2. /\ b \in Seq(S) /\ Len(b) = Len(s) - i
      /\ \A k \in 1..(Len(s) - i) : b[k] = s[i + k]
  BY SubSeqProperties
<1>3. TakenOut(s, i) = a \o b
  BY DEF TakenOut
<1> HIDE DEF a, b
<1>4. /\ a \o b \in Seq(S) /\ Len(a \o b) = Len(s) - 1
      /\ \A k \in 1..(Len(s) - 1) :
           (a \o b)[k] = IF k <= i - 1 THEN a[k] ELSE b[k - (i - 1)]
  <2>1. /\ a \o b \in Seq(S) /\ Len(a \o b) = Len(a) + Len(b)
        /\ \A k \in 1..(Len(a) + Len(b)) :
             (a \o b)[k] = IF k <= Len(a) THEN a[k] ELSE b[k - Len(a)]
    BY <1>1, <1>2, ConcatProperties
  <2>2. Len(a) + Len(b) = Len(s) - 1
    BY <1>1, <1>2
  <2> QED
    BY <1>1, <2>1, <2>2
<1>5. ASSUME NEW k \in 1..(Len(s) - 1)
      PROVE  (a \o b)[k] = IF k < i THEN s[k] ELSE s[k + 1]
  BY <1>1, <1>2, <1>4
<1> QED
  BY <1>3, <1>4, <1>5

\* Taking an entry off a list takes off that entry and no other.
LEMMA WithoutRemoves ==
  ASSUME NEW S, NEW s \in Seq(S), NoRepeat(s), NEW w,
         OnList(w, s)
  PROVE  Without(s, w) \in Seq(S) /\ IsWithout(Without(s, w), s, w)
<1>1. PICK p \in DOMAIN s : p = CHOOSE i \in DOMAIN s : s[i] = w
  BY DEF OnList
<1>2. s[p] = w /\ p \in 1..Len(s)
  BY <1>1 DEF OnList
<1>3. Without(s, w) = TakenOut(s, p)
  BY <1>1 DEF Without, OnList
<1> DEFINE r == TakenOut(s, p)
<1>4. /\ r \in Seq(S) /\ Len(r) = Len(s) - 1
      /\ \A k \in 1..(Len(s) - 1) : r[k] = IF k < p THEN s[k] ELSE s[k + 1]
  BY <1>2, TakenOutIsShift
<1> HIDE DEF r
<1>5. DOMAIN r = 1..(Len(s) - 1) /\ DOMAIN s = 1..Len(s) /\ Len(s) \in Nat
  BY <1>4
<1>6. NoRepeat(r)
  <2> SUFFICES ASSUME NEW i \in DOMAIN r, NEW k \in DOMAIN r, r[i] = r[k]
               PROVE  i = k
    BY DEF NoRepeat
  <2> DEFINE At(n) == IF n < p THEN n ELSE n + 1
  <2>1. At(i) \in DOMAIN s /\ At(k) \in DOMAIN s
    BY <1>2, <1>5
  <2>2. r[i] = s[At(i)] /\ r[k] = s[At(k)]
    BY <1>4, <1>5
  <2>3. At(i) = At(k)
    BY <2>1, <2>2 DEF NoRepeat
  <2> QED
    BY <2>3, <1>2, <1>5
<1>7. ASSUME NEW v
      PROVE  OnList(v, r) <=> v # w /\ OnList(v, s)
  <2>1. ASSUME NEW i \in DOMAIN r
        PROVE  r[i] # w /\ \E k \in DOMAIN s : s[k] = r[i]
    BY <1>2, <1>4, <1>5 DEF NoRepeat
  <2>2. ASSUME NEW k \in DOMAIN s, s[k] # w
        PROVE  \E i \in DOMAIN r : r[i] = s[k]
    <3>1. CASE k < p
      BY <3>1, <1>2, <1>4, <1>5
    <3>2. CASE k > p
      <4>1. k - 1 \in DOMAIN r /\ r[k - 1] = s[k]
        BY <3>2, <1>2, <1>4, <1>5
      <4> QED BY <4>1
    <3> QED BY <3>1, <3>2, <2>2, <1>2, <1>5
  <2> QED BY <2>1, <2>2 DEF OnList
<1> QED
  BY <1>3, <1>4, <1>6, <1>7 DEF r, IsWithout

\* Appending an entry that is not on a list adds it and no other.
LEMMA AppendAdds ==
  ASSUME NEW S, NEW s \in Seq(S), NoRepeat(s), NEW w \in S,
         ~OnList(w, s)
  PROVE  Append(s, w) \in Seq(S) /\ IsWith(Append(s, w), s, w)
<1> DEFINE r == Append(s, w)
<1>1. /\ r \in Seq(S) /\ Len(r) = Len(s) + 1 /\ r[Len(s) + 1] = w
      /\ \A k \in 1..Len(s) : r[k] = s[k]
  BY AppendProperties
<1> HIDE DEF r
<1>2. DOMAIN r = 1..(Len(s) + 1) /\ DOMAIN s = 1..Len(s) /\ Len(s) \in Nat
  BY <1>1
<1>3. NoRepeat(r)
  BY <1>1, <1>2 DEF NoRepeat, OnList
<1>4. ASSUME NEW v
      PROVE  OnList(v, r) <=> v = w \/ OnList(v, s)
  <2>1. ASSUME NEW i \in DOMAIN r, r[i] # w PROVE i \in DOMAIN s /\ s[i] = r[i]
    BY <2>1, <1>1, <1>2
  <2>2. ASSUME NEW i \in DOMAIN s PROVE i \in DOMAIN r /\ r[i] = s[i]
    BY <1>1, <1>2
  <2>3. Len(s) + 1 \in DOMAIN r /\ r[Len(s) + 1] = w
    BY <1>1, <1>2
  <2> QED BY <2>1, <2>2, <2>3 DEF OnList
<1> QED
  BY <1>1, <1>3, <1>4 DEF r, IsWith
=============================================================================
