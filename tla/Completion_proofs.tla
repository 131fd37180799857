-------------------------- MODULE Completion_proofs --------------------------
(***************************************************************************)
(* Proofs about Completion: the list for any number of waiters, and the    *)
(* assertion and the wakeup for a completion with a single one.            *)
(***************************************************************************)
EXTENDS Completion, Lists_proofs

-----------------------------------------------------------------------------
(* What the list operations do to the entries.                             *)

\* No entry of r is repeated and each is one of s.
IsPart(r, s) == NoRepeat(r) /\ \A v : OnList(v, r) => OnList(v, s)

\* complete takes the first waiter off, and no other.
LEMMA TailIsPart ==
  ASSUME NEW S, NEW s \in Seq(S), s # <<>>, NoRepeat(s)
  PROVE  Tail(s) \in Seq(S) /\ Head(s) \in S /\ IsPart(Tail(s), s)
<1>1. /\ Tail(s) \in Seq(S) /\ Head(s) \in S /\ Len(Tail(s)) = Len(s) - 1
      /\ \A i \in 1..Len(Tail(s)) : Tail(s)[i] = s[i + 1]
  BY HeadTailProperties
<1> DEFINE r == Tail(s)
<1>2. /\ r \in Seq(S) /\ Len(r) = Len(s) - 1
      /\ \A i \in 1..Len(r) : r[i] = s[i + 1]
  BY <1>1
<1> HIDE DEF r
<1>3. DOMAIN r = 1..(Len(s) - 1) /\ DOMAIN s = 1..Len(s) /\ Len(s) \in Nat
  BY <1>2
<1>4. \A i \in DOMAIN r : i + 1 \in DOMAIN s /\ r[i] = s[i + 1]
  BY <1>2, <1>3
<1>5. NoRepeat(r)
  <2> SUFFICES ASSUME NEW i \in DOMAIN r, NEW k \in DOMAIN r, r[i] = r[k]
               PROVE  i = k
    BY DEF NoRepeat
  <2>1. i + 1 = k + 1
    BY <1>4 DEF NoRepeat
  <2> QED
    BY <1>3, <2>1
<1>6. \A v : OnList(v, r) => OnList(v, s)
  BY <1>4 DEF OnList
<1> QED
  BY <1>1, <1>5, <1>6 DEF r, IsPart

\* complete keeps the type and puts nobody on the list.
LEMMA CompleteKeepsList ==
  ASSUME x \in Completion(Waiters), NoRepeat(x.tasks)
  PROVE  /\ Complete(x) \in Completion(Waiters)
         /\ Woken(x) \subseteq Waiters
         /\ IsPart(Complete(x).tasks, x.tasks)
<1>1. CASE x.tasks = <<>>
  BY <1>1, DoneMaxAssumption
  DEF Completion, Complete, Woken, IsPart, NoRepeat, OnList
<1>2. CASE x.tasks # <<>>
  <2>1. /\ Tail(x.tasks) \in Seq(Waiters) /\ Head(x.tasks) \in Waiters
        /\ IsPart(Tail(x.tasks), x.tasks)
    BY <1>2, TailIsPart DEF Completion
  <2> QED
    BY <1>2, <2>1, DoneMaxAssumption DEF Completion, Complete, Woken
<1> QED
  BY <1>1, <1>2

\* list_del_init by a waiter takes its own entry off.
LEMMA UnlistTakesOff ==
  ASSUME x \in Completion(Waiters), NoRepeat(x.tasks), NEW t
  PROVE  /\ Unlist(x, t) \in Completion(Waiters)
         /\ IsPart(Unlist(x, t).tasks, x.tasks)
         /\ ~OnList(t, Unlist(x, t).tasks)
         /\ Unlist(x, t).done = x.done
<1> DEFINE s == x.tasks
<1>1. s \in Seq(Waiters) /\ Unlist(x, t) = [x EXCEPT !.tasks = Without(s, t)]
  BY DEF Completion, Unlist
<1>2. CASE OnList(t, s)
  <2>1. Without(s, t) \in Seq(Waiters) /\ IsWithout(Without(s, t), s, t)
    BY <1>1, <1>2, WithoutRemoves
  <2> QED
    BY <1>1, <2>1 DEF Completion, IsWithout, IsPart
<1>3. CASE ~OnList(t, s)
  BY <1>1, <1>3 DEF Completion, Without, IsPart
<1> QED
  BY <1>2, <1>3

\* list_add_tail of a task that is on no list adds that task only.
LEMMA EnlistAdds ==
  ASSUME x \in Completion(Waiters), NoRepeat(x.tasks),
         NEW t \in Waiters, ~OnList(t, x.tasks)
  PROVE  /\ Enlist(x, t) \in Completion(Waiters)
         /\ IsWith(Enlist(x, t).tasks, x.tasks, t)
         /\ Enlist(x, t).done = x.done
BY AppendAdds DEF Completion, Enlist

-----------------------------------------------------------------------------
(* Any number of waiters.                                                  *)

\* The list is without repetition, and of waits under way; a token about to be
\* taken is one.
IInv ==
  /\ TypeOK
  /\ NoRepeat(x.tasks)
  /\ NoDanglingWaiter
  /\ \A t \in Waiters : At(t, "store") => reg[t] # 0

\* A new completion has an empty list.
LEMMA InitIInv == Init => IInv
BY DoneMaxAssumption, CompletionAssumption
DEF Init, IInv, TypeOK, NoDanglingWaiter, Completion, InitCompletion, NoRepeat,
    Listed, OnList, Unbounded, At

\* Every step of a waiter and every complete keeps the invariant.
LEMMA NextIInv == IInv /\ [Next]_vars => IInv'
<1> SUFFICES ASSUME IInv, [Next]_vars PROVE IInv'
  OBVIOUS
<1> USE DoneMaxAssumption, CompletionAssumption
<1>0. x \in Completion(Waiters) /\ NoRepeat(x.tasks)
  BY DEF IInv, TypeOK
<1>1. ASSUME NEW t \in Waiters, Enter(t) PROVE IInv'
  BY <1>1 DEF Enter, At, Go, IInv, TypeOK, NoDanglingWaiter, Listed
<1>2. ASSUME NEW t \in Waiters, AddWaiter(t) PROVE IInv'
  <2>1. ~OnList(t, x.tasks)
    BY <1>2 DEF AddWaiter, At, IInv, NoDanglingWaiter, Listed
  <2>2. /\ x' \in Completion(Waiters)
        /\ NoRepeat(x'.tasks)
        /\ \A v : OnList(v, x'.tasks) => v = t \/ OnList(v, x.tasks)
    BY <1>0, <1>2, <2>1, EnlistAdds DEF AddWaiter, IsWith
  <2> QED
    BY <1>2, <2>2 DEF AddWaiter, At, Go, IInv, TypeOK, NoDanglingWaiter, Listed
<1>3. ASSUME NEW t \in Waiters, Loop(t) PROVE IInv'
  BY <1>3 DEF Loop, At, Go, IInv, TypeOK, NoDanglingWaiter, Listed
<1>4. ASSUME NEW t \in Waiters, CheckTimeOut(t) PROVE IInv'
  BY <1>4 DEF CheckTimeOut, At, Go, IInv, TypeOK, NoDanglingWaiter, Listed
<1>5. ASSUME NEW t \in Waiters, Wake(t) PROVE IInv'
  BY <1>5 DEF Wake, At, Go, IInv, TypeOK, NoDanglingWaiter, Listed
<1>6. ASSUME NEW t \in Waiters, Expire(t) \/ Leave(t) PROVE IInv'
  <2>1. x' = Unlist(x, t)
    BY <1>6 DEF Expire, Leave
  <2>2. /\ x' \in Completion(Waiters)
        /\ NoRepeat(x'.tasks)
        /\ \A v : OnList(v, x'.tasks) => v # t /\ OnList(v, x.tasks)
    BY <1>0, <2>1, UnlistTakesOff DEF IsPart
  <2> QED
    BY <1>6, <2>2
    DEF Expire, Leave, At, Go, IInv, TypeOK, NoDanglingWaiter, Listed
<1>7. ASSUME NEW t \in Waiters, Take(t) PROVE IInv'
  <2>1. x.done \in 0..DoneMax
    BY <1>0 DEF Completion
  <2>2. credit' \in 0..Unbounded
    BY <1>7 DEF Take, IInv, TypeOK, Used, Unbounded
  <2> QED
    BY <1>7, <2>1, <2>2 DEF Take, At, Go, IInv, TypeOK, NoDanglingWaiter, Listed
<1>8. ASSUME NEW t \in Waiters, Store(t) PROVE IInv'
  <2>1. credit' \in 0..Unbounded
    BY <1>8 DEF Store, IInv, TypeOK, Used, Unbounded
  <2>2. x' \in Completion(Waiters) /\ x'.tasks = x.tasks
    <3>1. reg[t] \in 0..DoneMax /\ reg[t] # 0
      BY <1>8 DEF Store, IInv, TypeOK
    <3>2. reg[t] - 1 \in 0..DoneMax
      BY <3>1
    <3> QED
      BY <1>0, <1>8, <3>2 DEF Store, Completion
  <2> QED
    BY <1>8, <2>1, <2>2 DEF Store, At, Go, IInv, TypeOK, NoDanglingWaiter, Listed
<1>9. CASE Post
  <2>1. /\ x' \in Completion(Waiters) /\ notified' \subseteq Waiters
        /\ IsPart(x'.tasks, x.tasks)
    BY <1>0, <1>9, CompleteKeepsList DEF Post, IInv, TypeOK
  <2>2. credit' \in 0..Unbounded
    BY <1>9 DEF Post, IInv, TypeOK, Credited, Unbounded
  <2> QED
    BY <1>9, <2>1, <2>2
    DEF Post, At, IInv, TypeOK, NoDanglingWaiter, Listed, IsPart
<1>10. CASE PostAll
  <2>1. /\ x' \in Completion(Waiters) /\ x'.tasks = <<>>
        /\ notified' \subseteq Waiters /\ credit' \in 0..Unbounded
    <3>1. WokenAll(x) \subseteq Waiters
      BY <1>0 DEF WokenAll, Completion, ToSet
    <3> QED
      BY <1>10, <3>1 DEF PostAll, CompleteAll, Completion, IInv, TypeOK, Unbounded
  <2> QED
    BY <1>10, <2>1
    DEF PostAll, At, IInv, TypeOK, NoDanglingWaiter, Listed, OnList, NoRepeat
<1>11. CASE Rearm
  <2>1. x' \in Completion(Waiters) /\ x'.tasks = <<>> /\ credit' \in 0..Unbounded
    BY <1>11 DEF Rearm, InitCompletion, Completion, Unbounded
  <2> QED
    BY <1>11, <2>1
    DEF Rearm, At, IInv, TypeOK, NoDanglingWaiter, Listed, OnList, NoRepeat
<1>12. CASE UNCHANGED vars
  BY <1>12 DEF vars, At, IInv, TypeOK, NoDanglingWaiter, Listed
<1> QED
  BY <1>1, <1>2, <1>3, <1>4, <1>5, <1>6, <1>7, <1>8, <1>9, <1>10, <1>11, <1>12
  DEF Next, WaitStep

\* It holds in every reachable state.
LEMMA InvariantHolds == Spec => []IInv
BY InitIInv, NextIInv, PTL DEF Spec

\* The count and the list have their types, however many tasks wait.
THEOREM SpecTypeOK == Spec => []TypeOK
<1>1. IInv => TypeOK
  BY DEF IInv
<1> QED
  BY <1>1, InvariantHolds, PTL

\* A completion's list only ever holds entries of waits that are still inside
\* wait_for_completion_timeout, however many tasks wait, time out and are woken.
THEOREM SpecNoDanglingWaiter == Spec => []NoDanglingWaiter
<1>1. IInv => NoDanglingWaiter
  BY DEF IInv
<1> QED
  BY <1>1, InvariantHolds, PTL

-----------------------------------------------------------------------------
(* A single waiter.                                                        *)

Waiting(t) == pc[t] \in {"loop", "check", "sleep"}

\* A single waiter is on the list exactly while there is no token, and has
\* been notified of a token that came after it looked; nobody else takes it.
SInv(t) ==
  /\ IInv
  /\ Waiting(t) => (Listed(t) <=> x.done = 0)
  /\ pc[t] \in {"check", "sleep"} /\ x.done # 0 => t \in notified
  /\ pc[t] \in {"leave", "take", "store"} => x.done # 0
  /\ pc[t] # "failed"

\* Every step keeps what is known of a single waiter.
LEMMA NextSInv ==
  ASSUME NEW w, Waiters = {w}, SInv(w), [Next]_vars
  PROVE  SInv(w)'
<1> USE DoneMaxAssumption, CompletionAssumption
<1>0. x \in Completion(Waiters) /\ NoRepeat(x.tasks)
  BY DEF SInv, IInv, TypeOK
<1>inv. IInv'
  BY NextIInv DEF SInv
<1>1. CASE Enter(w)
  BY <1>1, <1>inv DEF Enter, At, Go, SInv, IInv, TypeOK, Waiting, Listed
<1>2. CASE AddWaiter(w)
  <2>1. ~OnList(w, x.tasks)
    BY <1>2 DEF AddWaiter, At, SInv, IInv, NoDanglingWaiter, Listed
  <2>2. OnList(w, x'.tasks) <=> x.done = 0
    BY <1>0, <1>2, <2>1, EnlistAdds DEF AddWaiter, IsWith
  <2>3. x'.done = x.done
    BY <1>0, <1>2, <2>1, EnlistAdds DEF AddWaiter
  <2> QED
    BY <1>2, <1>inv, <2>2, <2>3 DEF AddWaiter, At, Go, SInv, IInv, TypeOK, Waiting, Listed
<1>3. CASE Loop(w) \/ CheckTimeOut(w) \/ Wake(w)
  BY <1>3, <1>inv
  DEF Loop, CheckTimeOut, Wake, At, Go, SInv, IInv, TypeOK, Waiting, Listed
<1>4. CASE Expire(w) \/ Leave(w)
  <2>1. x'.done = x.done
    BY <1>0, <1>4, UnlistTakesOff DEF Expire, Leave
  <2> QED
    BY <1>4, <1>inv, <2>1 DEF Expire, Leave, At, Go, SInv, IInv, TypeOK, Waiting
<1>5. CASE Take(w) \/ Store(w)
  BY <1>5, <1>inv DEF Take, Store, At, Go, SInv, IInv, TypeOK, Waiting
<1>6. CASE Post
  <2>1. x'.done # 0
    BY <1>0, <1>6 DEF Post, Complete, Completion
  <2>2. Waiting(w) => ~OnList(w, x'.tasks)
    <3>1. CASE OnList(w, x.tasks)
      <4>1. \A i \in DOMAIN x.tasks : x.tasks[i] = w
        BY <1>0 DEF Completion
      <4>2. Len(x.tasks) = 1 /\ x.tasks # <<>>
        <5> DEFINE s == x.tasks
        <5>1. s \in Seq(Waiters) /\ Len(s) \in Nat /\ DOMAIN s = 1..Len(s)
          BY <1>0 DEF Completion
        <5>2. Len(s) # 0
          BY <3>1, <5>1 DEF OnList
        <5>3. ~(2 <= Len(s))
          <6> SUFFICES ASSUME 2 <= Len(s) PROVE FALSE
            OBVIOUS
          <6>1. 1 \in DOMAIN s /\ 2 \in DOMAIN s
            BY <5>1
          <6> QED
            BY <1>0, <4>1, <6>1 DEF NoRepeat
        <5>4. s # <<>>
          <6>1. DOMAIN s # {}
            BY <3>1 DEF OnList
          <6>2. DOMAIN (<<>>) = {}
            OBVIOUS
          <6> QED
            BY <6>1, <6>2
        <5>5. Len(s) = 1
          <6>1. \A n \in Nat : n # 0 /\ ~(2 <= n) => n = 1
            OBVIOUS
          <6> HIDE DEF s
          <6> QED
            BY <5>1, <5>2, <5>3, <6>1
        <5> QED
          BY <5>4, <5>5
      <4>3. x'.tasks = Tail(x.tasks) /\ Len(Tail(x.tasks)) = 0
        BY <1>0, <1>6, <4>2, HeadTailProperties DEF Post, Complete, Completion
      <4> QED
        BY <1>0, <4>2, <4>3, HeadTailProperties DEF OnList, Completion
    <3>2. CASE ~OnList(w, x.tasks)
      BY <1>0, <1>6, <3>2, CompleteKeepsList DEF Post, IsPart
    <3> QED
      BY <3>1, <3>2
  <2>3. OnList(w, x.tasks) => w \in notified'
    <3>1. ASSUME OnList(w, x.tasks) PROVE Head(x.tasks) = w /\ x.tasks # <<>>
      BY <1>0, <3>1, HeadTailProperties DEF Completion, OnList
    <3> QED
      BY <1>6, <3>1 DEF Post, Woken
  <2> QED
    BY <1>6, <1>inv, <2>1, <2>2, <2>3 DEF Post, SInv, Waiting, Listed
<1>7. CASE PostAll
  <2>1. x'.done # 0 /\ ~OnList(w, x'.tasks)
    BY <1>7 DEF PostAll, CompleteAll, OnList
  <2>2. OnList(w, x.tasks) => w \in notified'
    BY <1>7 DEF PostAll, WokenAll, ToSet, OnList
  <2> QED
    BY <1>7, <1>inv, <2>1, <2>2 DEF PostAll, SInv, Waiting, Listed
<1>8. CASE Rearm
  BY <1>8, <1>inv DEF Rearm, At, SInv, Waiting
<1>9. CASE UNCHANGED vars
  BY <1>9, <1>inv DEF vars, SInv, Waiting, Listed
<1> QED
  BY <1>1, <1>2, <1>3, <1>4, <1>5, <1>6, <1>7, <1>8, <1>9 DEF Next, WaitStep

\* What is known of the single waiter stays so.
LEMMA SpecSInv ==
  ASSUME NEW w, Waiters = {w}
  PROVE  Spec => []SInv(w)
<1>1. Init => SInv(w)
  BY InitIInv DEF Init, SInv, Waiting
<1>2. SInv(w) /\ [Next]_vars => SInv(w)'
  BY NextSInv
<1> QED
  BY <1>1, <1>2, PTL DEF Spec

\* The assertion after the wait holds for a completion with one waiter
\* (completion.c:59).
THEOREM SpecAssertHolds ==
  ASSUME NEW w, Waiters = {w}
  PROVE  Spec => []AssertHolds
<1>1. SInv(w) => AssertHolds
  BY DEF SInv, AssertHolds
<1> QED
  BY <1>1, SpecSInv, PTL

\* A single waiter that sleeps can be reached: on the list with no token to take, or
\* notified already (completion.c:34-57, 80-105).
THEOREM SpecSleeperReachable ==
  ASSUME NEW w, Waiters = {w}
  PROVE  Spec => []SleeperReachable
<1>1. SInv(w) => SleeperReachable
  BY DEF SInv, SleeperReachable, Waiting
<1> QED
  BY <1>1, SpecSInv, PTL

-----------------------------------------------------------------------------
(* The tokens of a single waiter.                                          *)

\* What a single waiter has loaded it will give back one less of, and no post
\* takes from the credit meanwhile.
Tokens(t) ==
  /\ IInv /\ NoSpuriousReturn
  /\ pc[t] = "store" => reg[t] \in 1..(DoneMax - 1)

\* Every step keeps what is known of the tokens.
LEMMA NextTokens ==
  ASSUME NEW w, Waiters = {w}, Tokens(w), [Next]_vars
  PROVE  Tokens(w)'
<1> USE DoneMaxAssumption, CompletionAssumption DEF Unbounded
<1>0. /\ x \in Completion(Waiters) /\ NoRepeat(x.tasks)
      /\ x.done \in 0..DoneMax /\ credit \in 0..Unbounded
  BY DEF Tokens, IInv, TypeOK, Completion
<1>inv. IInv'
  BY NextIInv DEF Tokens
<1>1. CASE Enter(w)
  BY <1>1, <1>inv DEF Enter, At, Go, Tokens, IInv, TypeOK, NoSpuriousReturn
<1>2. CASE AddWaiter(w)
  <2>1. x'.done = x.done
    <3>1. ~OnList(w, x.tasks)
      BY <1>2 DEF AddWaiter, At, Tokens, IInv, NoDanglingWaiter, Listed
    <3> QED
      BY <1>0, <1>2, <3>1, EnlistAdds DEF AddWaiter
  <2> QED
    BY <1>2, <1>inv, <2>1 DEF AddWaiter, At, Go, Tokens, IInv, TypeOK, NoSpuriousReturn
<1>3. CASE Loop(w) \/ CheckTimeOut(w) \/ Wake(w)
  BY <1>3, <1>inv
  DEF Loop, CheckTimeOut, Wake, At, Go, Tokens, IInv, TypeOK, NoSpuriousReturn
<1>4. CASE Expire(w) \/ Leave(w)
  <2>1. x'.done = x.done
    BY <1>0, <1>4, UnlistTakesOff DEF Expire, Leave
  <2> QED
    BY <1>4, <1>inv, <2>1 DEF Expire, Leave, At, Go, Tokens, IInv, TypeOK, NoSpuriousReturn
<1>5. CASE Take(w)
  <2>1. CASE x.done = 0 \/ x.done = DoneMax
    BY <1>0, <1>5, <1>inv, <2>1
    DEF Take, At, Go, Tokens, IInv, TypeOK, NoSpuriousReturn, Used
  <2>2. CASE x.done # 0 /\ x.done # DoneMax
    BY <1>0, <1>5, <1>inv, <2>2
    DEF Take, At, Go, Tokens, IInv, TypeOK, NoSpuriousReturn
  <2> QED
    BY <2>1, <2>2
<1>6. CASE Store(w)
  <2>1. x'.done = reg[w] - 1 /\ reg[w] \in 1..(DoneMax - 1)
    BY <1>0, <1>6 DEF Store, At, Tokens, Completion
  <2>2. credit # Unbounded => reg[w] <= credit /\ credit' = credit - 1
    BY <1>0, <1>6, <2>1 DEF Store, At, Tokens, NoSpuriousReturn, Used
  <2>3. credit = Unbounded => credit' = Unbounded
    BY <1>6 DEF Store, Used
  <2> QED
    BY <1>0, <1>6, <1>inv, <2>1, <2>2, <2>3 DEF Store, Go, Tokens, IInv, TypeOK, NoSpuriousReturn, At
<1>7. CASE Post
  <2>1. x'.done = IF x.done = DoneMax THEN DoneMax ELSE x.done + 1
    BY <1>0, <1>7 DEF Post, Complete, Completion
  <2>2. credit # Unbounded => credit' = credit + 1
    BY <1>7 DEF Post, Credited
  <2>3. credit = Unbounded => credit' = Unbounded
    BY <1>7 DEF Post, Credited
  <2> QED
    BY <1>0, <1>7, <1>inv, <2>1, <2>2, <2>3 DEF Post, Tokens, IInv, TypeOK, NoSpuriousReturn, At
<1>8. CASE PostAll
  BY <1>8, <1>inv DEF PostAll, Tokens, NoSpuriousReturn
<1>9. CASE Rearm
  BY <1>9, <1>inv DEF Rearm, InitCompletion, At, Tokens, NoSpuriousReturn
<1>10. CASE UNCHANGED vars
  BY <1>10, <1>inv DEF vars, Tokens, NoSpuriousReturn, At
<1> QED
  BY <1>1, <1>2, <1>3, <1>4, <1>5, <1>6, <1>7, <1>8, <1>9, <1>10 DEF Next, WaitStep

\* A single waiter returns 1 only for a complete of its own, however often its waits
\* time out and however complete falls between the load and the store of done
\* (completion.c:59-63, 119-124).
THEOREM SpecNoSpuriousReturn ==
  ASSUME NEW w, Waiters = {w}
  PROVE  Spec => []NoSpuriousReturn
<1>1. Init => Tokens(w)
  BY InitIInv, CompletionAssumption, DoneMaxAssumption
  DEF Init, InitCompletion, Tokens, NoSpuriousReturn, Unbounded, At
<1>2. Tokens(w) /\ [Next]_vars => Tokens(w)'
  BY NextTokens
<1>3. Tokens(w) => NoSpuriousReturn
  BY DEF Tokens
<1> QED
  BY <1>1, <1>2, <1>3, PTL DEF Spec
=============================================================================
