-------------------------- MODULE SchedImplProofs --------------------------
(***************************************************************************)
(* The pointers of the scheduler's three lists, with the clock interrupt   *)
(* between any two statements of the unprotected push, implement Sched for *)
(* any set of processes, any delay and any number of clock waits.  What    *)
(* list.c does to a list is known from KListProofs and what the scheduler  *)
(* does to sequences from SchedProofs.                                     *)
(***************************************************************************)
EXTENDS SchedImpl, SequenceTheorems, FiniteSetTheorems, TLAPS

K == INSTANCE KListProofs WITH
         Node <- Proc, List <- {RL, Q, WQ},
         Priority <- {}, ScanLimit <- 0, ret <- NULL, scan <- NULL

P == INSTANCE SchedProofs WITH
         ready_list <- L!Forward(mem, RL),
         queue <- L!Forward(mem, Q),
         waitqueue <- L!Forward(mem, WQ),
         pc <- AbsPC

LEMMA ListConstants ==
    K!NullAssumption /\ K!NodeAssumption /\ K!PriorityAssumption
BY SchedImplAssumption 
   DEF K!NullAssumption, K!NodeAssumption, K!PriorityAssumption, K!IsFiniteSet, IsFiniteSet

LEMMA SchedConstants == P!SchedAssumption
BY SchedImplAssumption DEF P!SchedAssumption, P!IsFiniteSet, IsFiniteSet

(* The instances of ListOps here and in KListProofs are the same.          *)
LEMMA SameOps ==
    ASSUME NEW m, NEW l, NEW n
    PROVE  /\ L!Forward(m, l) = K!Forward(m, l)
           /\ L!Backward(m, l) = K!Backward(m, l)
           /\ L!list_push_tail(m, l, n) = K!list_push_tail(m, l, n)
           /\ L!list_pop_head(m, l) = K!list_pop_head(m, l)
           /\ L!MemType = K!MemType /\ L!InitMem = K!InitMem
<1>1. L!Forward(m, l) = K!Forward(m, l) /\ L!Backward(m, l) = K!Backward(m, l)
  BY DEF L!Forward, K!Forward, L!Backward, K!Backward, L!Walk, K!Walk,
         L!Cardinality, K!Cardinality
<1>2. L!list_push_tail(m, l, n) = K!list_push_tail(m, l, n)
  BY DEF L!list_push_tail, K!list_push_tail, L!TailInitNode, K!TailInitNode,
         L!TailLinkLast, K!TailLinkLast, L!TailSetTail, K!TailSetTail,
         L!TailSetHead, K!TailSetHead, L!TailSetList, K!TailSetList
<1>3. L!list_pop_head(m, l) = K!list_pop_head(m, l)
  BY DEF L!list_pop_head, K!list_pop_head, L!Detach, K!Detach
<1>4. L!MemType = K!MemType /\ L!InitMem = K!InitMem
  BY DEF L!MemType, K!MemType, L!InitMem, K!InitMem
<1> QED BY <1>1, <1>2, <1>3, <1>4
----------------------------------------------------------------------------
(* list_push_tail and list_pop_head never read node->list, and a click     *)
(* before the last statement of the unprotected push leaves a wrong one    *)
(* behind.  A memory is sound when it differs at most in these pointers    *)
(* and in the priorities from one that list.c would have produced, and the *)
(* links of the nodes on no list are null.                                 *)
Same(m, g) ==
    m.head = g.head /\ m.tail = g.tail /\ m.next = g.next /\ m.prev = g.prev

Loose(g) ==
    \A n \in Proc : g.list[n] = NULL => g.next[n] = NULL /\ g.prev[n] = NULL

Twin(m, g) ==
    K!Good(g) /\ K!Shape(g) /\ Loose(g) /\ m \in K!MemType /\ Same(m, g)

Sound(m) == \E g : Twin(m, g)

Off(m, n) == \A l \in {RL, Q, WQ} : ~Contains(L!Forward(m, l), n)

LEMMA SameWalks ==
    ASSUME NEW m, NEW g, Same(m, g), NEW l
    PROVE  L!Forward(m, l) = K!Forward(g, l) /\ L!Backward(m, l) = K!Backward(g, l)
<1>1. K!Forward(m, l) = K!Forward(g, l) /\ K!Backward(m, l) = K!Backward(g, l)
  BY DEF Same, K!Forward, K!Backward, K!Walk
<1> QED BY <1>1, SameOps

LEMMA TwinOff ==
    ASSUME NEW m, NEW g, Twin(m, g), NEW n \in Proc
    PROVE  Off(m, n) <=> g.list[n] = NULL
<1>1. \A l \in {RL, Q, WQ} : K!Chain(g, l, K!Forward(g, l)) /\ L!Forward(m, l) = K!Forward(g, l)
  BY SameWalks DEF Twin, K!Shape
<1>2. \A l \in {RL, Q, WQ} : g.list[n] = l <=> Contains(L!Forward(m, l), n)
  <2> TAKE l \in {RL, Q, WQ}
  <2>1. \A x \in Proc : g.list[x] = l <=> \E i \in 1..Len(K!Forward(g, l)) : K!Forward(g, l)[i] = x
    BY <1>1, Zenon DEF K!Chain
  <2> QED BY <1>1, <2>1, Zenon DEF Contains
<1>3. g.list[n] \in {RL, Q, WQ} \cup {NULL}
  BY DEF Twin, K!Good, K!MemType
<1> QED BY <1>2, <1>3, SchedImplAssumption DEF Off

(* What a sound memory holds: the walk of a list is a sequence of          *)
(* processes, empty exactly when head is null, and the same backwards.     *)
LEMMA SoundWalk ==
    ASSUME NEW m, Sound(m), NEW l \in {RL, Q, WQ}
    PROVE  /\ L!Forward(m, l) \in Seq(Proc)
           /\ Reverse(L!Backward(m, l)) = L!Forward(m, l)
           /\ m.head[l] = NULL <=> L!Forward(m, l) = <<>>
           /\ m.tail[l] = NULL <=> L!Forward(m, l) = <<>>
           /\ m.head[l] # NULL => /\ m.head[l] = Head(L!Forward(m, l))
                                  /\ m.head[l] \in Proc
<1>1. PICK g : Twin(m, g)
  BY DEF Sound
<1> DEFINE s == L!Forward(m, l)
<1>2. K!Chain(g, l, s) /\ L!Backward(m, l) = K!Backward(g, l)
  BY <1>1, SameWalks DEF Twin, K!Shape
<1>3. L!Backward(m, l) = [i \in 1..Len(s) |-> s[Len(s) + 1 - i]]
  BY <1>2, K!BackwardIs, ListConstants
<1>4. s \in Seq(Proc) /\ m.head[l] = K!At(s, 1) /\ m.tail[l] = K!At(s, Len(s))
  BY <1>1, <1>2 DEF K!Chain, Twin, Same
<1> HIDE DEF s
<1>5. Reverse(L!Backward(m, l)) = s
  <2> DEFINE t == [i \in 1..Len(s) |-> s[Len(s) + 1 - i]]
  <2>1. Len(s) \in Nat /\ s = [i \in 1..Len(s) |-> s[i]]
    BY <1>4
  <2>2. Len(t) = Len(s) /\ \A i \in 1..Len(s) : t[(Len(s) - i) + 1] = s[i]
    BY <2>1, <1>4
  <2> HIDE DEF t
  <2>3. Reverse(t) = [i \in 1..Len(s) |-> s[i]]
    BY <2>2 DEF Reverse
  <2> QED BY <2>1, <2>3, <1>3 DEF t
<1>6. CASE s = <<>>
  BY <1>4, <1>5, <1>6, SchedImplAssumption DEF K!At, s
<1>7. CASE s # <<>>
  <2>1. 1 \in 1..Len(s) /\ Len(s) \in 1..Len(s) /\ s[1] \in Proc /\ s[Len(s)] \in Proc /\ s[1] = Head(s)
    BY <1>4, <1>7
  <2> QED BY <2>1, <1>4, <1>5, <1>7, SchedImplAssumption DEF K!At, s
<1> QED BY <1>6, <1>7

LEMMA SoundLoose ==
    ASSUME NEW m, Sound(m), NEW n \in Proc, Off(m, n)
    PROVE  m.next[n] = NULL /\ m.prev[n] = NULL
<1>1. PICK g : Twin(m, g)
  BY DEF Sound
<1> QED BY <1>1, TwinOff DEF Twin, Loose, Same

LEMMA SoundSame ==
    ASSUME NEW m, NEW r \in K!MemType, Sound(m), Same(r, m)
    PROVE  Sound(r) /\ \A l : L!Forward(r, l) = L!Forward(m, l)
<1>1. PICK g : Twin(m, g)
  BY DEF Sound
<1>2. Twin(r, g)
  BY <1>1 DEF Twin, Same
<1>3. \A l : L!Forward(r, l) = L!Forward(m, l)
  BY <1>1, <1>2, SameWalks DEF Twin
<1> QED BY <1>2, <1>3 DEF Sound

(* list_push_tail on a sound memory.                                       *)
LEMMA SoundPush ==
    ASSUME NEW m, Sound(m), NEW l \in {RL, Q, WQ}, NEW n \in Proc, Off(m, n)
    PROVE  LET r == L!list_push_tail(m, l, n)
           IN  /\ Sound(r)
               /\ L!Forward(r, l) = Append(L!Forward(m, l), n)
               /\ \A o \in {RL, Q, WQ} \ {l} : L!Forward(r, o) = L!Forward(m, o)
<1>1. PICK g : Twin(m, g)
  BY DEF Sound
<1> DEFINE r == K!list_push_tail(m, l, n)
           rg == K!list_push_tail(g, l, n)
<1>2. g.list[n] = NULL
  BY <1>1, TwinOff
<1>3. K!Good(rg) /\ K!Linked(g, rg, l, n, g.tail[l], NULL, 0)
  BY <1>1, <1>2, K!PushTailGood, ListConstants DEF Twin
<1>4. K!Becomes(g, rg, l, K!Ins(K!Forward(g, l), Len(K!Forward(g, l)) + 1, n))
  BY <1>1, <1>2, K!PushTailShape, ListConstants DEF Twin
<1>5. m.tail[l] # n /\ g.tail[l] # n /\ m \in K!MemType /\ g \in K!MemType /\ Same(m, g)
  BY <1>1, <1>2, SchedImplAssumption DEF Twin, Same, K!Good, K!EndsOK
<1>6. r \in K!MemType /\ Same(r, rg)
  <2>1. K!Appended(m, r, l, n)
    BY <1>5, K!PushTailFields, ListConstants
  <2>2. K!Appended(g, rg, l, n)
    BY <1>5, K!PushTailFields, ListConstants
  <2> HIDE DEF r, rg
  <2> QED BY <2>1, <2>2, <1>5 DEF Same, K!Appended
<1> HIDE DEF r, rg
<1>7. Loose(rg)
  <2>1. g.tail[l] # NULL => g.list[g.tail[l]] = l
    BY <1>1 DEF Twin, K!Good, K!EndsOK
  <2>2. /\ rg.list = [g.list EXCEPT ![n] = l] /\ g.list \in [Proc -> {RL, Q, WQ} \cup {NULL}]
        /\ rg.next = [x \in Proc |-> IF x = n THEN NULL ELSE IF x = g.tail[l] THEN n ELSE g.next[x]]
        /\ rg.prev = [x \in Proc |-> IF x = n THEN g.tail[l] ELSE IF x = NULL THEN n ELSE g.prev[x]]
    BY <1>3, <1>5 DEF K!Linked, K!MemType
  <2> QED BY <2>1, <2>2, <1>1, <1>2, SchedImplAssumption DEF Loose, Twin
<1>8. Twin(r, rg)
  BY <1>3, <1>4, <1>6, <1>7 DEF Twin, K!Becomes
<1>9. K!Forward(g, l) \in Seq(Proc)
  BY <1>1 DEF Twin, K!Shape, K!Chain
<1>10. K!Forward(rg, l) = Append(K!Forward(g, l), n)
  BY <1>4, <1>9, K!SeqIsIns, ListConstants DEF K!Becomes
<1>11. \A o \in {RL, Q, WQ} : L!Forward(r, o) = K!Forward(rg, o) /\ L!Forward(m, o) = K!Forward(g, o)
  BY <1>1, <1>8, SameWalks DEF Twin
<1> QED BY <1>4, <1>8, <1>10, <1>11, SameOps DEF Sound, K!Becomes, r

(* list_pop_head on a sound memory.                                        *)
LEMMA SoundPop ==
    ASSUME NEW m, Sound(m), NEW l \in {RL, Q, WQ}, m.head[l] # NULL
    PROVE  LET r == L!list_pop_head(m, l)
           IN  /\ Sound(r)
               /\ L!Forward(r, l) = Tail(L!Forward(m, l))
               /\ \A o \in {RL, Q, WQ} \ {l} : L!Forward(r, o) = L!Forward(m, o)
               /\ Off(r, m.head[l])
<1>1. PICK g : Twin(m, g)
  BY DEF Sound
<1> DEFINE r == K!list_pop_head(m, l)
           rg == K!list_pop_head(g, l)
           h == g.head[l]
<1>2. /\ h # NULL /\ m.head[l] = h /\ h \in Proc /\ g.next[h] # h
      /\ g.next[h] # NULL => g.list[g.next[h]] = l
  <2>1. h # NULL /\ m.head[l] = h
    BY <1>1 DEF Twin, Same
  <2>2. g.list[h] = l /\ g.prev[h] = NULL /\ h \in Proc
    BY <1>1, <2>1 DEF Twin, K!Good, K!EndsOK, K!MemType
  <2>3. g.next[h] # NULL => g.prev[g.next[h]] = h /\ g.list[g.next[h]] = l
    BY <1>1, <2>2, SchedImplAssumption DEF Twin, K!Good, K!LinksOK
  <2> QED BY <2>1, <2>2, <2>3
<1>3. K!Good(rg) /\ K!Cut(g, rg, l, h, NULL, g.next[h])
  BY <1>1, <1>2, K!PopHeadGood, ListConstants DEF Twin
<1>4. /\ K!Becomes(g, rg, l, K!Del(K!Forward(g, l), 1)) /\ Len(K!Forward(g, l)) >= 1
  BY <1>1, <1>2, K!PopHeadShape, ListConstants DEF Twin
<1>5. m \in K!MemType /\ g \in K!MemType /\ Same(m, g)
  BY <1>1 DEF Twin, K!Good
<1>6. r \in K!MemType /\ Same(r, rg)
  <2>1. m.head[l] = h /\ m.head[l] # NULL /\ m.next[h] # h /\ m.next[h] = g.next[h]
    BY <1>2, <1>5 DEF Same
  <2>2. K!Popped(m, r, l, h, m.next[h])
    BY <1>5, <2>1, K!PopHeadFields, ListConstants
  <2>3. K!Popped(g, rg, l, h, g.next[h])
    BY <1>2, <1>5, K!PopHeadFields, ListConstants
  <2> HIDE DEF r, rg
  <2> QED BY <2>1, <2>2, <2>3, <1>5 DEF Same, K!Popped
<1> HIDE DEF r, rg
<1>7. Loose(rg)
  <2>1. g.next[h] # NULL => g.list[g.next[h]] = l
    BY <1>2
  <2>2. /\ rg.list = [g.list EXCEPT ![h] = NULL] /\ g.list \in [Proc -> {RL, Q, WQ} \cup {NULL}]
        /\ rg.next = [x \in Proc |-> IF x = h THEN NULL ELSE IF x = NULL THEN g.next[h] ELSE g.next[x]]
        /\ rg.prev = [x \in Proc |-> IF x = h THEN NULL ELSE IF x = g.next[h] THEN NULL ELSE g.prev[x]]
    BY <1>3, <1>5 DEF K!Cut, K!MemType
  <2> QED BY <2>1, <2>2, <1>1, SchedImplAssumption DEF Loose, Twin
<1>8. Twin(r, rg)
  BY <1>3, <1>4, <1>6, <1>7 DEF Twin, K!Becomes
<1>9. K!Forward(g, l) \in Seq(Proc)
  BY <1>1 DEF Twin, K!Shape, K!Chain
<1>10. K!Forward(rg, l) = Tail(K!Forward(g, l))
  BY <1>4, <1>9, K!SeqIsDel, ListConstants DEF K!Becomes
<1>11. \A o \in {RL, Q, WQ} : L!Forward(r, o) = K!Forward(rg, o) /\ L!Forward(m, o) = K!Forward(g, o)
  BY <1>1, <1>8, SameWalks DEF Twin
<1>12. Off(r, h)
  <2>1. rg.list[h] = NULL
    BY <1>2, <1>3, <1>5 DEF K!Cut, K!MemType
  <2> QED BY <2>1, <1>2, <1>8, TwinOff
<1> QED BY <1>2, <1>4, <1>8, <1>10, <1>11, <1>12, SameOps DEF Sound, K!Becomes, r
----------------------------------------------------------------------------
(* The pushes of process_test, from empty lists.                           *)
LEMMA SoundInit ==
    Sound(L!InitMem) /\ \A l \in {RL, Q, WQ} : L!Forward(L!InitMem, l) = <<>>
<1> DEFINE g == L!InitMem
<1>1. /\ g \in K!MemType
      /\ \A l \in {RL, Q, WQ} : g.head[l] = NULL /\ g.tail[l] = NULL
      /\ \A n \in Proc : g.next[n] = NULL /\ g.prev[n] = NULL /\ g.list[n] = NULL
  BY DEF L!InitMem, K!MemType
<1> HIDE DEF g
<1>2. K!Good(g) /\ Loose(g)
  BY <1>1, SchedImplAssumption DEF K!Good, K!EndsOK, K!LinksOK, Loose
<1>3. \A l \in {RL, Q, WQ} : K!Chain(g, l, <<>>)
  <2>1. <<>> \in Seq(Proc) /\ Len(<<>>) = 0 /\ K!At(<<>>, 1) = NULL /\ K!At(<<>>, 0) = NULL
    BY DEF K!At
  <2> QED BY <1>1, <2>1, SchedImplAssumption DEF K!Chain
<1>4. \A l \in {RL, Q, WQ} : K!Forward(g, l) = <<>>
  BY <1>3, K!ForwardIs, ListConstants
<1>5. Twin(g, g)
  BY <1>1, <1>2, <1>3, <1>4 DEF Twin, K!Shape, Same
<1> QED BY <1>4, <1>5, SameOps DEF Sound, g

(* The recursion of Pushed is well-founded.                                *)
LEMMA PushesExist ==
    ASSUME NEW order, NEW N \in Nat
    PROVE  \E f : f = [k \in 0..N |-> IF k = 0 THEN L!InitMem
                                      ELSE L!list_push_tail(f[k - 1], RL, order[k])]
<1> DEFINE Is(f, n) == f = [k \in 0..n |-> IF k = 0 THEN L!InitMem
                                           ELSE L!list_push_tail(f[k - 1], RL, order[k])]
           Bad == {n \in Nat : ~\E f : Is(f, n)}
<1> SUFFICES ASSUME Bad # {} PROVE FALSE
  OBVIOUS
<1>1. PICK n \in Bad : \A k \in Bad : n <= k
  BY K!LeastNat, ListConstants
<1>2. n # 0
  <2>1. Is([k \in 0..0 |-> L!InitMem], 0)
    OBVIOUS
  <2> QED BY <2>1
<1>3. n - 1 \in Nat /\ n - 1 \notin Bad
  BY <1>1, <1>2
<1>4. PICK f : Is(f, n - 1)
  BY <1>3
<1> DEFINE h == [k \in 0..n |-> IF k = n THEN L!list_push_tail(f[n - 1], RL, order[n]) ELSE f[k]]
<1>5. \A k \in 0..(n - 1) : h[k] = f[k]
  BY <1>3
<1>6. Is(h, n)
  <2>1. \A k \in 0..n : h[k] = IF k = 0 THEN L!InitMem ELSE L!list_push_tail(h[k - 1], RL, order[k])
    <3> SUFFICES ASSUME NEW k \in 0..n
                 PROVE  h[k] = IF k = 0 THEN L!InitMem ELSE L!list_push_tail(h[k - 1], RL, order[k])
      OBVIOUS
    <3>1. CASE k = n
      <4>1. h[k] = L!list_push_tail(f[n - 1], RL, order[n]) /\ h[n - 1] = f[n - 1]
        BY <3>1, <1>3, <1>5
      <4> QED BY <4>1, <3>1, <1>2
    <3>2. CASE k # n
      <4>1. h[k] = f[k] /\ (k # 0 => h[k - 1] = f[k - 1]) /\ k \in 0..(n - 1)
        BY <3>2, <1>3, <1>5
      <4>2. f[k] = IF k = 0 THEN L!InitMem ELSE L!list_push_tail(f[k - 1], RL, order[k])
        BY <4>1, <1>4
      <4> QED BY <4>1, <4>2
    <3> QED BY <3>1, <3>2
  <2>2. h = [k \in 0..n |-> h[k]]
    OBVIOUS
  <2> HIDE DEF h
  <2> QED BY <2>1, <2>2
<1> QED BY <1>1, <1>6

LEMMA AppendIs ==
    ASSUME NEW order, NEW k \in Nat, k > 0, \A i \in 1..k : order[i] \in Proc
    PROVE  /\ [i \in 1..k |-> order[i]] \in Seq(Proc)
           /\ Append([i \in 1..(k - 1) |-> order[i]], order[k]) = [i \in 1..k |-> order[i]]
<1> DEFINE s == [i \in 1..(k - 1) |-> order[i]]
           t == [i \in 1..k |-> order[i]]
<1>1. s \in Seq(Proc) /\ Len(s) = k - 1 /\ \A i \in 1..(k - 1) : s[i] = order[i]
  OBVIOUS
<1>2. t \in Seq(Proc) /\ Len(t) = k
  OBVIOUS
<1>3. \A i \in 1..k : t[i] = order[i]
  OBVIOUS
<1> HIDE DEF s, t
<1>4. Append(s, order[k]) \in Seq(Proc) /\ Len(Append(s, order[k])) = k
  BY <1>1
<1>5. \A i \in 1..k : Append(s, order[k])[i] = t[i]
  BY <1>1, <1>3
<1>6. Append(s, order[k]) = t
  BY <1>2, <1>4, <1>5
<1> QED BY <1>2, <1>6 DEF s, t

LEMMA PushedIs ==
    ASSUME NEW order \in Bijection(1..Cardinality(Proc), Proc)
    PROVE  /\ Sound(Pushed(order))
           /\ L!Forward(Pushed(order), RL) = order
           /\ L!Forward(Pushed(order), Q) = <<>> /\ L!Forward(Pushed(order), WQ) = <<>>
<1> DEFINE N == Cardinality(Proc)
           Is(f) == f = [k \in 0..N |-> IF k = 0 THEN L!InitMem
                                        ELSE L!list_push_tail(f[k - 1], RL, order[k])]
           after == CHOOSE f : Is(f)
           Pre(k) == [i \in 1..k |-> order[i]]
           OK(k) == /\ Sound(after[k]) /\ L!Forward(after[k], RL) = Pre(k)
                    /\ L!Forward(after[k], Q) = <<>> /\ L!Forward(after[k], WQ) = <<>>
<1>1. N \in Nat
  BY FS_CardinalityType, SchedImplAssumption
<1>2. /\ order \in [1..N -> Proc]
      /\ \A i, j \in 1..N : order[i] = order[j] => i = j
  BY Zenon DEF Bijection, Injection, IsInjective
<1>3. Pushed(order) = after[N]
  BY Zenon DEF Pushed
<1>4. Is(after)
  <2>1. \E f : Is(f)
    BY <1>1, PushesExist
  <2> HIDE DEF Is
  <2> QED BY <2>1, Zenon
<1>5. after[0] = L!InitMem /\ \A k \in 1..N : after[k] = L!list_push_tail(after[k - 1], RL, order[k])
  <2> HIDE DEF after
  <2> QED BY <1>1, <1>4
<1> HIDE DEF after, N, Is
<1>6. OK(0)
  <2>1. Pre(0) = <<>>
    OBVIOUS
  <2> QED BY <2>1, <1>5, SoundInit
<1>7. ASSUME NEW k \in 1..N, OK(k - 1) PROVE OK(k)
  <2>1. /\ k \in Nat /\ k > 0 /\ (\A i \in 1..k : order[i] \in Proc) /\ order[k] \in Proc
        /\ \A i \in 1..(k - 1) : order[i] # order[k]
    BY <1>1, <1>2
  <2>2. Off(after[k - 1], order[k])
    <3>1. ~Contains(Pre(k - 1), order[k]) /\ ~Contains(<<>>, order[k])
      BY <2>1 DEF Contains
    <3> HIDE DEF Pre
    <3> QED BY <3>1, <1>7 DEF Off
  <2>3. Append(Pre(k - 1), order[k]) = Pre(k)
    BY <2>1, AppendIs
  <2> DEFINE m == after[k - 1]
             r == L!list_push_tail(m, RL, order[k])
  <2> HIDE DEF Pre, m
  <2>4. /\ Sound(r) /\ L!Forward(r, RL) = Append(L!Forward(m, RL), order[k])
        /\ \A o \in {RL, Q, WQ} \ {RL} : L!Forward(r, o) = L!Forward(m, o)
    BY <1>7, <2>1, <2>2, SoundPush DEF m
  <2> HIDE DEF r
  <2>5. after[k] = r
    BY <1>5 DEF r, m
  <2> QED BY <1>7, <2>3, <2>4, <2>5, SchedImplAssumption DEF m
<1> HIDE DEF OK
<1>8. OK(N)
  <2> DEFINE Bad == {k \in 0..N : ~OK(k)}
  <2> SUFFICES ASSUME Bad # {} PROVE FALSE
    BY <1>1
  <2>1. Bad \in SUBSET Nat
    BY <1>1
  <2>2. PICK k \in Bad : \A j \in Bad : k <= j
    <3> HIDE DEF Bad
    <3> QED BY <2>1, K!LeastNat, ListConstants
  <2>3. k # 0 /\ k \in 1..N /\ k - 1 \in 0..N /\ ~(k - 1 \in Bad)
    BY <1>1, <1>6, <2>2
  <2> QED BY <1>7, <2>2, <2>3
<1>9. Pre(N) = order
  BY <1>2
<1> QED BY <1>3, <1>8, <1>9 DEF OK

(* process_wakeup moves the first process of a list to ready_list.         *)
LEMMA WakeupIs ==
    ASSUME NEW m, Sound(m), NEW l \in {Q, WQ}, m.head[l] # NULL
    PROVE  LET r == process_wakeup(m, l)
           IN  /\ Sound(r)
               /\ L!Forward(r, l) = Tail(L!Forward(m, l))
               /\ L!Forward(r, RL) = Append(L!Forward(m, RL), m.head[l])
               /\ \A o \in {Q, WQ} \ {l} : L!Forward(r, o) = L!Forward(m, o)
<1> DEFINE h == m.head[l]
           r1 == L!list_pop_head(m, l)
           r == L!list_push_tail(r1, RL, h)
<1>1. process_wakeup(m, l) = r
  BY DEF process_wakeup
<1>2. h \in Proc
  BY SoundWalk
<1> HIDE DEF h
<1>3. /\ Sound(r1) /\ L!Forward(r1, l) = Tail(L!Forward(m, l)) /\ Off(r1, h)
      /\ \A o \in {RL, Q, WQ} \ {l} : L!Forward(r1, o) = L!Forward(m, o)
  BY SoundPop DEF h
<1> HIDE DEF r1
<1>4. /\ Sound(r) /\ L!Forward(r, RL) = Append(L!Forward(r1, RL), h)
      /\ \A o \in {RL, Q, WQ} \ {RL} : L!Forward(r, o) = L!Forward(r1, o)
  BY <1>2, <1>3, SoundPush
<1> HIDE DEF r
<1> QED BY <1>1, <1>3, <1>4, SchedImplAssumption DEF h

(* A list with at most one process is emptied by the first round of        *)
(* process_wakeup_all.                                                     *)
LEMMA WakeupAllIs ==
    ASSUME NEW m, NEW w, w = process_wakeup(m, Q), process_wakeup(w, Q) = w,
           Proc # {} \/ w = m
    PROVE  process_wakeup_all(m, Q) = w
<1> DEFINE N == Cardinality(Proc)
           Is(f) == f = [k \in 0..N |-> IF k = 0 THEN m ELSE process_wakeup(f[k - 1], Q)]
           after == CHOOSE f : Is(f)
<1>1. N \in Nat /\ (Proc # {} => N >= 1)
  BY FS_CardinalityType, FS_EmptySet, SchedImplAssumption
<1>2. process_wakeup_all(m, Q) = after[N]
  BY Zenon DEF process_wakeup_all
<1> HIDE DEF N
<1>3. Is(after)
  <2> DEFINE f == [k \in 0..N |-> IF k = 0 THEN m ELSE w]
  <2>1. \A k \in 0..N : k # 0 => k - 1 \in 0..N /\ f[k - 1] = IF k = 1 THEN m ELSE w
    BY <1>1
  <2>2. \A k \in 0..N : k # 0 => process_wakeup(f[k - 1], Q) = w
    <3> HIDE DEF f
    <3> QED BY <2>1
  <2>3. Is(f)
    BY <2>2
  <2> HIDE DEF f, Is
  <2> QED BY <2>3, Zenon
<1>4. after[0] = m /\ \A k \in 1..N : after[k] = process_wakeup(after[k - 1], Q)
  <2> HIDE DEF after
  <2> QED BY <1>1, <1>3
<1> HIDE DEF after, Is
<1>5. \A k \in 1..N : after[k] = w
  <2> DEFINE Bad == {k \in 1..N : after[k] # w}
  <2> SUFFICES ASSUME Bad # {} PROVE FALSE
    OBVIOUS
  <2>1. Bad \in SUBSET Nat
    BY <1>1
  <2>2. PICK k \in Bad : \A j \in Bad : k <= j
    <3> HIDE DEF Bad
    <3> QED BY <2>1, K!LeastNat, ListConstants
  <2>3. CASE k = 1
    BY <1>1, <1>4, <2>2, <2>3
  <2>4. CASE k # 1
    <3>1. k - 1 \in 1..N /\ ~(k - 1 \in Bad)
      BY <1>1, <2>2, <2>4
    <3>2. after[k - 1] = w /\ k \in 1..N
      BY <3>1, <2>2
    <3> QED BY <3>2, <1>4, <2>2
  <2> QED BY <2>3, <2>4
<1>6. CASE N = 0
  BY <1>1, <1>2, <1>4, <1>6
<1>7. CASE N # 0
  BY <1>1, <1>2, <1>5, <1>7
<1> QED BY <1>6, <1>7
----------------------------------------------------------------------------
(* The inductive invariant: that of SchedProofs for the sequences the      *)
(* lists hold, and that the memory is sound.  Only the running process, or *)
(* one killed there, is in the middle of a push, and after the third       *)
(* statement of it the tail of queue is ahead of its head: for good if the *)
(* process is dead, while the others go on with the other lists.           *)
ImplPC == {"user", "retry", "cs", "pushed", "sleep", "push5"} \cup PushStmts

Before(m) == [m EXCEPT !.tail[Q] = NULL]

MInv ==
    /\ mem \in K!MemType
    /\ pc \in [Proc -> ImplPC]
    /\ \A p \in Proc : pc[p] \in PushStmts => current = p \/ p \in killed
    /\ \A p \in Proc : pc[p] = "push4" => mem.tail[Q] = p /\ Sound(Before(mem))
    /\ (\A p \in Proc : pc[p] # "push4") => Sound(mem)

IInv == MInv /\ P!IInv

LEMMA BeforeIs ==
    ASSUME NEW m \in K!MemType
    PROVE  /\ Before(m) \in K!MemType
           /\ Before(m).head = m.head /\ Before(m).next = m.next /\ Before(m).prev = m.prev
           /\ Before(m).tail = [m.tail EXCEPT ![Q] = NULL]
           /\ \A l : L!Forward(Before(m), l) = L!Forward(m, l)
           /\ \A l \in {RL, WQ} : L!Backward(Before(m), l) = L!Backward(m, l)
<1>1. /\ Before(m) \in K!MemType
      /\ Before(m).head = m.head /\ Before(m).next = m.next /\ Before(m).prev = m.prev
      /\ Before(m).tail = [m.tail EXCEPT ![Q] = NULL]
  BY DEF Before, K!MemType
<1>2. \A l \in {RL, WQ} : Before(m).tail[l] = m.tail[l]
  BY <1>1, SchedImplAssumption DEF K!MemType
<1>3. \A l : L!Forward(Before(m), l) = L!Forward(m, l)
  BY <1>1 DEF L!Forward, L!Walk
<1>4. \A l \in {RL, WQ} : L!Backward(Before(m), l) = L!Backward(m, l)
  <2>1. \A start, link : L!Walk(Before(m), start, link) = L!Walk(m, start, link)
    BY DEF L!Walk
  <2> QED BY <1>1, <1>2, <2>1 DEF L!Backward
<1> QED BY <1>1, <1>3, <1>4

(* The position of a process as Sched sees it.                             *)
View(at) == IF at \in PushStmts THEN "push" ELSE IF at = "push5" THEN "pushed" ELSE at

LEMMA ViewIs ==
    /\ AbsPC = [p \in Proc |-> View(pc[p])]
    /\ AbsPC' = [p \in Proc |-> View(pc'[p])]
BY DEF AbsPC, View, PushStmts

LEMMA ViewChange ==
    ASSUME MInv, NEW p \in Proc, NEW at, pc' = [pc EXCEPT ![p] = at]
    PROVE  AbsPC' = [AbsPC EXCEPT ![p] = View(at)]
<1>1. \A q \in Proc : pc'[q] = IF q = p THEN at ELSE pc[q]
  BY DEF MInv
<1> HIDE DEF View
<1> QED BY <1>1, ViewIs

(* What the invariant says of the lists at every step.                     *)
LEMMA Lists ==
    ASSUME IInv
    PROVE  /\ \A l \in {RL, Q, WQ} : /\ L!Forward(mem, l) \in Seq(Proc)
                                     /\ mem.head[l] = NULL <=> L!Forward(mem, l) = <<>>
                                     /\ mem.head[l] # NULL => mem.head[l] = Head(L!Forward(mem, l))
           /\ \A p \in Proc : /\ current = p /\ View(pc[p]) # "pushed" => Off(mem, p)
                              /\ pc[p] \in PushStmts => L!Forward(mem, Q) = <<>>
           /\ Len(L!Forward(mem, Q)) <= 1
           /\ (cpu = "run") <=> (current # NULL)
           /\ current \in Proc \cup {NULL}
           /\ state \in [Proc -> {"READY", "RUNNING", "BLOCKED", "GRAVE"}]
<1>1. \A l \in {RL, Q, WQ} : /\ L!Forward(mem, l) \in Seq(Proc)
                             /\ mem.head[l] = NULL <=> L!Forward(mem, l) = <<>>
                             /\ mem.head[l] # NULL => mem.head[l] = Head(L!Forward(mem, l))
  <2>1. CASE \A p \in Proc : pc[p] # "push4"
    BY <2>1, SoundWalk DEF IInv, MInv
  <2>2. CASE \E p \in Proc : pc[p] = "push4"
    <3>1. Sound(Before(mem)) /\ mem \in K!MemType
      BY <2>2 DEF IInv, MInv
    <3>2. \A l \in {RL, Q, WQ} :
                 /\ L!Forward(Before(mem), l) \in Seq(Proc)
                 /\ Before(mem).head[l] = NULL <=> L!Forward(Before(mem), l) = <<>>
                 /\ Before(mem).head[l] # NULL => Before(mem).head[l] = Head(L!Forward(Before(mem), l))
      BY <3>1, SoundWalk
    <3>3. Before(mem).head = mem.head /\ \A l : L!Forward(Before(mem), l) = L!Forward(mem, l)
      BY <3>1, BeforeIs
    <3> TAKE l \in {RL, Q, WQ}
    <3>4. L!Forward(Before(mem), l) = L!Forward(mem, l) /\ Before(mem).head[l] = mem.head[l]
      BY <3>3
    <3> QED BY <3>2, <3>4
  <2> QED BY <2>1, <2>2
<1>2. /\ Len(L!Forward(mem, Q)) <= 1
      /\ (cpu = "run") <=> (current # NULL)
      /\ current \in Proc \cup {NULL}
      /\ state \in [Proc -> {"READY", "RUNNING", "BLOCKED", "GRAVE"}]
  BY DEF IInv, P!IInv, P!TypeOK, P!OneClockWaiter
<1>3. ASSUME NEW p \in Proc, current = p, View(pc[p]) # "pushed" PROVE Off(mem, p)
  <2>1. ~P!Listed(p)
    BY <1>3, ViewIs DEF IInv, P!IInv, P!OnlyIdleListed
  <2> QED BY <2>1 DEF P!Listed, P!On, Off, Contains
<1>4. ASSUME NEW p \in Proc, pc[p] \in PushStmts PROVE L!Forward(mem, Q) = <<>>
  <2>1. AbsPC[p] = "push"
    BY <1>4, ViewIs DEF View
  <2>2. \A q \in Proc : ~P!On(L!Forward(mem, Q), q)
    BY <2>1 DEF IInv, P!IInv, P!OneClockWaiter, P!MutexExclusion, P!InCS
  <2> QED BY <1>1, <2>2, P!NobodyOn, SchedConstants
<1> QED BY <1>1, <1>2, <1>3, <1>4

(* The push holds the mutex: while it is free, or another process is in    *)
(* the critical section, nobody is in the middle of one and the memory is  *)
(* sound.                                                                  *)
LEMMA Whole ==
    ASSUME IInv, \A p \in Proc : pc[p] \notin PushStmts
    PROVE  Sound(mem)
BY DEF IInv, MInv, PushStmts

LEMMA Alone ==
    ASSUME IInv, NEW q \in Proc, pc[q] \in PushStmts
    PROVE  locked /\ \A p \in Proc : AbsPC[p] \in {"cs", "push", "pushed", "sleep"} => p = q
<1>1. AbsPC[q] = "push"
  BY ViewIs DEF View
<1> QED BY <1>1 DEF IInv, P!IInv, P!MutexExclusion, P!InCS

(* A step that leaves the positions alone or moves the running process to  *)
(* one outside the push keeps the rest of the invariant if it leaves a     *)
(* sound memory.                                                           *)
LEMMA Keeps ==
    ASSUME IInv, \A p \in Proc : pc[p] \notin PushStmts,
           \/ pc' = pc
           \/ \E p \in Proc, at \in ImplPC \ PushStmts : pc' = [pc EXCEPT ![p] = at],
           mem' \in K!MemType, Sound(mem')
    PROVE  MInv'
<1>1. pc' \in [Proc -> ImplPC] /\ \A p \in Proc : pc'[p] \notin PushStmts
  BY DEF IInv, MInv
<1> QED BY <1>1 DEF MInv, PushStmts

LEMMA SoundType == ASSUME NEW m, Sound(m) PROVE m \in K!MemType
BY DEF Sound, Twin

(* list_push_tail and list_pop_head on the other lists do not see the tail *)
(* of queue that a half-done push has left behind.                         *)
LEMMA EndsOff ==
    ASSUME NEW m, Sound(m), NEW l \in {RL, Q, WQ}
    PROVE  /\ \A n \in Proc : Off(m, n) => m.tail[l] # n
           /\ m.head[l] # NULL => m.next[m.head[l]] # m.head[l]
<1>1. PICK g : Twin(m, g)
  BY DEF Sound
<1>2. ASSUME NEW n \in Proc, Off(m, n) PROVE m.tail[l] # n
  <2>1. g.list[n] = NULL
    BY <1>1, <1>2, TwinOff
  <2> QED BY <1>1, <2>1, SchedImplAssumption DEF Twin, Same, K!Good, K!EndsOK
<1>3. ASSUME m.head[l] # NULL PROVE m.next[m.head[l]] # m.head[l]
  <2> DEFINE h == g.head[l]
  <2>1. h # NULL /\ m.head[l] = h /\ m.next = g.next
    BY <1>1, <1>3 DEF Twin, Same
  <2>2. g.list[h] = l /\ g.prev[h] = NULL /\ h \in Proc
    BY <1>1, <2>1 DEF Twin, K!Good, K!EndsOK, K!MemType
  <2>3. g.next[h] # NULL => g.prev[g.next[h]] = h /\ g.list[g.next[h]] = l
    BY <1>1, <2>2, SchedImplAssumption DEF Twin, K!Good, K!LinksOK
  <2> QED BY <2>1, <2>2, <2>3, SchedImplAssumption
<1> QED BY <1>2, <1>3

LEMMA HalfPush ==
    ASSUME NEW m \in K!MemType, Sound(Before(m)), NEW l \in {RL, WQ}, NEW n \in Proc, Off(m, n)
    PROVE  LET r == L!list_push_tail(m, l, n)
           IN  /\ r \in K!MemType /\ Sound(Before(r)) /\ r.tail[Q] = m.tail[Q]
               /\ L!Forward(r, l) = Append(L!Forward(m, l), n)
               /\ \A o \in {RL, Q, WQ} \ {l} : L!Forward(r, o) = L!Forward(m, o)
<1> DEFINE b == Before(m)
           r == L!list_push_tail(m, l, n)
           rb == L!list_push_tail(b, l, n)
<1>1. /\ b \in K!MemType /\ b.head = m.head /\ b.next = m.next /\ b.prev = m.prev
      /\ b.tail = [m.tail EXCEPT ![Q] = NULL] /\ \A o : L!Forward(b, o) = L!Forward(m, o)
  BY BeforeIs
<1>2. Off(b, n)
  BY <1>1 DEF Off
<1>3. b.tail[l] = m.tail[l] /\ b.tail[l] # n /\ l \in {RL, Q, WQ} /\ l # Q
  <2>1. l \in {RL, Q, WQ} /\ l # Q
    BY SchedImplAssumption
  <2>2. b.tail[l] = m.tail[l]
    BY <1>1, <2>1 DEF K!MemType
  <2>3. b.tail[l] # n
    BY <1>2, <2>1, EndsOff
  <2> QED BY <2>1, <2>2, <2>3
<1>4. /\ Sound(rb) /\ L!Forward(rb, l) = Append(L!Forward(b, l), n)
      /\ \A o \in {RL, Q, WQ} \ {l} : L!Forward(rb, o) = L!Forward(b, o)
  BY <1>2, <1>3, SoundPush
<1>5. K!Appended(b, rb, l, n)
  <2>1. rb = K!list_push_tail(b, l, n)
    BY SameOps
  <2> HIDE DEF rb, b
  <2> QED BY <1>1, <1>3, <2>1, K!PushTailFields, ListConstants
<1>6. K!Appended(m, r, l, n)
  <2>1. r = K!list_push_tail(m, l, n)
    BY SameOps
  <2> HIDE DEF r, b
  <2> QED BY <1>3, <2>1, K!PushTailFields, ListConstants
<1> HIDE DEF b, r, rb
<1>7. /\ r \in K!MemType /\ r.tail = [m.tail EXCEPT ![l] = n] /\ r.tail[Q] = m.tail[Q]
  BY <1>3, <1>6 DEF K!Appended, K!MemType
<1>8. /\ Before(r) \in K!MemType /\ Before(r).head = r.head /\ Before(r).next = r.next
      /\ Before(r).prev = r.prev /\ Before(r).tail = [r.tail EXCEPT ![Q] = NULL]
      /\ \A o : L!Forward(Before(r), o) = L!Forward(r, o)
  BY <1>7, BeforeIs
<1>9. Same(Before(r), rb)
  <2>1. rb.head = r.head /\ rb.next = r.next /\ rb.prev = r.prev
    BY <1>1, <1>3, <1>5, <1>6 DEF K!Appended
  <2>2. rb.tail = [r.tail EXCEPT ![Q] = NULL]
    BY <1>1, <1>3, <1>5, <1>7 DEF K!Appended, K!MemType
  <2> QED BY <1>8, <2>1, <2>2 DEF Same
<1>10. Sound(Before(r)) /\ \A o : L!Forward(Before(r), o) = L!Forward(rb, o)
  BY <1>4, <1>8, <1>9, SoundSame
<1>11. \A o : L!Forward(r, o) = L!Forward(rb, o)
  BY <1>8, <1>10
<1> QED BY <1>1, <1>4, <1>7, <1>10, <1>11 DEF r

LEMMA HalfPop ==
    ASSUME NEW m \in K!MemType, Sound(Before(m)), NEW l \in {RL, WQ}, m.head[l] # NULL
    PROVE  LET r == L!list_pop_head(m, l)
           IN  /\ r \in K!MemType /\ Sound(Before(r)) /\ r.tail[Q] = m.tail[Q]
               /\ L!Forward(r, l) = Tail(L!Forward(m, l))
               /\ \A o \in {RL, Q, WQ} \ {l} : L!Forward(r, o) = L!Forward(m, o)
<1> DEFINE b == Before(m)
           r == L!list_pop_head(m, l)
           rb == L!list_pop_head(b, l)
           h == m.head[l]
<1>1. /\ b \in K!MemType /\ b.head = m.head /\ b.next = m.next /\ b.prev = m.prev
      /\ b.tail = [m.tail EXCEPT ![Q] = NULL] /\ \A o : L!Forward(b, o) = L!Forward(m, o)
  BY BeforeIs
<1>3. /\ b.tail[l] = m.tail[l] /\ l \in {RL, Q, WQ} /\ l # Q
      /\ b.head[l] # NULL /\ b.next[b.head[l]] # b.head[l] /\ m.next[m.head[l]] # m.head[l]
  <2>1. l \in {RL, Q, WQ} /\ l # Q
    BY SchedImplAssumption
  <2>2. b.tail[l] = m.tail[l]
    BY <1>1, <2>1 DEF K!MemType
  <2>3. b.head[l] # NULL /\ b.next[b.head[l]] # b.head[l]
    BY <1>1, <2>1, EndsOff
  <2> QED BY <1>1, <2>1, <2>2, <2>3
<1>4. /\ Sound(rb) /\ L!Forward(rb, l) = Tail(L!Forward(b, l))
      /\ \A o \in {RL, Q, WQ} \ {l} : L!Forward(rb, o) = L!Forward(b, o)
  BY <1>3, SoundPop
<1>5. K!Popped(b, rb, l, b.head[l], b.next[b.head[l]])
  <2>1. rb = K!list_pop_head(b, l)
    BY SameOps
  <2> HIDE DEF rb, b
  <2> QED BY <1>1, <1>3, <2>1, K!PopHeadFields, ListConstants
<1>6. K!Popped(m, r, l, m.head[l], m.next[m.head[l]])
  <2>1. r = K!list_pop_head(m, l)
    BY SameOps
  <2> HIDE DEF r, b
  <2> QED BY <1>3, <2>1, K!PopHeadFields, ListConstants
<1> HIDE DEF b, r, rb
<1>7. /\ r \in K!MemType /\ r.tail[Q] = m.tail[Q]
  BY <1>3, <1>6 DEF K!Popped, K!MemType
<1>8. /\ Before(r) \in K!MemType /\ Before(r).head = r.head /\ Before(r).next = r.next
      /\ Before(r).prev = r.prev /\ Before(r).tail = [r.tail EXCEPT ![Q] = NULL]
      /\ \A o : L!Forward(Before(r), o) = L!Forward(r, o)
  BY <1>7, BeforeIs
<1>9. Same(Before(r), rb)
  <2>1. rb.head = r.head /\ rb.next = r.next /\ rb.prev = r.prev
    BY <1>1, <1>5, <1>6 DEF K!Popped
  <2>2. rb.tail = [r.tail EXCEPT ![Q] = NULL]
    BY <1>1, <1>3, <1>5, <1>6 DEF K!Popped, K!MemType
  <2> QED BY <1>8, <2>1, <2>2 DEF Same
<1>10. Sound(Before(r)) /\ \A o : L!Forward(Before(r), o) = L!Forward(rb, o)
  BY <1>4, <1>8, <1>9, SoundSame
<1>11. \A o : L!Forward(r, o) = L!Forward(rb, o)
  BY <1>8, <1>10
<1> QED BY <1>1, <1>4, <1>7, <1>10, <1>11 DEF r

(* A step after which only the dead are in the middle of a push, and those *)
(* that were.                                                              *)
Calm ==
    /\ pc' \in [Proc -> ImplPC]
    /\ \A q \in Proc : /\ pc'[q] \in PushStmts => q \in killed'
                       /\ pc'[q] = "push4" <=> pc[q] = "push4"

LEMMA PushKeeps ==
    ASSUME IInv, Calm, NEW l \in {RL, WQ}, NEW n \in Proc, Off(mem, n),
           mem' = L!list_push_tail(mem, l, n)
    PROVE  /\ MInv'
           /\ L!Forward(mem', l) = Append(L!Forward(mem, l), n)
           /\ \A o \in {RL, Q, WQ} \ {l} : L!Forward(mem', o) = L!Forward(mem, o)
<1>1. CASE \A q \in Proc : pc[q] # "push4"
  <2>1. Sound(mem) /\ l \in {RL, Q, WQ}
    BY <1>1 DEF IInv, MInv
  <2>2. /\ Sound(mem') /\ L!Forward(mem', l) = Append(L!Forward(mem, l), n)
        /\ \A o \in {RL, Q, WQ} \ {l} : L!Forward(mem', o) = L!Forward(mem, o)
    BY <2>1, SoundPush
  <2>3. MInv'
    BY <1>1, <2>2, SoundType DEF Calm, MInv
  <2> QED BY <2>2, <2>3
<1>2. CASE \E q \in Proc : pc[q] = "push4"
  <2>1. Sound(Before(mem)) /\ mem \in K!MemType /\ \A q \in Proc : pc[q] = "push4" => mem.tail[Q] = q
    BY <1>2 DEF IInv, MInv
  <2>2. /\ mem' \in K!MemType /\ Sound(Before(mem')) /\ mem'.tail[Q] = mem.tail[Q]
        /\ L!Forward(mem', l) = Append(L!Forward(mem, l), n)
        /\ \A o \in {RL, Q, WQ} \ {l} : L!Forward(mem', o) = L!Forward(mem, o)
    BY <2>1, HalfPush
  <2>3. MInv'
    BY <1>2, <2>1, <2>2 DEF Calm, MInv
  <2> QED BY <2>2, <2>3
<1> QED BY <1>1, <1>2

LEMMA PopKeeps ==
    ASSUME IInv, Calm, NEW l \in {RL, WQ}, mem.head[l] # NULL,
           mem' = L!list_pop_head(mem, l)
    PROVE  /\ MInv'
           /\ L!Forward(mem', l) = Tail(L!Forward(mem, l))
           /\ \A o \in {RL, Q, WQ} \ {l} : L!Forward(mem', o) = L!Forward(mem, o)
<1>1. CASE \A q \in Proc : pc[q] # "push4"
  <2>1. Sound(mem) /\ l \in {RL, Q, WQ}
    BY <1>1 DEF IInv, MInv
  <2>2. /\ Sound(mem') /\ L!Forward(mem', l) = Tail(L!Forward(mem, l))
        /\ \A o \in {RL, Q, WQ} \ {l} : L!Forward(mem', o) = L!Forward(mem, o)
    BY <2>1, SoundPop
  <2>3. MInv'
    BY <1>1, <2>2, SoundType DEF Calm, MInv
  <2> QED BY <2>2, <2>3
<1>2. CASE \E q \in Proc : pc[q] = "push4"
  <2>1. Sound(Before(mem)) /\ mem \in K!MemType /\ \A q \in Proc : pc[q] = "push4" => mem.tail[Q] = q
    BY <1>2 DEF IInv, MInv
  <2>2. /\ mem' \in K!MemType /\ Sound(Before(mem')) /\ mem'.tail[Q] = mem.tail[Q]
        /\ L!Forward(mem', l) = Tail(L!Forward(mem, l))
        /\ \A o \in {RL, Q, WQ} \ {l} : L!Forward(mem', o) = L!Forward(mem, o)
    BY <2>1, HalfPop
  <2>3. MInv'
    BY <1>2, <2>1, <2>2 DEF Calm, MInv
  <2> QED BY <2>2, <2>3
<1> QED BY <1>1, <1>2

(* The steps of the kernel and of the clock, seen as steps of Sched.       *)
LEMMA DispatchStep ==
    ASSUME IInv, Dispatch PROVE MInv' /\ P!Dispatch
<1>1. /\ cpu = "pick" /\ mem.head[RL] # NULL /\ current' = mem.head[RL]
      /\ mem' = L!list_pop_head(mem, RL) /\ state' = [state EXCEPT ![mem.head[RL]] = "RUNNING"]
      /\ cpu' = "run" /\ UNCHANGED <<locked, pc, elapsed, waits, killed>>
  BY DEF Dispatch
<1>2. current = NULL /\ \A p \in Proc : current # p
  BY <1>1, Lists, SchedImplAssumption
<1>3. Calm
  BY <1>1, <1>2 DEF Calm, IInv, MInv
<1>4. /\ MInv' /\ L!Forward(mem', RL) = Tail(L!Forward(mem, RL))
      /\ \A o \in {RL, Q, WQ} \ {RL} : L!Forward(mem', o) = L!Forward(mem, o)
  BY <1>1, <1>3, PopKeeps
<1>6. L!Forward(mem, RL) # <<>> /\ mem.head[RL] = Head(L!Forward(mem, RL))
  BY <1>1, Lists
<1>7. AbsPC' = AbsPC
  BY <1>1, ViewIs
<1>8. L!Forward(mem', Q) = L!Forward(mem, Q) /\ L!Forward(mem', WQ) = L!Forward(mem, WQ)
  BY <1>4, SchedImplAssumption
<1>9. P!Dispatch
  BY <1>1, <1>4, <1>6, <1>7, <1>8 DEF P!Dispatch
<1> QED BY <1>4, <1>9

LEMMA IdleStep ==
    ASSUME IInv, BootSwitch \/ IdleOpen \/ IdleHalt \/ ExitIdle
    PROVE  MInv' /\ (P!BootSwitch \/ P!IdleOpen \/ P!IdleHalt \/ P!ExitIdle)
<1>1. mem' = mem /\ current' = current /\ pc' = pc /\ killed' = killed
  BY DEF BootSwitch, IdleOpen, IdleHalt, ExitIdle
<1>2. MInv'
  BY <1>1 DEF IInv, MInv
<1>3. AbsPC' = AbsPC
  BY <1>1, ViewIs
<1>4. mem.head[RL] = NULL => L!Forward(mem, RL) = <<>>
  BY Lists
<1>5. BootSwitch => P!BootSwitch
  BY <1>1, <1>3 DEF BootSwitch, P!BootSwitch
<1>6. IdleOpen => P!IdleOpen
  BY <1>1, <1>3, <1>4 DEF IdleOpen, P!IdleOpen
<1>7. IdleHalt => P!IdleHalt
  BY <1>1, <1>3 DEF IdleHalt, P!IdleHalt
<1>8. ExitIdle => P!ExitIdle
  BY <1>1, <1>3 DEF ExitIdle, P!ExitIdle
<1> QED BY <1>2, <1>5, <1>6, <1>7, <1>8

LEMMA OneIsLast ==
    ASSUME NEW s \in Seq(Proc), NEW t \in Seq(Proc), Len(s) <= 1, s # <<>>
    PROVE  Tail(s) = <<>> /\ t \o s = Append(t, Head(s)) /\ Head(s) \in Proc
<1>0. Len(s) \in Nat /\ Len(s) # 0
  BY EmptySeq
<1>1. Len(s) = 1 /\ s[1] \in Proc /\ Head(s) = s[1]
  <2>1. \A n \in Nat : n <= 1 /\ n # 0 => n = 1
    OBVIOUS
  <2>2. Len(s) = 1
    BY <1>0, <2>1, Zenon
  <2> QED BY <2>2
<1>2. Tail(s) = <<>>
  BY <1>1
<1> DEFINE u == t \o s
           v == Append(t, s[1])
<1>3. /\ u \in Seq(Proc) /\ Len(u) = Len(t) + 1 /\ u[Len(t) + 1] = s[1]
      /\ \A i \in 1..Len(t) : u[i] = t[i]
  <2>1. Len(t) \in Nat
    OBVIOUS
  <2>2. /\ u \in Seq(Proc) /\ Len(u) = Len(t) + Len(s)
        /\ \A i \in 1..Len(t) + Len(s) : u[i] = IF i <= Len(t) THEN t[i] ELSE s[i - Len(t)]
    BY ConcatProperties, Zenon
  <2> HIDE DEF u
  <2> QED BY <1>1, <2>1, <2>2
<1>4. /\ v \in Seq(Proc) /\ Len(v) = Len(t) + 1 /\ v[Len(t) + 1] = s[1]
      /\ \A i \in 1..Len(t) : v[i] = t[i]
  BY <1>1
<1> HIDE DEF u, v
<1>5. Len(t) \in Nat /\ \A i \in 1..(Len(t) + 1) : i \in 1..Len(t) \/ i = Len(t) + 1
  OBVIOUS
<1>6. \A i \in 1..(Len(t) + 1) : u[i] = v[i]
  BY <1>3, <1>4, <1>5
<1>7. u = v
  BY <1>3, <1>4, <1>6, SeqEqual
<1> QED BY <1>1, <1>2, <1>7 DEF u, v

LEMMA ClockStep ==
    ASSUME IInv, ClockInterrupt PROVE MInv' /\ P!ClockInterrupt
<1> DEFINE q == L!Forward(mem, Q)
           rl == L!Forward(mem, RL)
<1>1. /\ cpu # "pick" /\ mem' = process_wakeup_all(mem, Q)
      /\ state' = [p \in Proc |-> IF Contains(q, p) THEN "READY" ELSE state[p]]
      /\ elapsed' = IF elapsed < Delay THEN elapsed + 1 ELSE elapsed
      /\ cpu' = IF cpu = "hlt" THEN "pick" ELSE cpu
      /\ UNCHANGED <<current, locked, pc, waits, killed>>
  BY DEF ClockInterrupt
<1>2. /\ q \in Seq(Proc) /\ rl \in Seq(Proc) /\ Len(q) <= 1
      /\ mem.head[Q] = NULL <=> q = <<>>
      /\ mem.head[Q] # NULL => mem.head[Q] = Head(q)
  BY Lists
<1>3. /\ MInv' /\ L!Forward(mem', RL) = rl \o q /\ L!Forward(mem', Q) = <<>>
      /\ L!Forward(mem', WQ) = L!Forward(mem, WQ)
  <2>1. CASE q = <<>>
    <3>1. process_wakeup(mem, Q) = mem
      BY <1>2, <2>1 DEF process_wakeup
    <3>2. mem' = mem
      BY <1>1, <3>1, WakeupAllIs
    <3>3. MInv'
      BY <1>1, <3>2 DEF IInv, MInv
    <3>4. rl \o q = rl
      BY <1>2, <2>1
    <3> QED BY <2>1, <3>2, <3>3, <3>4
  <2>2. CASE q # <<>>
    <3>1. Sound(mem) /\ \A p \in Proc : pc[p] \notin PushStmts
      BY <2>2, Lists, Whole
    <3> DEFINE w == process_wakeup(mem, Q)
    <3>2. /\ Sound(w) /\ L!Forward(w, Q) = Tail(q)
          /\ L!Forward(w, RL) = Append(rl, mem.head[Q])
          /\ \A o \in {Q, WQ} \ {Q} : L!Forward(w, o) = L!Forward(mem, o)
      BY <1>2, <2>2, <3>1, WakeupIs
    <3> HIDE DEF w
    <3>3. Tail(q) = <<>> /\ rl \o q = Append(rl, Head(q)) /\ Head(q) \in Proc
      BY <1>2, <2>2, OneIsLast
    <3>4. process_wakeup(w, Q) = w
      <4>1. w.head[Q] = NULL
        BY <3>2, <3>3, SoundWalk
      <4> QED BY <4>1 DEF process_wakeup
    <3>5. mem' = w
      BY <1>1, <3>3, <3>4, WakeupAllIs DEF w
    <3>6. MInv'
      BY <1>1, <3>1, <3>2, <3>5, SoundType, Keeps
    <3> QED BY <1>2, <2>2, <3>2, <3>3, <3>5, <3>6, SchedImplAssumption
  <2> QED BY <2>1, <2>2
<1>4. AbsPC' = AbsPC
  BY <1>1, ViewIs
<1>5. state' = P!WakeAll(state)
  BY <1>1 DEF P!WakeAll, P!On, Contains
<1>6. P!ClockInterrupt
  BY <1>1, <1>3, <1>4, <1>5 DEF P!ClockInterrupt
<1> QED BY <1>3, <1>6

(* The running process outside the push is on no list unless it is past    *)
(* it; while it holds the mutex, or nobody does, the memory is sound.      *)
LEMMA Runs ==
    ASSUME IInv, NEW p \in Proc, NEW at, Running(p, at),
           at \subseteq {"user", "retry", "cs", "pushed", "sleep", "push5"}
    PROVE  /\ cpu = "run" /\ current = p /\ pc[p] \in at /\ mem \in K!MemType
           /\ \A q \in Proc : pc[q] \in PushStmts => q # p /\ q \in killed
           /\ ~locked \/ pc[p] \in {"cs", "pushed", "sleep", "push5"} =>
                  Sound(mem) /\ \A q \in Proc : pc[q] \notin PushStmts
           /\ pc[p] \notin {"pushed", "push5"} => Off(mem, p) /\ AbsPC[p] = pc[p]
           /\ pc[p] \in {"pushed", "push5"} => AbsPC[p] = "pushed"
<1>1. cpu = "run" /\ current = p /\ pc[p] \in at /\ pc[p] \notin PushStmts
  BY DEF Running, PushStmts
<1>2. mem \in K!MemType /\ \A q \in Proc : pc[q] \in PushStmts => q # p /\ q \in killed
  BY <1>1 DEF IInv, MInv
<1>3. /\ pc[p] \notin {"pushed", "push5"} => View(pc[p]) = pc[p]
      /\ pc[p] \in {"pushed", "push5"} => View(pc[p]) = "pushed"
  BY <1>1 DEF View
<1>4. AbsPC[p] = View(pc[p])
  BY ViewIs
<1>5. ASSUME ~locked \/ pc[p] \in {"cs", "pushed", "sleep", "push5"}
      PROVE  Sound(mem) /\ \A q \in Proc : pc[q] \notin PushStmts
  <2>1. pc[p] \in {"cs", "pushed", "sleep", "push5"} => AbsPC[p] \in {"cs", "push", "pushed", "sleep"}
    BY <1>3, <1>4
  <2>2. \A q \in Proc : pc[q] \notin PushStmts
    BY <1>2, <1>5, <2>1, Alone
  <2> QED BY <2>2, Whole
<1> QED BY <1>1, <1>2, <1>3, <1>4, <1>5, Lists

(* Steps that push the running process to a list or wake up another.       *)
LEMMA YieldStep ==
    ASSUME IInv, NEW p \in Proc, Yield(p) PROVE MInv' /\ P!Yield(p)
<1>1. /\ Running(p, {"user"}) /\ SwitchFrom(p, "READY")
      /\ mem' = L!list_push_tail(mem, RL, p) /\ UNCHANGED <<locked, pc, elapsed, waits, killed>>
  BY DEF Yield
<1>2. /\ cpu = "run" /\ current = p /\ pc[p] = "user" /\ Off(mem, p)
      /\ AbsPC[p] = "user" /\ \A q \in Proc : pc[q] \in PushStmts => q # p /\ q \in killed
  BY <1>1, Runs
<1>3. Calm
  BY <1>1, <1>2 DEF Calm, IInv, MInv
<1>4. /\ MInv' /\ L!Forward(mem', RL) = Append(L!Forward(mem, RL), p)
      /\ \A o \in {RL, Q, WQ} \ {RL} : L!Forward(mem', o) = L!Forward(mem, o)
  BY <1>1, <1>2, <1>3, PushKeeps
<1>5. L!Forward(mem', Q) = L!Forward(mem, Q) /\ L!Forward(mem', WQ) = L!Forward(mem, WQ)
  BY <1>4, SchedImplAssumption
<1>6. AbsPC' = AbsPC
  BY <1>1, ViewIs
<1>7. P!Yield(p)
  BY <1>1, <1>2, <1>4, <1>5, <1>6 DEF P!Yield, P!Running, P!SwitchFrom, SwitchFrom
<1> QED BY <1>4, <1>7

LEMMA MutexBlockStep ==
    ASSUME IInv, NEW p \in Proc, MutexBlock(p) PROVE MInv' /\ P!MutexBlock(p)
<1>1. /\ Running(p, {"user", "retry"}) /\ locked /\ mem' = L!list_push_tail(mem, WQ, p)
      /\ SwitchFrom(p, "BLOCKED") /\ pc' = [pc EXCEPT ![p] = "retry"]
      /\ UNCHANGED <<locked, elapsed, waits, killed>>
  BY DEF MutexBlock
<1>2. /\ cpu = "run" /\ current = p /\ pc[p] \in {"user", "retry"} /\ Off(mem, p)
      /\ AbsPC[p] = pc[p] /\ \A q \in Proc : pc[q] \in PushStmts => q # p /\ q \in killed
  BY <1>1, Runs
<1>3. Calm
  <2>1. pc' \in [Proc -> ImplPC] /\ \A q \in Proc : pc'[q] = IF q = p THEN "retry" ELSE pc[q]
    BY <1>1 DEF IInv, MInv, ImplPC, PushStmts
  <2> QED BY <1>1, <1>2, <2>1 DEF Calm, PushStmts
<1>4. "retry" \in ImplPC \ PushStmts /\ View("retry") = "retry"
  BY DEF ImplPC, PushStmts, View
<1>5. /\ MInv' /\ L!Forward(mem', WQ) = Append(L!Forward(mem, WQ), p)
      /\ \A o \in {RL, Q, WQ} \ {WQ} : L!Forward(mem', o) = L!Forward(mem, o)
  BY <1>1, <1>2, <1>3, PushKeeps
<1>6. L!Forward(mem', Q) = L!Forward(mem, Q) /\ L!Forward(mem', RL) = L!Forward(mem, RL)
  BY <1>5, SchedImplAssumption
<1>7. AbsPC' = [AbsPC EXCEPT ![p] = "retry"]
  BY <1>1, <1>4, ViewChange DEF IInv
<1>8. P!MutexBlock(p)
  BY <1>1, <1>2, <1>5, <1>6, <1>7 DEF P!MutexBlock, P!Running, P!SwitchFrom, SwitchFrom
<1> QED BY <1>5, <1>8

LEMMA MutexUnlockStep ==
    ASSUME IInv, NEW p \in Proc, MutexUnlock(p) PROVE MInv' /\ P!MutexUnlock(p)
<1>1. /\ Running(p, {"cs"}) /\ locked' = FALSE /\ pc' = [pc EXCEPT ![p] = "user"]
      /\ mem' = process_wakeup(mem, WQ)
      /\ state' = IF mem.head[WQ] = NULL THEN state
                  ELSE [state EXCEPT ![mem.head[WQ]] = "READY"]
      /\ UNCHANGED <<current, cpu, elapsed, waits, killed>>
  BY DEF MutexUnlock
<1>2. /\ cpu = "run" /\ current = p /\ pc[p] = "cs" /\ Sound(mem)
      /\ AbsPC[p] = "cs" /\ \A q \in Proc : pc[q] \notin PushStmts
  BY <1>1, Runs
<1>3. "user" \in ImplPC \ PushStmts /\ View("user") = "user"
  BY DEF ImplPC, PushStmts, View
<1>4. AbsPC' = [AbsPC EXCEPT ![p] = "user"]
  BY <1>1, <1>3, ViewChange DEF IInv
<1>5. /\ mem.head[WQ] = NULL <=> L!Forward(mem, WQ) = <<>>
      /\ mem.head[WQ] # NULL => mem.head[WQ] = Head(L!Forward(mem, WQ))
  BY Lists
<1>6. CASE mem.head[WQ] = NULL
  <2>1. mem' = mem /\ state' = state
    BY <1>1, <1>6 DEF process_wakeup
  <2>2. MInv'
    BY <1>1, <1>2, <1>3, <2>1, SoundType, Keeps
  <2>3. P!MutexUnlock(p)
    BY <1>1, <1>2, <1>4, <1>5, <1>6, <2>1 DEF P!MutexUnlock, P!Running
  <2> QED BY <2>2, <2>3
<1>7. CASE mem.head[WQ] # NULL
  <2>1. /\ Sound(mem') /\ L!Forward(mem', WQ) = Tail(L!Forward(mem, WQ))
        /\ L!Forward(mem', RL) = Append(L!Forward(mem, RL), mem.head[WQ])
        /\ \A o \in {Q, WQ} \ {WQ} : L!Forward(mem', o) = L!Forward(mem, o)
    BY <1>1, <1>2, <1>7, WakeupIs
  <2>2. MInv'
    BY <1>1, <1>2, <1>3, <2>1, SoundType, Keeps
  <2>3. L!Forward(mem', Q) = L!Forward(mem, Q)
    BY <2>1, SchedImplAssumption
  <2>4. P!MutexUnlock(p)
    BY <1>1, <1>2, <1>4, <1>5, <1>7, <2>1, <2>3 DEF P!MutexUnlock, P!Running
  <2> QED BY <2>2, <2>4
<1> QED BY <1>6, <1>7

(* Steps that touch no list.                                               *)
LEMMA StillStep ==
    ASSUME IInv, NEW p \in Proc,
           MutexLock(p) \/ ClockWait(p) \/ ClockSwitch(p) \/ ClockCheck(p) \/ Exit(p)
    PROVE  /\ MInv'
           /\ P!MutexLock(p) \/ P!ClockWait(p) \/ P!ClockSwitch(p) \/ P!ClockCheck(p) \/ P!Exit(p)
<1>1. mem' = mem
  BY DEF MutexLock, ClockWait, ClockSwitch, ClockCheck, Exit
<1>2. \A at \in {"cs", "sleep", "user", "retry"} : at \in ImplPC \ PushStmts /\ View(at) = at
  BY DEF ImplPC, PushStmts, View
<1>3. ASSUME MutexLock(p) PROVE MInv' /\ P!MutexLock(p)
  <2>1. /\ cpu = "run" /\ current = p /\ pc[p] \in {"user", "retry"} /\ Sound(mem)
        /\ AbsPC[p] = pc[p] /\ \A q \in Proc : pc[q] \notin PushStmts
    BY <1>3, Runs DEF MutexLock
  <2>2. pc' = [pc EXCEPT ![p] = "cs"]
    BY <1>3 DEF MutexLock
  <2>3. MInv' /\ AbsPC' = [AbsPC EXCEPT ![p] = "cs"]
    BY <1>1, <1>2, <2>1, <2>2, SoundType, Keeps, ViewChange DEF IInv
  <2> QED BY <1>1, <1>3, <2>1, <2>3 DEF MutexLock, P!MutexLock, P!Running
<1>4. ASSUME ClockWait(p) PROVE MInv' /\ P!ClockWait(p)
  <2>1. /\ cpu = "run" /\ current = p /\ pc[p] = "cs" /\ Sound(mem)
        /\ AbsPC[p] = pc[p] /\ \A q \in Proc : pc[q] \notin PushStmts
    BY <1>4, Runs DEF ClockWait
  <2>2. pc' = [pc EXCEPT ![p] = "push"] /\ current' = current
    BY <1>4 DEF ClockWait
  <2>3. View("push") = "push"
    BY DEF View, PushStmts
  <2>4. MInv'
    BY <1>1, <2>1, <2>2 DEF IInv, MInv, ImplPC, PushStmts
  <2>5. AbsPC' = [AbsPC EXCEPT ![p] = "push"]
    BY <2>2, <2>3, ViewChange DEF IInv
  <2> QED BY <1>1, <1>4, <2>1, <2>4, <2>5 DEF ClockWait, P!ClockWait, P!Running
<1>5. ASSUME ClockSwitch(p) PROVE MInv' /\ P!ClockSwitch(p)
  <2>1. /\ cpu = "run" /\ current = p /\ Sound(mem)
        /\ AbsPC[p] = "pushed" /\ \A q \in Proc : pc[q] \notin PushStmts
    BY <1>5, Runs DEF ClockSwitch
  <2>2. pc' = [pc EXCEPT ![p] = "sleep"]
    BY <1>5 DEF ClockSwitch
  <2>3. MInv' /\ AbsPC' = [AbsPC EXCEPT ![p] = "sleep"]
    BY <1>1, <1>2, <2>1, <2>2, SoundType, Keeps, ViewChange DEF IInv
  <2> QED BY <1>1, <1>5, <2>1, <2>3
      DEF ClockSwitch, P!ClockSwitch, P!Running, SwitchFrom, P!SwitchFrom
<1>6. ASSUME ClockCheck(p) PROVE MInv' /\ P!ClockCheck(p)
  <2>1. /\ cpu = "run" /\ current = p /\ pc[p] = "sleep" /\ Sound(mem)
        /\ AbsPC[p] = pc[p] /\ \A q \in Proc : pc[q] \notin PushStmts
    BY <1>6, Runs DEF ClockCheck
  <2> DEFINE at == IF elapsed < Delay THEN "push" ELSE "cs"
  <2>2. pc' = [pc EXCEPT ![p] = at] /\ current' = current
    BY <1>6 DEF ClockCheck
  <2>3. View(at) = at /\ at \in {"push", "cs"}
    BY DEF View, PushStmts
  <2> HIDE DEF at
  <2>4. MInv'
    BY <1>1, <2>1, <2>2, <2>3 DEF IInv, MInv, ImplPC, PushStmts
  <2>5. AbsPC' = [AbsPC EXCEPT ![p] = at]
    BY <2>2, <2>3, ViewChange DEF IInv
  <2> QED BY <1>1, <1>6, <2>1, <2>4, <2>5 DEF ClockCheck, P!ClockCheck, P!Running, at
<1>7. ASSUME Exit(p) PROVE MInv' /\ P!Exit(p)
  <2>1. /\ cpu = "run" /\ current = p /\ pc' = pc /\ killed' = killed \cup {p}
    BY <1>7 DEF Exit
  <2>2. MInv'
    BY <1>1, <2>1 DEF IInv, MInv
  <2>3. AbsPC' = AbsPC
    BY <2>1, ViewIs
  <2>4. AbsPC[p] \in P!PC
    BY DEF IInv, P!IInv, P!TypeOK
  <2>5. P!Exit(p)
    BY <1>1, <1>7, <2>1, <2>3, <2>4 DEF Exit, P!Exit, P!Running, SwitchFrom, P!SwitchFrom
  <2> QED BY <2>2, <2>5
<1> QED BY <1>3, <1>4, <1>5, <1>6, <1>7

(* The five statements of the unprotected push.  The first four are made   *)
(* by a process on no list to an empty queue, so that only the third and   *)
(* the fourth change a pointer, and the fourth is the push Sched sees.     *)
LEMMA MidPush ==
    ASSUME IInv, NEW p \in Proc, NEW from \in PushStmts, Running(p, {from})
    PROVE  /\ cpu = "run" /\ current = p /\ pc[p] = from /\ AbsPC[p] = "push"
           /\ mem \in K!MemType /\ mem.head[Q] = NULL /\ L!Forward(mem, Q) = <<>>
           /\ Off(mem, p) /\ mem.next[p] = NULL /\ mem.prev[p] = NULL
           /\ \A q \in Proc : q # p => pc[q] \notin PushStmts
           /\ from # "push4" => Sound(mem) /\ mem.tail[Q] = NULL
           /\ from = "push4" => Sound(Before(mem)) /\ mem.tail[Q] = p
<1>1. cpu = "run" /\ current = p /\ pc[p] = from
  BY DEF Running
<1>2. \A q \in Proc : q # p => pc[q] \notin PushStmts
  <2>1. AbsPC[p] = "push"
    BY <1>1, ViewIs DEF View
  <2> QED BY <2>1, Alone
<1>3. mem \in K!MemType /\ AbsPC[p] = "push" /\ View(pc[p]) # "pushed"
  BY <1>1, ViewIs DEF View, IInv, MInv
<1>4. L!Forward(mem, Q) = <<>> /\ mem.head[Q] = NULL /\ Off(mem, p)
  BY <1>1, <1>3, Lists
<1>5. CASE from # "push4"
  <2>1. \A q \in Proc : pc[q] # "push4"
    BY <1>1, <1>2, <1>5 DEF PushStmts
  <2>2. Sound(mem)
    BY <2>1 DEF IInv, MInv
  <2>3. mem.tail[Q] = NULL /\ mem.next[p] = NULL /\ mem.prev[p] = NULL
    BY <2>2, <1>4, SoundWalk, SoundLoose
  <2> QED BY <1>1, <1>2, <1>3, <1>4, <1>5, <2>2, <2>3
<1>6. CASE from = "push4"
  <2>1. Sound(Before(mem)) /\ mem.tail[Q] = p
    BY <1>1, <1>6 DEF IInv, MInv
  <2>2. Off(Before(mem), p)
    BY <1>3, <1>4, BeforeIs DEF Off
  <2>3. Before(mem).next[p] = NULL /\ Before(mem).prev[p] = NULL
    BY <2>1, <2>2, SoundLoose
  <2>4. mem.next[p] = NULL /\ mem.prev[p] = NULL
    BY <1>3, <2>3, BeforeIs
  <2> QED BY <1>1, <1>2, <1>3, <1>4, <1>6, <2>1, <2>4
<1> QED BY <1>5, <1>6

(* A statement that changes no list.                                       *)
LEMMA Stutters ==
    ASSUME \A l : L!Forward(mem', l) = L!Forward(mem, l), AbsPC' = AbsPC,
           UNCHANGED <<current, cpu, locked, state, elapsed, waits, killed>>
    PROVE  UNCHANGED P!vars
BY DEF P!vars

LEMMA PushInit ==
    ASSUME IInv, NEW p \in Proc, PushStmt(p, "push", "push2", L!TailInitNode(mem, Q, p))
    PROVE  MInv' /\ UNCHANGED P!vars
<1>1. /\ Running(p, {"push"}) /\ mem' = L!TailInitNode(mem, Q, p)
      /\ pc' = [pc EXCEPT ![p] = "push2"]
      /\ UNCHANGED <<current, cpu, locked, state, elapsed, waits, killed>>
  BY DEF PushStmt
<1>2. /\ current = p /\ mem \in K!MemType /\ Sound(mem) /\ mem.tail[Q] = NULL
      /\ mem.next[p] = NULL /\ mem.prev[p] = NULL /\ AbsPC[p] = "push"
      /\ \A q \in Proc : q # p => pc[q] \notin PushStmts
  BY <1>1, MidPush DEF PushStmts
<1>3. mem' \in K!MemType /\ Same(mem', mem)
  <2> DEFINE a == [mem EXCEPT !.prev[p] = NULL]
             b == [a EXCEPT !.next[p] = NULL]
  <2>1. a \in K!MemType /\ Same(a, mem)
    BY <1>2 DEF K!MemType, Same
  <2> HIDE DEF a
  <2>2. b \in K!MemType /\ Same(b, mem)
    BY <1>2, <2>1 DEF K!MemType, Same
  <2>3. mem' = [b EXCEPT !.priority[p] = 0]
    BY <1>1, <1>2 DEF L!TailInitNode, a
  <2> HIDE DEF b
  <2> QED BY <2>2, <2>3 DEF K!MemType, Same
<1>4. Sound(mem') /\ \A l : L!Forward(mem', l) = L!Forward(mem, l)
  BY <1>2, <1>3, SoundSame
<1>5. pc' \in [Proc -> ImplPC] /\ \A q \in Proc : pc'[q] = IF q = p THEN "push2" ELSE pc[q]
  BY <1>1 DEF IInv, MInv, ImplPC, PushStmts
<1>6. MInv'
  BY <1>1, <1>2, <1>3, <1>4, <1>5 DEF MInv, PushStmts
<1>7. AbsPC' = AbsPC
  <2>1. View("push2") = "push" /\ AbsPC = [AbsPC EXCEPT ![p] = "push"]
    BY <1>2, ViewIs DEF View, PushStmts
  <2> QED BY <1>1, <2>1, ViewChange DEF IInv
<1> QED BY <1>1, <1>4, <1>6, <1>7, Stutters

LEMMA PushLink ==
    ASSUME IInv, NEW p \in Proc, PushStmt(p, "push2", "push3", L!TailLinkLast(mem, Q, p))
    PROVE  MInv' /\ UNCHANGED P!vars
<1>1. /\ Running(p, {"push2"}) /\ mem' = L!TailLinkLast(mem, Q, p)
      /\ pc' = [pc EXCEPT ![p] = "push3"]
      /\ UNCHANGED <<current, cpu, locked, state, elapsed, waits, killed>>
  BY DEF PushStmt
<1>2. /\ current = p /\ mem \in K!MemType /\ Sound(mem) /\ mem.tail[Q] = NULL
      /\ AbsPC[p] = "push" /\ \A q \in Proc : q # p => pc[q] \notin PushStmts
  BY <1>1, MidPush DEF PushStmts
<1>3. mem' = mem
  BY <1>1, <1>2 DEF L!TailLinkLast
<1>5. pc' \in [Proc -> ImplPC] /\ \A q \in Proc : pc'[q] = IF q = p THEN "push3" ELSE pc[q]
  BY <1>1 DEF IInv, MInv, ImplPC, PushStmts
<1>6. MInv'
  BY <1>1, <1>2, <1>3, <1>5 DEF MInv, PushStmts
<1>7. AbsPC' = AbsPC
  <2>1. View("push3") = "push" /\ AbsPC = [AbsPC EXCEPT ![p] = "push"]
    BY <1>2, ViewIs DEF View, PushStmts
  <2> QED BY <1>1, <2>1, ViewChange DEF IInv
<1> QED BY <1>1, <1>3, <1>6, <1>7, Stutters

LEMMA PushTailPointer ==
    ASSUME IInv, NEW p \in Proc, PushStmt(p, "push3", "push4", L!TailSetTail(mem, Q, p))
    PROVE  MInv' /\ UNCHANGED P!vars
<1>1. /\ Running(p, {"push3"}) /\ mem' = L!TailSetTail(mem, Q, p)
      /\ pc' = [pc EXCEPT ![p] = "push4"]
      /\ UNCHANGED <<current, cpu, locked, state, elapsed, waits, killed>>
  BY DEF PushStmt
<1>2. /\ current = p /\ mem \in K!MemType /\ Sound(mem) /\ mem.tail[Q] = NULL
      /\ AbsPC[p] = "push" /\ \A q \in Proc : q # p => pc[q] \notin PushStmts
  BY <1>1, MidPush DEF PushStmts
<1>3. /\ mem' \in K!MemType /\ mem'.tail = [mem.tail EXCEPT ![Q] = p]
      /\ mem'.head = mem.head /\ mem'.next = mem.next /\ mem'.prev = mem.prev
  BY <1>1, <1>2 DEF L!TailSetTail, K!MemType
<1>4. /\ Before(mem') \in K!MemType /\ Same(Before(mem'), mem) /\ mem'.tail[Q] = p
      /\ \A l : L!Forward(Before(mem'), l) = L!Forward(mem', l)
  <2>1. /\ Before(mem') \in K!MemType
        /\ Before(mem').head = mem'.head /\ Before(mem').next = mem'.next
        /\ Before(mem').prev = mem'.prev
        /\ Before(mem').tail = [mem'.tail EXCEPT ![Q] = NULL]
        /\ \A l : L!Forward(Before(mem'), l) = L!Forward(mem', l)
    BY <1>3, BeforeIs
  <2>2. [mem'.tail EXCEPT ![Q] = NULL] = mem.tail /\ mem'.tail[Q] = p
    BY <1>2, <1>3 DEF K!MemType
  <2> QED BY <1>3, <2>1, <2>2 DEF Same
<1>5. Sound(Before(mem')) /\ \A l : L!Forward(mem', l) = L!Forward(mem, l)
  BY <1>2, <1>4, SoundSame
<1>6. pc' \in [Proc -> ImplPC] /\ \A q \in Proc : pc'[q] = IF q = p THEN "push4" ELSE pc[q]
  BY <1>1 DEF IInv, MInv, ImplPC, PushStmts
<1>7. MInv'
  BY <1>1, <1>2, <1>3, <1>4, <1>5, <1>6 DEF MInv, PushStmts
<1>8. AbsPC' = AbsPC
  <2>1. View("push4") = "push" /\ AbsPC = [AbsPC EXCEPT ![p] = "push"]
    BY <1>2, ViewIs DEF View, PushStmts
  <2> QED BY <1>1, <2>1, ViewChange DEF IInv
<1> QED BY <1>1, <1>5, <1>7, <1>8, Stutters

LEMMA PushHeadPointer ==
    ASSUME IInv, NEW p \in Proc, PushStmt(p, "push4", "push5", L!TailSetHead(mem, Q, p))
    PROVE  MInv' /\ P!ClockPush(p)
<1>1. /\ Running(p, {"push4"}) /\ mem' = L!TailSetHead(mem, Q, p)
      /\ pc' = [pc EXCEPT ![p] = "push5"]
      /\ UNCHANGED <<current, cpu, locked, state, elapsed, waits, killed>>
  BY DEF PushStmt
<1> DEFINE b == Before(mem)
           r == L!list_push_tail(b, Q, p)
<1>2. /\ cpu = "run" /\ current = p /\ mem \in K!MemType /\ Sound(b) /\ mem.tail[Q] = p
      /\ mem.head[Q] = NULL /\ mem.next[p] = NULL /\ mem.prev[p] = NULL /\ Off(mem, p)
      /\ AbsPC[p] = "push" /\ \A q \in Proc : q # p => pc[q] \notin PushStmts
  BY <1>1, MidPush DEF PushStmts
<1>3. /\ b \in K!MemType /\ b.head = mem.head /\ b.next = mem.next /\ b.prev = mem.prev
      /\ b.tail = [mem.tail EXCEPT ![Q] = NULL]
      /\ \A l : L!Forward(b, l) = L!Forward(mem, l)
  BY <1>2, BeforeIs
<1> HIDE DEF b
<1>4. Off(b, p)
  BY <1>2, <1>3 DEF Off
<1>5. /\ Sound(r) /\ L!Forward(r, Q) = Append(L!Forward(b, Q), p)
      /\ \A o \in {RL, Q, WQ} \ {Q} : L!Forward(r, o) = L!Forward(b, o)
  BY <1>2, <1>4, SoundPush
<1>6. K!Appended(b, r, Q, p)
  <2>1. b.tail[Q] # p
    BY <1>2, <1>3, SchedImplAssumption DEF K!MemType
  <2>2. r = K!list_push_tail(b, Q, p)
    BY SameOps
  <2> QED BY <1>3, <2>1, <2>2, K!PushTailFields, ListConstants
<1> HIDE DEF r
<1>7. /\ mem' \in K!MemType /\ mem'.head = [mem.head EXCEPT ![Q] = p]
      /\ mem'.tail = mem.tail /\ mem'.next = mem.next /\ mem'.prev = mem.prev
  BY <1>1, <1>2 DEF L!TailSetHead, K!MemType
<1>8. Same(mem', r)
  <2>1. r.head = [mem.head EXCEPT ![Q] = p]
    BY <1>2, <1>3, <1>6 DEF K!Appended
  <2>2. r.tail = mem.tail
    BY <1>2, <1>3, <1>6 DEF K!Appended, K!MemType
  <2>3. b.tail[Q] = NULL
    BY <1>2, <1>3 DEF K!MemType
  <2>4. r.next = mem.next
    BY <1>2, <1>3, <1>6, <2>3, SchedImplAssumption DEF K!Appended, K!MemType
  <2>5. r.prev = mem.prev
    BY <1>2, <1>3, <1>6, <2>3 DEF K!Appended, K!MemType
  <2> QED BY <1>7, <2>1, <2>2, <2>4, <2>5 DEF Same
<1>9. Sound(mem') /\ \A l : L!Forward(mem', l) = L!Forward(r, l)
  BY <1>5, <1>7, <1>8, SoundSame
<1>10. pc' \in [Proc -> ImplPC] /\ \A q \in Proc : pc'[q] = IF q = p THEN "push5" ELSE pc[q]
  BY <1>1 DEF IInv, MInv, ImplPC, PushStmts
<1>11. MInv'
  BY <1>1, <1>2, <1>7, <1>9, <1>10 DEF MInv, PushStmts
<1>12. AbsPC' = [AbsPC EXCEPT ![p] = "pushed"]
  <2>1. View("push5") = "pushed"
    BY DEF View, PushStmts
  <2> QED BY <1>1, <2>1, ViewChange DEF IInv
<1>13. /\ L!Forward(mem', Q) = Append(L!Forward(mem, Q), p)
       /\ L!Forward(mem', RL) = L!Forward(mem, RL) /\ L!Forward(mem', WQ) = L!Forward(mem, WQ)
  BY <1>3, <1>5, <1>9, SchedImplAssumption
<1>14. P!ClockPush(p)
  BY <1>1, <1>2, <1>12, <1>13 DEF P!ClockPush, P!Running
<1> QED BY <1>11, <1>14

LEMMA PushListPointer ==
    ASSUME IInv, NEW p \in Proc, PushStmt(p, "push5", "pushed", L!TailSetList(mem, Q, p))
    PROVE  MInv' /\ UNCHANGED P!vars
<1>1. /\ Running(p, {"push5"}) /\ mem' = L!TailSetList(mem, Q, p)
      /\ pc' = [pc EXCEPT ![p] = "pushed"]
      /\ UNCHANGED <<current, cpu, locked, state, elapsed, waits, killed>>
  BY DEF PushStmt
<1>2. /\ Sound(mem) /\ mem \in K!MemType /\ AbsPC[p] = "pushed"
      /\ \A q \in Proc : pc[q] \notin PushStmts
  BY <1>1, Runs
<1>3. mem' \in K!MemType /\ Same(mem', mem)
  BY <1>1, <1>2 DEF L!TailSetList, K!MemType, Same
<1>4. Sound(mem') /\ \A l : L!Forward(mem', l) = L!Forward(mem, l)
  BY <1>2, <1>3, SoundSame
<1>5. "pushed" \in ImplPC \ PushStmts /\ View("pushed") = "pushed"
  BY DEF ImplPC, PushStmts, View
<1>6. MInv'
  BY <1>1, <1>2, <1>3, <1>4, <1>5, Keeps
<1>7. AbsPC' = AbsPC
  <2>1. AbsPC = [AbsPC EXCEPT ![p] = "pushed"]
    BY <1>2, ViewIs
  <2> QED BY <1>1, <1>5, <2>1, ViewChange DEF IInv
<1> QED BY <1>1, <1>4, <1>6, <1>7, Stutters
----------------------------------------------------------------------------
(* The abstract specification is the one SchedProofs is about.             *)
LEMMA SameSpecs ==
    /\ P!Init => Abs!Init
    /\ P!Next => Abs!Next
    /\ UNCHANGED P!vars => UNCHANGED Abs!vars
<1>1. P!Init => Abs!Init
  BY DEF P!Init, Abs!Init, P!Cardinality, Abs!Cardinality, P!NoDup, Abs!NoDup, P!On, Abs!On
<1>2. (P!Kernel => Abs!Kernel) /\ (P!ExitIdle => Abs!ExitIdle)
  BY DEF P!Kernel, Abs!Kernel, P!BootSwitch, Abs!BootSwitch, P!Dispatch, Abs!Dispatch,
         P!ExitIdle, Abs!ExitIdle, P!IdleOpen, Abs!IdleOpen, P!IdleHalt, Abs!IdleHalt
<1>3. P!ClockInterrupt => Abs!ClockInterrupt
  BY DEF P!ClockInterrupt, Abs!ClockInterrupt, P!WakeAll, Abs!WakeAll, P!On, Abs!On
<1>4. ASSUME NEW p \in Proc, P!ProcStep(p) PROVE Abs!ProcStep(p)
  BY <1>4 DEF P!ProcStep, Abs!ProcStep, P!Running, Abs!Running, P!SwitchFrom, Abs!SwitchFrom,
         P!Yield, Abs!Yield, P!MutexLock, Abs!MutexLock, P!MutexBlock, Abs!MutexBlock,
         P!MutexUnlock, Abs!MutexUnlock, P!ClockWait, Abs!ClockWait, P!ClockPush,
         Abs!ClockPush, P!ClockSwitch, Abs!ClockSwitch, P!ClockCheck, Abs!ClockCheck,
         P!Exit, Abs!Exit, P!PC, Abs!PC, P!InCS, Abs!InCS
<1>5. P!Next => Abs!Next
  BY <1>2, <1>3, <1>4, Zenon DEF P!Next, Abs!Next
<1> QED BY <1>1, <1>5 DEF P!vars, Abs!vars

LEMMA InitIInv == Init => IInv /\ P!Init
<1> SUFFICES ASSUME Init PROVE IInv /\ P!Init
  OBVIOUS
<1>1. PICK order \in Bijection(1..Cardinality(Proc), Proc) : mem = Pushed(order)
  BY DEF Init
<1>2. /\ Sound(mem) /\ L!Forward(mem, RL) = order
      /\ L!Forward(mem, Q) = <<>> /\ L!Forward(mem, WQ) = <<>>
  BY <1>1, PushedIs
<1>3. /\ order \in [1..Cardinality(Proc) -> Proc]
      /\ \A i, j \in 1..Cardinality(Proc) : order[i] = order[j] => i = j
      /\ \A p \in Proc : \E i \in 1..Cardinality(Proc) : order[i] = p
  BY Zenon DEF Bijection, Injection, Surjection, IsInjective
<1>4. Len(order) = Cardinality(Proc)
  BY <1>3, FS_CardinalityType, SchedImplAssumption
<1>5. order \in {s \in [1..P!Cardinality(Proc) -> Proc] :
                     P!NoDup(s) /\ \A p \in Proc : P!On(s, p)}
  <2>1. P!Cardinality(Proc) = Cardinality(Proc)
    BY DEF P!Cardinality, Cardinality
  <2> QED BY <1>3, <1>4, <2>1 DEF P!NoDup, P!On
<1>6. AbsPC = [p \in Proc |-> "user"] /\ pc = [p \in Proc |-> "user"]
  BY ViewIs DEF Init, View, PushStmts
<1>7. P!Init
  BY <1>2, <1>5, <1>6 DEF Init, P!Init
<1>8. MInv
  <2>1. \A p \in Proc : pc[p] = "user"
    BY <1>6
  <2> QED BY <1>2, <1>6, <2>1, SoundType DEF MInv, ImplPC, PushStmts
<1> QED BY <1>7, <1>8, P!InitIInv, SchedConstants DEF IInv

(* Every step of the pointer code keeps the invariant, and is a step of    *)
(* Sched or changes nothing Sched knows of.                                *)
LEMMA NextIInv == IInv /\ [Next]_vars => IInv' /\ [P!Next]_(P!vars)
<1> SUFFICES ASSUME IInv, [Next]_vars PROVE IInv' /\ [P!Next]_(P!vars)
  OBVIOUS
<1>1. MInv' /\ [P!Next]_(P!vars)
  <2>1. ASSUME BootSwitch \/ IdleOpen \/ IdleHalt \/ ExitIdle PROVE MInv' /\ P!Next
    BY <2>1, IdleStep DEF P!Next, P!Kernel
  <2>2. ASSUME Dispatch PROVE MInv' /\ P!Next
    BY <2>2, DispatchStep DEF P!Next, P!Kernel
  <2>3. ASSUME ClockInterrupt PROVE MInv' /\ P!Next
    BY <2>3, ClockStep DEF P!Next
  <2>4. ASSUME NEW p \in Proc, Yield(p) \/ MutexBlock(p) \/ MutexUnlock(p)
        PROVE  MInv' /\ P!Next
    BY <2>4, YieldStep, MutexBlockStep, MutexUnlockStep DEF P!Next, P!ProcStep
  <2>5. ASSUME NEW p \in Proc,
               MutexLock(p) \/ ClockWait(p) \/ ClockSwitch(p) \/ ClockCheck(p) \/ Exit(p)
        PROVE  MInv' /\ P!Next
    BY <2>5, StillStep DEF P!Next, P!ProcStep
  <2>6. ASSUME NEW p \in Proc, ClockPush(p) PROVE MInv' /\ (P!Next \/ UNCHANGED P!vars)
    <3>1. P!ClockPush(p) => P!Next
      BY DEF P!Next, P!ProcStep
    <3> QED BY <2>6, <3>1, PushInit, PushLink, PushTailPointer, PushHeadPointer, PushListPointer
        DEF ClockPush
  <2>7. CASE UNCHANGED vars
    <3>1. mem' = mem /\ pc' = pc /\ current' = current
          /\ UNCHANGED <<cpu, locked, state, elapsed, waits, killed>>
      BY <2>7 DEF vars
    <3>2. MInv'
      BY <3>1 DEF IInv, MInv
    <3>3. UNCHANGED P!vars
      BY <3>1, ViewIs, Stutters
    <3> QED BY <3>2, <3>3
  <2> QED BY <2>1, <2>2, <2>3, <2>4, <2>5, <2>6, <2>7 DEF Next
<1>2. P!IInv'
  BY <1>1, P!NextIInv, SchedConstants DEF IInv
<1> QED BY <1>1, <1>2 DEF IInv

LEMMA Invariance == Spec => []IInv
<1>1. Init => IInv
  BY InitIInv
<1>2. IInv /\ [Next]_vars => IInv'
  BY NextIInv
<1> QED BY <1>1, <1>2, PTL DEF Spec

(* The pointer code of the scheduler, whose push to queue the clock may    *)
(* interrupt after every statement, implements the sequences of Sched.     *)
THEOREM RefinementTheorem == Spec => AbsSpec
<1>1. Init => Abs!Init
  BY InitIInv, SameSpecs
<1>2. IInv /\ [Next]_vars => [Abs!Next]_(Abs!vars)
  BY NextIInv, SameSpecs
<1> QED BY <1>1, <1>2, Invariance, PTL DEF Spec, AbsSpec, Abs!Spec

(* ready_list and the waitqueue read the same backwards as forwards at     *)
(* every interrupt, and so does queue outside the window between the       *)
(* stores to its tail and its head.                                        *)
THEOREM ListsSoundTheorem == Spec => []ListsSound
<1>1. IInv => ListsSound
  <2> SUFFICES ASSUME IInv,
                      NEW l \in {RL, WQ} \cup IF \E p \in Proc : pc[p] = "push4"
                                              THEN {} ELSE {Q}
               PROVE  Reverse(L!Backward(mem, l)) = L!Forward(mem, l)
    BY DEF ListsSound
  <2>1. CASE \A p \in Proc : pc[p] # "push4"
    BY <2>1, SoundWalk DEF IInv, MInv
  <2>2. CASE \E p \in Proc : pc[p] = "push4"
    <3>1. l \in {RL, WQ}
      BY <2>2 DEF PushStmts
    <3>2. Sound(Before(mem)) /\ mem \in K!MemType
      BY <2>2 DEF IInv, MInv
    <3>3. Reverse(L!Backward(Before(mem), l)) = L!Forward(Before(mem), l)
      BY <3>1, <3>2, SoundWalk
    <3> QED BY <3>1, <3>2, <3>3, BeforeIs
  <2> QED BY <2>1, <2>2
<1> QED BY <1>1, Invariance, PTL

(* What SchedProofs shows of the sequences holds of the walks along the    *)
(* pointers, wherever processes are killed: no live process is lost,       *)
(* nobody is linked twice, one process at a time is in the critical        *)
(* section, and only the kill of a woken waiter loses a wakeup of the      *)
(* mutex.                                                                  *)
THEOREM PointerSafetyTheorem ==
    Spec => /\ [](Abs!NoProcessLost /\ Abs!OneNodeOneList /\ Abs!MutexExclusion)
            /\ Abs!NoLostMutexWakeup
<1>1. P!IInv => P!NoProcessLost /\ P!OneNodeOneList /\ P!MutexExclusion
  BY DEF P!IInv
<1>2. P!NoProcessLost => Abs!NoProcessLost
  BY DEF P!NoProcessLost, Abs!NoProcessLost, P!Listed, Abs!Listed, P!On, Abs!On
<1>3. P!OneNodeOneList => Abs!OneNodeOneList
  BY DEF P!OneNodeOneList, Abs!OneNodeOneList, P!NoDup, Abs!NoDup, P!On, Abs!On
<1>4. P!MutexExclusion => Abs!MutexExclusion
  BY DEF P!MutexExclusion, Abs!MutexExclusion, P!InCS, Abs!InCS
<1>5. (P!OnItsWay <=> Abs!OnItsWay) /\ (P!OnItsWay' <=> Abs!OnItsWay')
  BY DEF P!OnItsWay, Abs!OnItsWay, P!On, Abs!On
<1>6. IInv => Abs!NoProcessLost /\ Abs!OneNodeOneList /\ Abs!MutexExclusion
  BY <1>1, <1>2, <1>3, <1>4 DEF IInv
<1>7. IInv /\ [Next]_vars =>
          [Abs!OnItsWay => \/ Abs!OnItsWay'
                           \/ \E p \in killed' \ killed : AbsPC[p] = "retry"]_(Abs!vars)
  <2> SUFFICES ASSUME IInv, [Next]_vars, Abs!OnItsWay, ~(UNCHANGED Abs!vars)
               PROVE  Abs!OnItsWay' \/ \E p \in killed' \ killed : AbsPC[p] = "retry"
    OBVIOUS
  <2>1. P!Next
    BY NextIInv, SameSpecs
  <2>2. P!OnItsWay' \/ \E p \in killed' \ killed : AbsPC[p] = "retry"
    BY <1>5, <2>1, P!StepOnItsWay, SchedConstants DEF IInv
  <2> QED BY <1>5, <2>2
<1> QED BY <1>6, <1>7, Invariance, PTL DEF Spec, Abs!NoLostMutexWakeup
============================================================================
