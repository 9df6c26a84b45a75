----------------------------- MODULE HeapProofs -----------------------------
(***************************************************************************)
(* The bookkeeping of the kernel heap for any number and size of pages and *)
(* blocks: proofs about Heap.                                              *)
(***************************************************************************)
EXTENDS Heap, FiniteSetTheorems, WellFoundedInduction, TLAPS

(* A set of natural numbers that is not empty has a least element.         *)
LEMMA LeastNat ==
    ASSUME NEW S \in SUBSET Nat, S # {}
    PROVE  \E m \in S : \A k \in S : m <= k
<1> DEFINE R == {ss \in Nat \X Nat : ss[1] < ss[2]}
<1>1. IsWellFoundedOn(R, Nat)
  BY NatLessThanWellFounded, Zenon DEF OpToRel
<1> HIDE DEF R
<1>2. PICK m \in S : \A k \in S : ~(<<k, m>> \in R)
  BY <1>1, WFMin, Zenon
<1>3. \A k \in S : ~(k < m)
  BY <1>2 DEF R
<1> QED BY <1>3

(* Words that stay below the modulus, or pass it once.                     *)
LEMMA ModOnce ==
    ASSUME NEW n \in Nat, NEW d \in Nat, 0 < d, n < 2 * d
    PROVE  n % d = IF n < d THEN n ELSE n - d
<1>1. CASE n < d
  BY <1>1
<1>2. CASE n >= d
  BY <1>2
<1> QED BY <1>1, <1>2

(* Adding before or after the remainder is taken is the same.             *)
LEMMA Division ==
    ASSUME NEW k \in Int, NEW d \in Nat, d > 0
    PROVE  \E q \in Int : k = d * q + (k % d) /\ k % d \in 0..(d - 1)
<1> DEFINE q0 == k \div d
<1>1. q0 \in Int /\ k % d \in 0..(d - 1)
  OBVIOUS
<1>2. k = d * q0 + (k % d)
  OBVIOUS
<1> q0 \in Int
  BY <1>1
<1> HIDE DEF q0
<1> WITNESS q0 \in Int
<1> QED BY <1>1, <1>2

LEMMA OneRemainder ==
    ASSUME NEW d \in Nat, d > 0, NEW q1 \in Int, NEW q2 \in Int, q1 <= q2,
           NEW r1 \in 0..(d - 1), NEW r2 \in 0..(d - 1), d * q1 + r1 = d * q2 + r2
    PROVE  r1 = r2
<1>1. CASE q1 = q2
  BY <1>1
<1>2. CASE q1 < q2
  <2> DEFINE u == d * q1
             v == d * q2
  <2>1. d * (q2 - q1) >= d
    BY <1>2
  <2>2. d * (q2 - q1) = v - u
    OBVIOUS
  <2>3. u \in Int /\ v \in Int /\ v - u >= d /\ u + r1 = v + r2
    BY <2>1, <2>2
  <2> HIDE DEF u, v
  <2> QED BY <2>3
<1> QED BY <1>1, <1>2

LEMMA ModAdd ==
    ASSUME NEW k \in Int, NEW n \in Int, NEW d \in Nat, d > 0
    PROVE  ((k % d) + n) % d = (k + n) % d
<1> DEFINE r == k % d
           c == r + n
           e == k + n
           s == c % d
           t == e % d
<1>1. PICK q0 \in Int : k = d * q0 + r /\ r \in 0..(d - 1)
  BY Division
<1> HIDE DEF r
<1>2. c \in Int /\ e \in Int
  BY <1>1
<1> HIDE DEF c, e
<1>3. PICK q1 \in Int : c = d * q1 + s /\ s \in 0..(d - 1)
  BY <1>2, Division
<1>4. PICK q2 \in Int : e = d * q2 + t /\ t \in 0..(d - 1)
  BY <1>2, Division
<1> HIDE DEF s, t
<1> DEFINE u == d * q0
           v == d * q1
           w == d * q2
           z == d * (q0 + q1)
<1>5. z = u + v /\ u \in Int /\ v \in Int /\ w \in Int /\ k = u + r /\ c = v + s /\ e = w + t
  BY <1>1, <1>3, <1>4
<1> HIDE DEF u, v, w, z
<1>6. z + s = w + t
  BY <1>5, <1>1, <1>3, <1>4 DEF c, e
<1>7. d * (q0 + q1) + s = d * q2 + t /\ d * q2 + t = d * (q0 + q1) + s
  BY <1>6 DEF w, z
<1>8. q0 + q1 \in Int
  OBVIOUS
<1>9. q0 + q1 <= q2 \/ q2 <= q0 + q1
  OBVIOUS
<1>10. s = t
  BY <1>3, <1>4, <1>7, <1>8, <1>9, OneRemainder
<1> QED BY <1>10 DEF r, s, t, c, e

LEMMA Monotone ==
    ASSUME NEW i \in Nat, NEW j \in Nat, NEW k \in Nat, i <= j
    PROVE  i * k <= j * k
OBVIOUS

LEMMA RoundUpPositive ==
    ASSUME NEW n \in Nat, NEW d \in Nat \ {0}
    PROVE  RoundUp(n, d) \in Nat /\ (n > 0 => RoundUp(n, d) > 0)
<1>1. n \div d \in Nat
  OBVIOUS
<1>2. CASE n \div d = 0
  BY <1>2 DEF RoundUp
<1>3. CASE n \div d > 0
  BY <1>3, <1>1 DEF RoundUp
<1> QED BY <1>1, <1>2, <1>3

(* The sizes the assumption on the constants is about.                     *)
LEMMA Sized ==
    /\ {MapCells, Reserved, Cells} \subseteq Nat
    /\ 2 <= Reserved /\ Reserved < Cells /\ Cells < MapCells /\ MapCells < Word
    /\ {NPage, IdMod, Word} \subseteq Nat /\ NPage >= 1 /\ IdMod > 5
<1>1. MapCells \in Nat /\ MapCells <= PageSize
  BY HeapAssumption DEF MapCells
<1>2. Reserved \in Nat
  BY <1>1, RoundUpPositive, HeapAssumption DEF Reserved
<1>3. Cells \in Int
  BY HeapAssumption DEF Cells, Usable
<1> QED BY <1>1, <1>2, <1>3, HeapAssumption DEF ReservedId

(* kheap_get_nid finds an id that is free on both sides.                   *)
LEMMA NewId ==
    ASSUME NEW l \in 0..(IdMod - 1), NEW r \in 0..(IdMod - 1)
    PROVE  kheap_get_nid(l, r) \in (1..(IdMod - 1)) \ {l, r}
<1> DEFINE id(k) == (l + k) % IdMod
           ok == {k \in 1..3 : (l + k) % IdMod \notin {0, r}}
<1>1. \A k \in 1..3 : id(k) = IF l + k < IdMod THEN l + k ELSE l + k - IdMod
  <2> TAKE k \in 1..3
  <2>1. l + k \in Nat /\ IdMod \in Nat /\ 0 < IdMod /\ l + k < 2 * IdMod
    BY Sized
  <2> QED BY <2>1, ModOnce
<1>2. \A k \in 1..3 : id(k) \in 0..(IdMod - 1) /\ id(k) # l
  BY <1>1, Sized
<1>3. \E k \in 1..3 : id(k) \notin {0, r}
  BY <1>1, Sized
<1>4. ok \in SUBSET Nat /\ ok # {}
  BY <1>3
<1>5. \E k \in ok : \A j \in ok : k <= j
  BY <1>4, LeastNat
<1>6. (CHOOSE k \in ok : \A j \in ok : k <= j) \in ok
  BY <1>5
<1>7. PICK k \in 1..3 : kheap_get_nid(l, r) = id(k) /\ id(k) \notin {0, r}
  BY <1>6 DEF kheap_get_nid
<1> QED BY <1>2, <1>7, Sized
------------------------------------------------------------------------------
(* Where kalloc is: it looks at a page that main_heap_init has added, and  *)
(* nobody holds an empty allocation meanwhile.                             *)
Where ==
    /\ mode = "init" => live = {} /\ fblock < NPage /\ lost = [p \in Page |-> 0]
    /\ mode # "init" => fblock = NPage
    /\ mode \in {"block", "scan"} => \A a \in live : a.n > 0
    /\ mode = "scan" => b > 0

(* An empty allocation points to a free block of its page.                 *)
Held ==
    \A a \in live : a.n = 0 =>
        a.first \in Reserved..(Cells - 1) /\ bm[a.page][a.first] = 0

IInv == TypeOK /\ Where /\ Held /\ NoOverlap /\ MapExact /\ RunsDistinct /\ UsedExact

------------------------------------------------------------------------------
(* The inner loop of kalloc counts free blocks up to the number it needs.  *)
LEMMA FreeRunIs ==
    ASSUME req \in Nat, NEW p, NEW i \in 0..Cells
    PROVE  FreeRun(p, i) \in 0..bneed /\ IsRun(p, i, FreeRun(p, i))
<1>1. bneed \in Nat
  BY RoundUpPositive, HeapAssumption DEF bneed
<1> DEFINE Stops == {n \in 0..bneed : n < bneed => ~IsRun(p, i, n + 1)}
<1>2. bneed \in Stops /\ Stops \in SUBSET Nat
  BY <1>1
<1>3. PICK m \in Stops : \A k \in Stops : m <= k
  BY <1>2, LeastNat
<1>4. IsRun(p, i, m)
  <2>1. CASE m = 0
    BY <2>1, Sized DEF IsRun
  <2>2. CASE m > 0
    <3>1. m - 1 \in 0..bneed /\ m - 1 < bneed /\ m - 1 \notin Stops
      BY <1>1, <1>3, <2>2
    <3>2. IsRun(p, i, (m - 1) + 1)
      BY <3>1
    <3>3. (m - 1) + 1 = m
      BY <1>1, <1>3
    <3> QED BY <3>2, <3>3
  <2> QED BY <1>1, <1>3, <2>1, <2>2
<1>5. \E n \in 0..bneed : IsRun(p, i, n) /\ (n < bneed => ~IsRun(p, i, n + 1))
  BY <1>3, <1>4
<1> QED BY <1>5, Zenon DEF FreeRun

(* kfree finds the end of an allocation where its id ends.                 *)
LEMMA IdRunIs ==
    ASSUME NEW p, NEW i \in 0..Cells, NEW n \in Nat, i + n <= Cells, n > 0,
           \A j \in i..(i + n - 1) : bm[p][j] = bm[p][i],
           bm[p][i + n] # bm[p][i]
    PROVE  IdRun(p, i) = n
<1> DEFINE Ends == {j \in i..Cells : j = Cells \/ bm[p][j] # bm[p][i]}
           least == CHOOSE j \in Ends : \A k \in Ends : j <= k
<1>1. i + n \in Ends
  BY Sized
<1>2. \A k \in Ends : i + n <= k
  <2> TAKE k \in Ends
  <2>1. k \in i..Cells /\ (k = Cells \/ bm[p][k] # bm[p][i])
    OBVIOUS
  <2>2. CASE k < i + n
    BY <2>1, <2>2, Sized
  <2> QED BY <2>1, <2>2, Sized
<1>3. least \in Ends /\ \A k \in Ends : least <= k
  BY <1>1, <1>2
<1>4. least = i + n
  BY <1>1, <1>2, <1>3, Sized
<1>5. IdRun(p, i) = least - i
  BY DEF IdRun
<1> QED BY <1>4, <1>5, Sized

(* What kfree clears has one id, whatever that is.                         *)
LEMMA IdRunSame ==
    ASSUME NEW p, NEW i \in 0..Cells
    PROVE  IdRun(p, i) \in Nat /\ \A j \in i..(i + IdRun(p, i) - 1) : bm[p][j] = bm[p][i]
<1> DEFINE Ends == {j \in i..Cells : j = Cells \/ bm[p][j] # bm[p][i]}
           least == CHOOSE j \in Ends : \A k \in Ends : j <= k
<1>1. Cells \in Ends /\ Ends \in SUBSET Nat
  BY Sized
<1>2. least \in Ends /\ \A k \in Ends : least <= k
  BY <1>1, LeastNat
<1>3. least \in i..Cells
  BY <1>2
<1>4. \A j \in i..(least - 1) : j \in i..Cells /\ ~(least <= j)
  BY <1>3, Sized
<1>5. \A j \in i..(least - 1) : bm[p][j] = bm[p][i]
  BY <1>2, <1>4
<1>6. IdRun(p, i) = least - i
  BY DEF IdRun
<1> HIDE DEF least, Ends
<1>7. i + (least - i) - 1 = least - 1 /\ least - i \in Nat
  BY <1>3, Sized
<1> QED BY <1>5, <1>6, <1>7

(* Blocks are below the limit kfree puts on a pointer.                     *)
LEMMA InPage ==
    ASSUME NEW i \in 0..(Cells - 1)
    PROVE  Header + i * BSize < Usable
<1>1. i * BSize <= (Cells - 1) * BSize
  BY Monotone, Sized, HeapAssumption
<1>2. i * BSize \in Int /\ (Cells - 1) * BSize \in Int /\ Usable \in Int
  BY Sized, HeapAssumption DEF Usable
<1> QED BY <1>1, <1>2, HeapAssumption

------------------------------------------------------------------------------
LEMMA InitIInv == Init => IInv
<1> SUFFICES ASSUME Init PROVE IInv
  OBVIOUS
<1>1. TypeOK
  BY Sized DEF Init, TypeOK, Page
<1>2. Where /\ Held /\ NoOverlap /\ RunsDistinct
  BY Sized DEF Init, Where, Held, NoOverlap, RunsDistinct
<1>3. MapExact /\ UsedExact
  <2>1. 1..fblock = {}
    BY DEF Init
  <2> QED BY <2>1, Zenon DEF MapExact, UsedExact
<1> QED BY <1>1, <1>2, <1>3 DEF IInv

(* What does not touch the maps and what callers hold keeps their relation. *)
LEMMA Untouched ==
    ASSUME IInv, UNCHANGED <<bm, used, fblock, live, lost>>, TypeOK', Where'
    PROVE  IInv'
BY DEF IInv, Held, NoOverlap, MapExact, RunsDistinct, UsedExact, BlocksOf

(* The search moves b and x only.                                          *)
LEMMA SearchKeeps ==
    ASSUME IInv, (\E size \in Sizes : kalloc(size)) \/ NextPage \/ OutOfMemory
                 \/ StartScan \/ EndScan \/ ScanOn
    PROVE  IInv'
<1> USE DEF IInv
<1>1. /\ TypeOK /\ Where /\ NPage \in Nat /\ NPage >= 1
      /\ Cells \in Nat /\ Reserved < Cells /\ Reserved \in Nat /\ 2 <= Reserved
  BY Sized
<1> USE DEF TypeOK, Where
<1>2. ASSUME NEW size \in Sizes, kalloc(size) PROVE IInv'
  <2>1. TypeOK' /\ Where'
    BY <1>1, <1>2, HeapAssumption DEF kalloc
  <2> QED BY <1>2, <2>1, Untouched DEF kalloc
<1>3. CASE NextPage
  <2>1. TypeOK' /\ Where'
    BY <1>1, <1>3 DEF NextPage
  <2> QED BY <1>3, <2>1, Untouched DEF NextPage
<1>4. CASE OutOfMemory
  <2>1. TypeOK' /\ Where'
    BY <1>1, <1>4 DEF OutOfMemory
  <2> QED BY <1>4, <2>1, Untouched DEF OutOfMemory
<1>5. CASE StartScan
  <2>0. b \in Page /\ lfb[b] \in 0..(Cells - 1)
    BY <1>1, <1>5 DEF StartScan, Page
  <2>1. TypeOK' /\ Where'
    BY <1>1, <1>5, <2>0 DEF StartScan
  <2> QED BY <1>5, <2>1, Untouched DEF StartScan
<1>6. CASE EndScan
  <2>1. TypeOK' /\ Where'
    BY <1>1, <1>6 DEF EndScan
  <2> QED BY <1>6, <2>1, Untouched DEF EndScan
<1>7. CASE ScanOn
  <2>1. At \in 0..(Cells - 1)
    BY <1>1 DEF At
  <2>2. At + FreeRun(b, At) \in 0..Cells
    <3>1. bneed \in Nat
      BY <1>1, RoundUpPositive, HeapAssumption DEF bneed
    <3>2. FreeRun(b, At) \in 0..bneed /\ At + FreeRun(b, At) <= Cells
      BY <1>1, <2>1, FreeRunIs DEF IsRun
    <3> QED BY <1>1, <2>1, <3>1, <3>2
  <2>3. x' \in 0..Cells
    BY <1>7, <2>1, <2>2, <1>1 DEF ScanOn
  <2>4. TypeOK' /\ Where'
    BY <1>1, <1>7, <2>3 DEF ScanOn
  <2> QED BY <1>7, <2>4, Untouched DEF ScanOn
<1> QED BY <1>2, <1>3, <1>4, <1>5, <1>6, <1>7

(* A new page holds its own map and nothing else.                          *)
LEMMA AddBlockKeeps == ASSUME IInv, kheap_add_block PROVE IInv'
<1>1. /\ TypeOK /\ mode = "init" /\ live = {} /\ fblock < NPage /\ fblock' = fblock + 1
      /\ live' = live /\ lost' = lost /\ lost = [p \in Page |-> 0]
  BY DEF IInv, Where, kheap_add_block
<1>2. fblock' \in Page /\ fblock \in Nat /\ NPage \in Nat
  BY <1>1, Sized DEF TypeOK, Page
<1> DEFINE fresh == [i \in 0..MapCells - 1 |-> IF i < Reserved THEN ReservedId ELSE 0]
<1>3. fresh \in [0..MapCells - 1 -> 0..IdMod - 1]
  BY Sized DEF ReservedId
<1>4. bm' = [bm EXCEPT ![fblock'] = fresh]
  BY DEF kheap_add_block
<1>5. bm' \in [Page -> [0..MapCells - 1 -> 0..IdMod - 1]] /\ bm'[fblock'] = fresh
      /\ \A p \in Page : p # fblock' => bm'[p] = bm[p]
  BY <1>2, <1>3, <1>4 DEF TypeOK, IInv
<1>6. /\ used' \in [Page -> 0..Word - 1] /\ used'[fblock'] = Reserved
      /\ \A p \in Page : p # fblock' => used'[p] = used[p]
  <2>1. Reserved \in 0..Word - 1 /\ used \in [Page -> 0..Word - 1]
    BY Sized DEF IInv, TypeOK
  <2>2. used' = [used EXCEPT ![fblock'] = Reserved]
    BY DEF kheap_add_block
  <2> QED BY <1>2, <2>1, <2>2
<1>7. lfb' \in [Page -> 0..Cells - 1]
  <2>1. Reserved - 1 \in 0..Cells - 1 /\ lfb \in [Page -> 0..Cells - 1]
    BY Sized DEF IInv, TypeOK
  <2> QED BY <1>2, <2>1 DEF kheap_add_block
<1>8. TypeOK' /\ Where'
  <2>1. fblock' \in 0..NPage
    BY <1>1, <1>2
  <2>2. Where'
    BY <1>1, <1>2 DEF Where, kheap_add_block
  <2>3. TypeOK'
    BY <1>1, <1>5, <1>6, <1>7, <2>1 DEF TypeOK, kheap_add_block
  <2> QED BY <2>2, <2>3
<1>9. Held' /\ NoOverlap' /\ RunsDistinct'
  BY <1>1 DEF Held, NoOverlap, RunsDistinct
<1>10. \A p \in 1..fblock' : p \in Page /\ (p = fblock' \/ p \in 1..fblock)
  BY <1>1, <1>2 DEF Page
<1>11. MapExact'
  <2> HIDE DEF fresh
  <2>1. \A i \in 0..MapCells - 1 : fresh[i] # 0 <=> i < Reserved
    BY Sized DEF fresh, ReservedId
  <2>2. SUFFICES ASSUME NEW p \in 1..fblock', NEW i \in 0..MapCells - 1
                 PROVE  bm'[p][i] # 0 <=> i < Reserved
    BY <1>1 DEF MapExact
  <2>3. CASE p = fblock'
    BY <2>3, <1>5, <2>1
  <2>4. CASE p # fblock'
    <3>1. bm[p][i] # 0 <=> i < Reserved
      BY <2>4, <1>10, <1>1 DEF IInv, MapExact
    <3> QED BY <3>1, <2>4, <1>10, <1>5
  <2> QED BY <2>3, <2>4
<1>12. UsedExact'
  <2> SUFFICES ASSUME NEW p \in 1..fblock'
               PROVE  used'[p] = (Cardinality({i \in 0..MapCells - 1 : bm'[p][i] # 0}) - lost'[p]) % Word
    BY DEF UsedExact
  <2>1. CASE p = fblock'
    <3>1. {i \in 0..MapCells - 1 : fresh[i] # 0} = 0..(Reserved - 1)
      BY Sized DEF ReservedId
    <3>2. Cardinality(0..(Reserved - 1)) = Reserved
      BY Sized, FS_Interval
    <3>3. (Reserved - lost'[p]) % Word = Reserved
      <4>1. lost'[p] = 0
        BY <1>1, <1>10
      <4>2. Reserved - 0 = Reserved /\ Reserved \in Nat /\ Word \in Nat /\ 0 < Word
            /\ Reserved < Word /\ Reserved < 2 * Word
        BY Sized
      <4>3. Reserved % Word = Reserved
        BY <4>2, ModOnce
      <4> QED BY <4>1, <4>2, <4>3
    <3> HIDE DEF fresh
    <3> QED BY <2>1, <3>1, <3>2, <3>3, <1>5, <1>6
  <2>2. CASE p # fblock'
    <3>1. used[p] = (Cardinality({i \in 0..MapCells - 1 : bm[p][i] # 0}) - lost[p]) % Word
      BY <2>2, <1>10 DEF IInv, UsedExact
    <3> QED BY <2>2, <3>1, <1>1, <1>10, <1>5, <1>6
  <2> QED BY <2>1, <2>2
<1> QED BY <1>8, <1>9, <1>11, <1>12 DEF IInv

LEMMA MapFinite == IsFiniteSet(0..MapCells - 1) /\ Cardinality(0..MapCells - 1) = MapCells
<1>1. MapCells - 1 \in Int /\ 0 \in Int /\ ~(0 > MapCells - 1)
  BY Sized
<1>2. (MapCells - 1) - 0 + 1 = MapCells
  BY Sized
<1> QED BY <1>1, <1>2, FS_Interval

(* What callers hold, seen from the map.                                   *)
LEMMA Holding ==
    ASSUME IInv, NEW a \in live
    PROVE  /\ a.page \in Page /\ a.page \in 1..fblock
           /\ a.first \in Reserved..(Cells - 1) /\ a.n \in Nat
           /\ a.first + a.n <= Cells
           /\ \A i \in BlocksOf(a) : i \in Reserved..(Cells - 1) /\ bm[a.page][i] # 0
<1>1. a \in [page: Page, first: Nat, n: Nat]
  BY DEF IInv, TypeOK
<1>2. BlocksOf(a) \subseteq Reserved..(Cells - 1)
  BY DEF IInv, NoOverlap
<1>3. a.page \in Page /\ a.first \in Nat /\ a.n \in Nat
  BY <1>1
<1>4. a.page \in 1..fblock
  <2>1. mode # "init"
    BY DEF IInv, Where
  <2>2. fblock = NPage
    BY <2>1 DEF IInv, Where
  <2> QED BY <2>2, <1>3 DEF Page
<1>5. \A i \in BlocksOf(a) : i \in 0..MapCells - 1
  BY <1>2, Sized
<1>6. \A i \in BlocksOf(a) : bm[a.page][i] # 0
  BY <1>4, <1>5 DEF IInv, MapExact
<1>7. CASE a.n = 0
  BY <1>2, <1>3, <1>7, <1>4, <1>6, Sized DEF IInv, Held
<1>8. CASE a.n > 0
  <2>1. a.first \in BlocksOf(a) /\ a.first + a.n - 1 \in BlocksOf(a)
    BY <1>8, <1>3 DEF BlocksOf
  <2>2. a.first \in Reserved..(Cells - 1) /\ a.first + a.n - 1 \in Reserved..(Cells - 1)
    BY <1>2, <2>1
  <2> QED BY <2>2, <1>2, <1>3, <1>4, <1>6, Sized
<1> QED BY <1>3, <1>7, <1>8

(* The blocks that kalloc takes are free, and the id it gives them differs *)
(* from the ones before and behind.                                        *)
LEMMA TakeKeeps == ASSUME IInv, Take PROVE IInv'
<1> DEFINE q == At
           y == bneed
           m == bm[b]
           nid == kheap_get_nid(m[q - 1], m[q + y])
           new == [page |-> b, first |-> q, n |-> y]
           marked == [i \in 0..MapCells - 1 |-> IF i \in q..(q + y - 1) THEN nid ELSE m[i]]
<1>1. /\ TypeOK /\ mode = "scan" /\ fblock = NPage /\ b \in Page /\ b \in 1..fblock
      /\ \A a \in live : a.n > 0
  BY DEF IInv, Where, Take, TypeOK, Page
<1>2. y \in Nat
  BY <1>1, RoundUpPositive, HeapAssumption DEF bneed, TypeOK
<1>3. q \in 0..(Cells - 1)
  BY <1>1, Sized DEF At, TypeOK
<1>4. q + y <= Cells /\ \A j \in q..(q + y - 1) : m[j] = 0
  <2>1. FreeRun(b, q) = y
    BY DEF Take
  <2>2. IsRun(b, q, FreeRun(b, q))
    BY <1>1, <1>3, FreeRunIs, Sized DEF TypeOK
  <2> QED BY <2>1, <2>2 DEF IsRun
<1>5. m \in [0..MapCells - 1 -> 0..IdMod - 1]
  BY <1>1 DEF TypeOK
<1>6. q >= Reserved
  <2>1. m[q] = 0
    BY DEF Take
  <2>2. q \in 0..MapCells - 1
    BY <1>3, Sized
  <2>3. ~(q < Reserved)
    BY <1>1, <2>1, <2>2 DEF IInv, MapExact
  <2> QED BY <2>3, <1>3, Sized
<1>7. nid \in (1..(IdMod - 1)) \ {m[q - 1], m[q + y]}
  <2>1. q - 1 \in 0..MapCells - 1 /\ q + y \in 0..MapCells - 1
    BY <1>2, <1>3, <1>4, <1>6, Sized
  <2>2. m[q - 1] \in 0..(IdMod - 1) /\ m[q + y] \in 0..(IdMod - 1)
    BY <1>5, <2>1
  <2> QED BY <2>2, NewId
<1>8. /\ bm' = [bm EXCEPT ![b] = marked]
      /\ lfb' = [lfb EXCEPT ![b] = (q + y) - 2]
      /\ used' = [used EXCEPT ![b] = (used[b] + y) % Word]
      /\ live' = live \cup {new}
      /\ mode' = "idle" /\ req' = 0 /\ b' = 0 /\ x' = 0 /\ fblock' = fblock
      /\ lost' = lost
  BY DEF Take
<1> HIDE DEF q, y, nid
<1>9. marked \in [0..MapCells - 1 -> 0..IdMod - 1]
  BY <1>5, <1>7, Sized
<1> DEFINE mm == marked
<1>10. /\ bm' \in [Page -> [0..MapCells - 1 -> 0..IdMod - 1]]
       /\ bm'[b] = mm /\ \A p \in Page : p # b => bm'[p] = bm[p]
  BY <1>1, <1>8, <1>9 DEF TypeOK
<1>11. \A i \in 0..MapCells - 1 : mm[i] = IF i \in q..(q + y - 1) THEN nid ELSE m[i]
  OBVIOUS
<1> HIDE DEF mm, marked
<1>12. new \in [page: Page, first: Nat, n: Nat] /\ new.page = b /\ new.first = q /\ new.n = y
  BY <1>1, <1>2, <1>3, Sized
<1>13. BlocksOf(new) = q..(q + y - 1)
  BY <1>12 DEF BlocksOf
<1> HIDE DEF new
<1>14. \A c \in live : c.page = b => BlocksOf(c) \cap (q..(q + y - 1)) = {}
  BY <1>4, Holding
<1>15. Held' /\ NoOverlap'
  <2>1. Held'
    <3>1. y = 0 => mm[q] = 0 /\ q \in Reserved..(Cells - 1)
      <4>1. q \in 0..MapCells - 1 /\ m[q] = 0
        BY <1>3, Sized DEF Take, q
      <4> QED BY <4>1, <1>3, <1>6, <1>11, Sized
    <3> SUFFICES ASSUME NEW c \in live', c.n = 0
                 PROVE  c.first \in Reserved..(Cells - 1) /\ bm'[c.page][c.first] = 0
      BY DEF Held
    <3>2. c = new
      BY <1>1, <1>8
    <3> QED BY <3>1, <3>2, <1>10, <1>12
  <2>2. q..(q + y - 1) \subseteq Reserved..(Cells - 1)
    BY <1>2, <1>3, <1>4, <1>6, Sized
  <2>3. \A a \in live' : BlocksOf(a) \subseteq Reserved..(Cells - 1)
    BY <1>8, <1>13, <2>2 DEF IInv, NoOverlap
  <2>4. \A a, c \in live' : a # c /\ a.page = c.page => BlocksOf(a) \cap BlocksOf(c) = {}
    <3> SUFFICES ASSUME NEW a \in live', NEW c \in live', a # c, a.page = c.page
                 PROVE  BlocksOf(a) \cap BlocksOf(c) = {}
      OBVIOUS
    <3>1. CASE a \in live /\ c \in live
      BY <3>1 DEF IInv, NoOverlap
    <3>2. CASE a = new
      <4>1. c \in live /\ c.page = b
        BY <3>2, <1>8, <1>12
      <4> QED BY <4>1, <1>14, <1>13, <3>2
    <3>3. CASE c = new
      <4>1. a \in live /\ a.page = b
        BY <3>3, <1>8, <1>12
      <4> QED BY <4>1, <1>14, <1>13, <3>3
    <3> QED BY <1>8, <3>1, <3>2, <3>3
  <2> QED BY <2>1, <2>3, <2>4 DEF NoOverlap, BlocksOf
<1>16. MapExact'
  <2> SUFFICES ASSUME NEW p \in 1..fblock, NEW i \in 0..MapCells - 1
               PROVE  bm'[p][i] # 0 <=> \/ i < Reserved
                                        \/ \E a \in live' : a.page = p /\ i \in BlocksOf(a)
    BY <1>8 DEF MapExact, BlocksOf
  <2>1. p \in Page
    BY <1>1 DEF Page
  <2>2. bm[p][i] # 0 <=> i < Reserved \/ \E a \in live : a.page = p /\ i \in BlocksOf(a)
    BY DEF IInv, MapExact
  <2>3. CASE p # b
    <3>1. \A a \in live' : a.page = p => a \in live
      BY <2>3, <1>8, <1>12
    <3> QED BY <3>1, <2>1, <2>2, <2>3, <1>8, <1>10
  <2>4. CASE p = b /\ i \in q..(q + y - 1)
    <3>1. bm'[p][i] # 0
      BY <2>4, <1>7, <1>10, <1>11
    <3>2. new \in live' /\ new.page = p /\ i \in BlocksOf(new)
      BY <2>4, <1>8, <1>12, <1>13
    <3> QED BY <3>1, <3>2
  <2>5. CASE p = b /\ i \notin q..(q + y - 1)
    <3>1. bm'[p][i] = bm[p][i]
      BY <2>5, <1>10, <1>11
    <3>2. \A a \in live' : i \in BlocksOf(a) => a \in live
      BY <2>5, <1>8, <1>13
    <3> QED BY <3>1, <3>2, <2>2, <1>8
  <2> QED BY <2>3, <2>4, <2>5
<1>17. RunsDistinct'
  <2> SUFFICES ASSUME NEW a \in live', a.n > 0
               PROVE  /\ \A i \in BlocksOf(a) : bm'[a.page][i] = bm'[a.page][a.first]
                      /\ bm'[a.page][a.first - 1] # bm'[a.page][a.first]
                      /\ bm'[a.page][a.first + a.n] # bm'[a.page][a.first]
    BY DEF RunsDistinct, BlocksOf
  <2>1. CASE a = new
    <3>1. q - 1 \in 0..MapCells - 1 /\ q + y \in 0..MapCells - 1 /\ q \in q..(q + y - 1)
          /\ q - 1 \notin q..(q + y - 1) /\ q + y \notin q..(q + y - 1)
          /\ q..(q + y - 1) \subseteq 0..MapCells - 1
      BY <2>1, <1>2, <1>3, <1>4, <1>6, <1>12, Sized
    <3>2. mm[q] = nid /\ mm[q - 1] = m[q - 1] /\ mm[q + y] = m[q + y]
          /\ \A i \in q..(q + y - 1) : mm[i] = nid
      BY <3>1, <1>11
    <3> QED BY <2>1, <3>2, <1>7, <1>10, <1>12, <1>13
  <2>2. CASE a \in live
    <3>1. /\ a.page \in Page /\ a.first \in Reserved..(Cells - 1) /\ a.n \in Nat /\ a.n > 0
          /\ a.first + a.n <= Cells /\ a.first \in Nat
      BY <2>2, Holding, Sized
    <3>2. /\ \A i \in BlocksOf(a) : bm[a.page][i] = bm[a.page][a.first]
          /\ bm[a.page][a.first - 1] # bm[a.page][a.first]
          /\ bm[a.page][a.first + a.n] # bm[a.page][a.first]
      BY <2>2, <3>1 DEF IInv, RunsDistinct
    <3>3. CASE a.page # b
      BY <3>1, <3>2, <3>3, <1>10
    <3>4. CASE a.page = b
      <4>1. \A i \in BlocksOf(a) : i \in 0..MapCells - 1 /\ i \notin q..(q + y - 1)
        BY <2>2, <3>1, <3>4, <1>14, Holding, Sized
      <4>2. /\ a.first \in BlocksOf(a) /\ a.first + a.n - 1 \in BlocksOf(a)
        BY <3>1 DEF BlocksOf
      <4>3. \A i \in BlocksOf(a) : mm[i] = m[i]
        BY <4>1, <1>11
      <4>4. a.first - 1 \in 0..MapCells - 1 /\ a.first + a.n \in 0..MapCells - 1
        BY <3>1, Sized
      <4>5. mm[a.first - 1] # mm[a.first]
        <5>1. CASE a.first - 1 \notin q..(q + y - 1)
          BY <5>1, <4>2, <4>3, <4>4, <1>11, <3>2, <3>4
        <5>2. CASE a.first - 1 \in q..(q + y - 1)
          <6>1. a.first = q + y
            BY <5>2, <4>1, <4>2, <3>1, <1>2, <1>3
          <6>2. mm[a.first - 1] = nid
            BY <5>2, <4>4, <1>11
          <6> QED BY <6>1, <6>2, <4>2, <4>3, <1>7
        <5> QED BY <5>1, <5>2
      <4>6. mm[a.first + a.n] # mm[a.first]
        <5>1. CASE a.first + a.n \notin q..(q + y - 1)
          BY <5>1, <4>2, <4>3, <4>4, <1>11, <3>2, <3>4
        <5>2. CASE a.first + a.n \in q..(q + y - 1)
          <6>1. a.first + a.n - 1 = q - 1
            BY <5>2, <4>1, <4>2, <3>1, <1>2, <1>3
          <6>2. mm[a.first + a.n] = nid
            BY <5>2, <4>4, <1>11
          <6>3. m[q - 1] = m[a.first]
            BY <6>1, <4>2, <3>2, <3>4
          <6> QED BY <6>2, <6>3, <4>2, <4>3, <1>7
        <5> QED BY <5>1, <5>2
      <4>7. \A i \in BlocksOf(a) : mm[i] = mm[a.first]
        BY <4>2, <4>3, <3>2, <3>4
      <4> QED BY <3>4, <4>5, <4>6, <4>7, <1>10
    <3> QED BY <3>3, <3>4
  <2> QED BY <2>1, <2>2, <1>8
<1>18. /\ used' \in [Page -> 0..Word - 1] /\ \A p \in Page : p # b => used'[p] = used[p]
       /\ used'[b] = (Cardinality({i \in 0..MapCells - 1 : mm[i] # 0}) - lost[b]) % Word
  <2> DEFINE old == {i \in 0..MapCells - 1 : m[i] # 0}
             add == q..(q + y - 1)
  <2>1. used[b] = (Cardinality(old) - lost[b]) % Word
    BY <1>1 DEF IInv, UsedExact
  <2>2. IsFiniteSet(old)
    <3>1. old \in SUBSET (0..MapCells - 1)
      OBVIOUS
    <3> QED BY <3>1, MapFinite, FS_Subset, Zenon
  <2>3. IsFiniteSet(add) /\ Cardinality(add) = y
    <3>1. q \in Int /\ q + y - 1 \in Int /\ (q + y - 1) - q + 1 = y
          /\ (q > q + y - 1 <=> y = 0)
      BY <1>2, <1>3, Sized
    <3> QED BY <3>1, FS_Interval
  <2>4. old \cap add = {}
    BY <1>4
  <2>5. {i \in 0..MapCells - 1 : mm[i] # 0} = old \cup add
    <3>1. add \subseteq 0..MapCells - 1
      BY <1>2, <1>3, <1>4, Sized
    <3> QED BY <3>1, <1>7, <1>11
  <2> HIDE DEF old, add
  <2>6. IsFiniteSet(old \cup add) /\ Cardinality(old \cup add) = Cardinality(old) + y
    <3>1. Cardinality(old \cup add) = Cardinality(old) + Cardinality(add) - Cardinality(old \cap add)
      BY <2>2, <2>3, FS_Union
    <3>2. Cardinality(old \cap add) = 0 /\ Cardinality(old) \in Nat
      BY <2>2, <2>4, FS_EmptySet, FS_CardinalityType
    <3>3. IsFiniteSet(old \cup add)
      BY <2>2, <2>3, FS_Union
    <3> QED BY <3>1, <3>2, <3>3, <2>3, <1>2
  <2>7. used \in [Page -> 0..Word - 1] /\ lost[b] \in Nat /\ Cardinality(old) \in Nat
    BY <1>1, <2>2, FS_CardinalityType DEF TypeOK
  <2> DEFINE k == Cardinality(old) - lost[b]
  <2>8. k \in Int /\ k + y = Cardinality(old \cup add) - lost[b]
    BY <2>6, <2>7, <1>2
  <2>9. used[b] = k % Word
    BY <2>1
  <2> HIDE DEF k
  <2>10. Word \in Nat /\ Word > 0
    BY Sized
  <2>11. (used[b] + y) % Word = (k + y) % Word
    <3>1. y \in Int
      BY <1>2
    <3>2. ((k % Word) + y) % Word = (k + y) % Word
      BY <2>8, <2>10, <3>1, ModAdd
    <3> QED BY <3>2, <2>9
  <2>12. (k + y) % Word \in 0..Word - 1
    BY <2>8, <2>10, <1>2
  <2> QED BY <1>1, <1>8, <2>5, <2>7, <2>8, <2>11, <2>12
<1>19. UsedExact'
  <2> SUFFICES ASSUME NEW p \in 1..fblock
               PROVE  used'[p] = (Cardinality({i \in 0..MapCells - 1 : bm'[p][i] # 0}) - lost'[p]) % Word
    BY <1>8 DEF UsedExact
  <2>1. p \in Page
    BY <1>1 DEF Page
  <2>2. CASE p = b
    BY <2>2, <1>8, <1>10, <1>18
  <2>3. CASE p # b
    <3>1. used[p] = (Cardinality({i \in 0..MapCells - 1 : bm[p][i] # 0}) - lost[p]) % Word
      BY DEF IInv, UsedExact
    <3> QED BY <2>1, <2>3, <3>1, <1>8, <1>10, <1>18
  <2> QED BY <2>2, <2>3
<1>20. TypeOK' /\ Where'
  <2>1. lfb' \in [Page -> 0..Cells - 1]
    <3>1. (q + y) - 2 \in 0..Cells - 1
      BY <1>2, <1>3, <1>4, <1>6, Sized
    <3> QED BY <1>1, <1>8, <3>1 DEF TypeOK
  <2>2. live' \subseteq [page: Page, first: Nat, n: Nat]
    BY <1>1, <1>8, <1>12 DEF TypeOK
  <2>3. 0 \in 0..NPage /\ 0 \in 0..Cells
    BY Sized
  <2>4. TypeOK'
    BY <1>1, <1>8, <1>10, <1>18, <2>1, <2>2, <2>3 DEF TypeOK
  <2>5. Where'
    BY <1>1, <1>8 DEF Where
  <2> QED BY <2>4, <2>5
<1> QED BY <1>15, <1>16, <1>17, <1>19, <1>20 DEF IInv

(* kfree of an empty allocation leaves the map alone and makes the count   *)
(* wrong by the free blocks it meets.                                      *)
LEMMA FreeEmptyKeeps == ASSUME IInv, NEW a \in live, a.n = 0, kfree(a) PROVE IInv'
<1> DEFINE p0 == a.page
           q == a.first
           m == bm[p0]
           n == IdRun(p0, q)
           cleared == [i \in 0..MapCells - 1 |-> IF i \in q..(q + n - 1) THEN 0 ELSE m[i]]
<1>1. p0 \in Page /\ q \in Reserved..(Cells - 1) /\ q \in 0..Cells
  BY Holding, Sized
<1>2. Header + q * BSize < Usable
  BY <1>1, InPage, Sized
<1>3. m[q] = 0
  BY DEF IInv, Held
<1>4. n \in Nat /\ \A j \in q..(q + n - 1) : m[j] = 0
  BY <1>1, <1>3, IdRunSame
<1>5. /\ bm' = [bm EXCEPT ![p0] = cleared]
      /\ used' = [used EXCEPT ![p0] = (used[p0] - n) % Word]
      /\ lost' = [lost EXCEPT ![p0] = lost[p0] + n]
      /\ live' = live \ {a} /\ mode = "idle" /\ mode' = mode
      /\ UNCHANGED <<lfb, fblock, req, b, x>>
  BY <1>2 DEF kfree
<1> HIDE DEF n
<1>6. /\ bm \in [Page -> [0..MapCells - 1 -> 0..IdMod - 1]]
      /\ used \in [Page -> 0..Word - 1] /\ lost \in [Page -> Nat]
  BY DEF IInv, TypeOK
<1>7. cleared = m
  BY <1>1, <1>4, <1>6
<1> HIDE DEF cleared
<1>8. bm' = bm
  BY <1>1, <1>5, <1>6, <1>7
<1>9. BlocksOf(a) = {}
  <2>1. a.first \in Nat
    BY <1>1, Sized
  <2> QED BY <2>1 DEF BlocksOf
<1>10. Held' /\ NoOverlap' /\ RunsDistinct'
  BY <1>5, <1>8 DEF IInv, Held, NoOverlap, RunsDistinct, BlocksOf
<1>11. MapExact'
  BY <1>5, <1>8, <1>9 DEF IInv, MapExact, BlocksOf
<1>12. /\ used' \in [Page -> 0..Word - 1] /\ lost' \in [Page -> Nat]
       /\ \A p \in Page : p # p0 => used'[p] = used[p] /\ lost'[p] = lost[p]
       /\ used'[p0] = (used[p0] - n) % Word /\ lost'[p0] = lost[p0] + n
  <2>0. used[p0] \in 0..Word - 1 /\ lost[p0] \in Nat
    BY <1>1, <1>6
  <2>1. used[p0] - n \in Int /\ Word \in Nat /\ Word > 0 /\ lost[p0] + n \in Nat
    BY <2>0, <1>4, Sized
  <2>2. (used[p0] - n) % Word \in 0..Word - 1
    BY <2>1
  <2> QED BY <1>1, <1>5, <1>6, <2>1, <2>2
<1>13. UsedExact'
  <2> SUFFICES ASSUME NEW p \in 1..fblock
               PROVE  used'[p] = (Cardinality({i \in 0..MapCells - 1 : bm[p][i] # 0}) - lost'[p]) % Word
    BY <1>5, <1>8 DEF UsedExact
  <2> DEFINE held == {i \in 0..MapCells - 1 : bm[p][i] # 0}
  <2>1. p \in Page
    <3>1. fblock \in 0..NPage
      BY DEF IInv, TypeOK
    <3> QED BY <3>1, Sized DEF Page
  <2>2. used[p] = (Cardinality(held) - lost[p]) % Word
    BY DEF IInv, UsedExact
  <2>3. Cardinality(held) \in Nat
    <3>1. held \in SUBSET (0..MapCells - 1)
      OBVIOUS
    <3>2. IsFiniteSet(held)
      BY <3>1, MapFinite, FS_Subset, Zenon
    <3> QED BY <3>2, FS_CardinalityType
  <2> HIDE DEF held
  <2>4. CASE p = p0
    <3> DEFINE k == Cardinality(held) - lost[p]
               j == 0 - n
    <3>1. k \in Int /\ j \in Int /\ k + j = Cardinality(held) - lost'[p]
      BY <2>1, <2>3, <2>4, <1>4, <1>6, <1>12
    <3>2. used[p] = k % Word /\ used[p] \in Int
      BY <2>1, <2>2, <1>6, Sized
    <3>3. used[p] + j = used[p] - n
      BY <3>2, <1>4
    <3> HIDE DEF k, j
    <3>4. Word \in Nat /\ Word > 0
      BY Sized
    <3>5. (used[p] + j) % Word = (k + j) % Word
      BY <3>1, <3>2, <3>4, ModAdd
    <3> QED BY <2>4, <3>1, <3>3, <3>5, <1>12 DEF held
  <2>5. CASE p # p0
    BY <2>1, <2>2, <2>5, <1>12 DEF held
  <2> QED BY <2>4, <2>5
<1>14. TypeOK' /\ Where'
  BY <1>5, <1>8, <1>12 DEF IInv, TypeOK, Where
<1> QED BY <1>10, <1>11, <1>13, <1>14 DEF IInv

(* kfree clears the blocks of one allocation and nothing else.             *)
LEMMA FreeKeeps == ASSUME IInv, NEW a \in live, a.n > 0, kfree(a) PROVE IInv'
<1> DEFINE p0 == a.page
           q == a.first
           y == a.n
           m == bm[p0]
           cleared == [i \in 0..MapCells - 1 |-> IF i \in q..(q + y - 1) THEN 0 ELSE m[i]]
<1>1. /\ p0 \in Page /\ p0 \in 1..fblock /\ q \in Reserved..(Cells - 1) /\ y \in Nat /\ y > 0
      /\ q + y <= Cells /\ q \in Nat
      /\ \A i \in BlocksOf(a) : i \in Reserved..(Cells - 1) /\ m[i] # 0
  BY Holding, Sized
<1>2. Header + q * BSize < Usable
  BY <1>1, InPage, Sized
<1>3. IdRun(p0, q) = y
  <2>1. /\ \A j \in q..(q + y - 1) : m[j] = m[q]
        /\ m[q + y] # m[q]
    BY <1>1 DEF IInv, RunsDistinct, BlocksOf
  <2>2. q \in 0..Cells
    BY <1>1, Sized
  <2> QED BY <1>1, <2>1, <2>2, IdRunIs
<1>4. /\ bm' = [bm EXCEPT ![p0] = cleared]
      /\ used' = [used EXCEPT ![p0] = (used[p0] - y) % Word]
      /\ live' = live \ {a} /\ mode = "idle" /\ mode' = mode
      /\ UNCHANGED <<lfb, fblock, req, b, x, lost>>
  BY <1>2, <1>3 DEF kfree
<1>5. m \in [0..MapCells - 1 -> 0..IdMod - 1]
  BY <1>1 DEF IInv, TypeOK
<1> HIDE DEF p0, q, y
<1>6. cleared \in [0..MapCells - 1 -> 0..IdMod - 1]
  BY <1>5, Sized
<1>7. /\ bm' \in [Page -> [0..MapCells - 1 -> 0..IdMod - 1]]
      /\ bm'[p0] = cleared /\ \A p \in Page : p # p0 => bm'[p] = bm[p]
  BY <1>1, <1>4, <1>6 DEF IInv, TypeOK
<1>8. \A i \in 0..MapCells - 1 : cleared[i] = IF i \in q..(q + y - 1) THEN 0 ELSE m[i]
  OBVIOUS
<1> HIDE DEF cleared
<1>9. BlocksOf(a) = q..(q + y - 1)
  BY DEF BlocksOf, q, y
<1>10. \A c \in live' : c \in live /\ (c.page = p0 => BlocksOf(c) \cap (q..(q + y - 1)) = {})
  BY <1>4, <1>9 DEF IInv, NoOverlap, p0
<1>11. Held' /\ NoOverlap'
  <2>1. Held'
    <3> SUFFICES ASSUME NEW c \in live', c.n = 0
                 PROVE  c.first \in Reserved..(Cells - 1) /\ bm'[c.page][c.first] = 0
      BY DEF Held
    <3>1. c \in live /\ c.first \in Reserved..(Cells - 1) /\ bm[c.page][c.first] = 0
      BY <1>10 DEF IInv, Held
    <3>2. c.page \in Page /\ c.first \in 0..MapCells - 1
      BY <3>1, Holding, Sized
    <3> QED BY <3>1, <3>2, <1>7, <1>8
  <2>2. NoOverlap'
    BY <1>10 DEF IInv, NoOverlap, BlocksOf
  <2> QED BY <2>1, <2>2
<1>12. MapExact'
  <2> SUFFICES ASSUME NEW p \in 1..fblock, NEW i \in 0..MapCells - 1
               PROVE  bm'[p][i] # 0 <=> \/ i < Reserved
                                        \/ \E c \in live' : c.page = p /\ i \in BlocksOf(c)
    BY <1>4 DEF MapExact, BlocksOf
  <2>1. p \in Page
    <3>1. fblock \in 0..NPage
      BY DEF IInv, TypeOK
    <3> QED BY <3>1, Sized DEF Page
  <2>2. bm[p][i] # 0 <=> i < Reserved \/ \E c \in live : c.page = p /\ i \in BlocksOf(c)
    BY DEF IInv, MapExact
  <2>3. CASE p # p0
    <3>1. \A c \in live : c.page = p => c \in live'
      BY <2>3, <1>4 DEF p0
    <3> QED BY <3>1, <2>1, <2>2, <2>3, <1>7, <1>10
  <2>4. CASE p = p0 /\ i \in q..(q + y - 1)
    <3>1. bm'[p][i] = 0
      BY <2>4, <1>7, <1>8
    <3>2. ~(i < Reserved)
      BY <2>4, <1>1, Sized
    <3>3. \A c \in live' : c.page = p => i \notin BlocksOf(c)
      BY <2>4, <1>10
    <3> QED BY <3>1, <3>2, <3>3
  <2>5. CASE p = p0 /\ i \notin q..(q + y - 1)
    <3>1. bm'[p][i] = bm[p][i]
      BY <2>5, <1>7, <1>8
    <3>2. \A c \in live : i \in BlocksOf(c) => c \in live'
      BY <2>5, <1>4, <1>9
    <3> QED BY <3>1, <3>2, <2>2, <1>10
  <2> QED BY <2>3, <2>4, <2>5
<1>13. RunsDistinct'
  <2> SUFFICES ASSUME NEW c \in live', c.n > 0
               PROVE  /\ \A i \in BlocksOf(c) : bm'[c.page][i] = bm'[c.page][c.first]
                      /\ bm'[c.page][c.first - 1] # bm'[c.page][c.first]
                      /\ bm'[c.page][c.first + c.n] # bm'[c.page][c.first]
    BY DEF RunsDistinct, BlocksOf
  <2>1. /\ c.page \in Page /\ c.first \in Reserved..(Cells - 1) /\ c.n \in Nat /\ c.n > 0
        /\ c.first + c.n <= Cells /\ c.first \in Nat
        /\ \A i \in BlocksOf(c) : i \in Reserved..(Cells - 1) /\ bm[c.page][i] # 0
    BY <1>10, Holding, Sized
  <2>2. /\ \A i \in BlocksOf(c) : bm[c.page][i] = bm[c.page][c.first]
        /\ bm[c.page][c.first - 1] # bm[c.page][c.first]
        /\ bm[c.page][c.first + c.n] # bm[c.page][c.first]
    BY <1>10, <2>1 DEF IInv, RunsDistinct
  <2>3. CASE c.page # p0
    BY <2>1, <2>2, <2>3, <1>7
  <2>4. CASE c.page = p0
    <3>1. \A i \in BlocksOf(c) : cleared[i] = m[i]
      BY <2>1, <2>4, <1>8, <1>10, Sized
    <3>2. c.first \in BlocksOf(c)
      BY <2>1 DEF BlocksOf
    <3>3. c.first - 1 \in 0..MapCells - 1 /\ c.first + c.n \in 0..MapCells - 1
      BY <2>1, Sized
    <3>4. cleared[c.first] # 0 /\ cleared[c.first] = m[c.first]
      BY <3>1, <3>2, <2>1, <2>4
    <3>5. cleared[c.first - 1] # cleared[c.first] /\ cleared[c.first + c.n] # cleared[c.first]
      BY <3>3, <3>4, <1>8, <2>2, <2>4
    <3>6. \A i \in BlocksOf(c) : cleared[i] = cleared[c.first]
      BY <3>1, <3>2, <2>2, <2>4
    <3> QED BY <2>4, <3>5, <3>6, <1>7
  <2> QED BY <2>3, <2>4
<1>14. /\ used' \in [Page -> 0..Word - 1]
       /\ \A p \in Page : p # p0 => used'[p] = used[p]
       /\ used'[p0] = (Cardinality({i \in 0..MapCells - 1 : cleared[i] # 0}) - lost[p0]) % Word
  <2> DEFINE old == {i \in 0..MapCells - 1 : m[i] # 0}
             sub == q..(q + y - 1)
  <2>1. /\ used[p0] = (Cardinality(old) - lost[p0]) % Word
        /\ used \in [Page -> 0..Word - 1] /\ lost[p0] \in Nat
    BY <1>1 DEF IInv, UsedExact, TypeOK
  <2>2. IsFiniteSet(old)
    <3>1. old \in SUBSET (0..MapCells - 1)
      OBVIOUS
    <3> QED BY <3>1, MapFinite, FS_Subset, Zenon
  <2>3. Cardinality(sub) = y
    <3>1. q \in Int /\ q + y - 1 \in Int /\ ~(q > q + y - 1) /\ (q + y - 1) - q + 1 = y
      BY <1>1
    <3> QED BY <3>1, FS_Interval
  <2>4. old \cap sub = sub
    BY <1>1, <1>9, Sized
  <2>5. {i \in 0..MapCells - 1 : cleared[i] # 0} = old \ sub
    BY <1>8
  <2> HIDE DEF old, sub
  <2>6. IsFiniteSet(old \ sub) /\ Cardinality(old \ sub) = Cardinality(old) - y
    BY <2>2, <2>3, <2>4, FS_Difference
  <2>7. Cardinality(old) \in Nat
    BY <2>2, FS_CardinalityType
  <2> DEFINE k == Cardinality(old) - lost[p0]
             j == 0 - y
  <2>8. k \in Int /\ j \in Int /\ k + j = Cardinality(old \ sub) - lost[p0]
    BY <2>1, <2>6, <2>7, <1>1
  <2>9. used[p0] = k % Word /\ used[p0] \in Int /\ used[p0] + j = used[p0] - y
    BY <2>1, <1>1, Sized
  <2> HIDE DEF k, j
  <2>10. Word \in Nat /\ Word > 0
    BY Sized
  <2>11. (used[p0] - y) % Word = (k + j) % Word
    <3>1. (used[p0] + j) % Word = (k + j) % Word
      BY <2>8, <2>9, <2>10, ModAdd
    <3> QED BY <3>1, <2>9
  <2>12. (k + j) % Word \in 0..Word - 1
    BY <2>8, <2>10
  <2> QED BY <1>1, <1>4, <2>1, <2>5, <2>8, <2>11, <2>12
<1>15. UsedExact'
  <2> SUFFICES ASSUME NEW p \in 1..fblock
               PROVE  used'[p] = (Cardinality({i \in 0..MapCells - 1 : bm'[p][i] # 0}) - lost'[p]) % Word
    BY <1>4 DEF UsedExact
  <2>1. p \in Page
    <3>1. fblock \in 0..NPage
      BY DEF IInv, TypeOK
    <3> QED BY <3>1, Sized DEF Page
  <2>2. CASE p = p0
    BY <2>2, <1>4, <1>7, <1>14
  <2>3. CASE p # p0
    <3>1. used[p] = (Cardinality({i \in 0..MapCells - 1 : bm[p][i] # 0}) - lost[p]) % Word
      BY DEF IInv, UsedExact
    <3> QED BY <2>1, <2>3, <3>1, <1>4, <1>7, <1>14
  <2> QED BY <2>2, <2>3
<1>16. TypeOK' /\ Where'
  BY <1>4, <1>7, <1>14 DEF IInv, TypeOK, Where
<1> QED BY <1>11, <1>12, <1>13, <1>15, <1>16 DEF IInv

LEMMA NextIInv ==
    ASSUME IInv, [Next]_vars
    PROVE  IInv'
<1>1. CASE UNCHANGED vars
  <2>1. TypeOK' /\ Where'
    BY <1>1 DEF vars, IInv, TypeOK, Where
  <2>2. UNCHANGED <<bm, used, fblock, live, lost>>
    BY <1>1 DEF vars
  <2> QED BY <2>1, <2>2, Untouched
<1>2. CASE Next
  <2>1. CASE kheap_add_block
    BY <2>1, AddBlockKeeps
  <2>2. CASE \E size \in Sizes : kalloc(size)
    BY <2>2, SearchKeeps
  <2>3. CASE Search
    BY <2>3, SearchKeeps, TakeKeeps DEF Search
  <2>4. ASSUME NEW a \in live, kfree(a) PROVE IInv'
    <3>1. a.n \in Nat
      BY Holding
    <3> QED BY <2>4, <3>1, FreeKeeps, FreeEmptyKeeps
  <2> QED BY <1>2, <2>1, <2>2, <2>3, <2>4 DEF Next
<1> QED BY <1>1, <1>2
------------------------------------------------------------------------------
LEMMA Invariance == Spec => []IInv
<1>1. Init => IInv
  BY InitIInv
<1>2. IInv /\ [Next]_vars => IInv'
  BY NextIInv
<1> QED BY <1>1, <1>2, PTL DEF Spec

(* For any number and size of pages, no two allocations of kalloc share a  *)
(* block, and none reaches into the map at the start of a page or past the *)
(* page's end.                                                             *)
THEOREM NoOverlapTheorem == Spec => []NoOverlap
<1>1. IInv => NoOverlap
  BY DEF IInv
<1> QED BY Invariance, <1>1, PTL

(* The map says exactly which blocks callers hold: kfree gives back one    *)
(* allocation as a whole and no block of another.                          *)
THEOREM MapExactTheorem == Spec => []MapExact
<1>1. IInv => MapExact
  BY DEF IInv
<1> QED BY Invariance, <1>1, PTL

(* The ids of kheap_get_nid mark the two ends of every allocation, however *)
(* often they have wrapped.                                                *)
THEOREM RunsDistinctTheorem == Spec => []RunsDistinct
<1>1. IInv => RunsDistinct
  BY DEF IInv
<1> QED BY Invariance, <1>1, PTL

(* The count of used blocks is the blocks in use less the free blocks that *)
(* freeing empty allocations has taken off it, on every page: it is exact  *)
(* where no empty allocation was ever freed.                               *)
THEOREM UsedExactTheorem == Spec => []UsedExact
<1>1. IInv => UsedExact
  BY DEF IInv
<1> QED BY Invariance, <1>1, PTL

(* The maps hold ids, and the search never leaves its page.                *)
THEOREM TypeTheorem == Spec => []TypeOK
<1>1. IInv => TypeOK
  BY DEF IInv
<1> QED BY Invariance, <1>1, PTL
============================================================================
