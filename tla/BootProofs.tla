----------------------------- MODULE BootProofs -----------------------------
(***************************************************************************)
(* Proofs about Pages and Boot, for any image, memory and word size, any   *)
(* machine, any devices and any time of their interrupts.                  *)
(***************************************************************************)
EXTENDS Boot, FiniteSetTheorems, WellFoundedInduction, TLAPS

LEMMA LeastNat ==
    ASSUME NEW S \in SUBSET Nat, S # {}
    PROVE  \E m \in S : \A k \in S : m <= k
<1> DEFINE R == {ss \in Nat \X Nat : ss[1] < ss[2]}
<1>1. IsWellFoundedOn(R, Nat)
  BY NatLessThanWellFounded, Zenon DEF OpToRel
<1> HIDE DEF R
<1>2. PICK m \in S : \A k \in S : ~(<<k, m>> \in R)
  BY <1>1, WFMin, Zenon
<1>3. \A k \in S : ~(k < m)
  BY <1>2 DEF R
<1> QED BY <1>3

LEMMA MinIs ==
    ASSUME NEW S \in SUBSET Nat, S # {}
    PROVE  Min(S) \in S /\ \A k \in S : Min(S) <= k
<1>1. \E m \in S : \A k \in S : m <= k
  BY LeastNat
<1> QED BY <1>1, Zenon DEF Min

LEMMA Monotone ==
    ASSUME NEW m \in Int, NEW j \in Int, NEW k \in Nat, m <= j
    PROVE  m * k <= j * k
OBVIOUS

(* Quotient and remainder are the only ones.                               *)
LEMMA DivMod ==
    ASSUME NEW n \in Nat, NEW d \in Nat \ {0}
    PROVE  /\ n \div d \in Nat /\ n % d \in 0..(d - 1)
           /\ n = (n \div d) * d + (n % d)
OBVIOUS

LEMMA DivModUnique ==
    ASSUME NEW d \in Nat \ {0}, NEW q \in Nat, NEW r \in 0..(d - 1)
    PROVE  (q * d + r) \div d = q /\ (q * d + r) % d = r
<1> DEFINE n == q * d + r
           Q == n \div d
           M == n % d
<1>1. q * d \in Nat /\ n \in Nat
  OBVIOUS
<1>2. Q \in Nat /\ M \in 0..(d - 1) /\ n = Q * d + M
  BY <1>1, DivMod
<1> HIDE DEF Q, M
<1>3. Q * d \in Nat
  BY <1>2
<1>4. CASE Q < q
  <2>1. (Q + 1) * d <= q * d
    BY <1>2, <1>4, Monotone
  <2>2. (Q + 1) * d = Q * d + d
    BY <1>2
  <2> QED BY <1>1, <1>2, <1>3, <2>1, <2>2
<1>5. CASE Q > q
  <2>1. (q + 1) * d <= Q * d
    BY <1>2, <1>5, Monotone
  <2>2. (q + 1) * d = q * d + d
    OBVIOUS
  <2> QED BY <1>1, <1>2, <1>3, <2>1, <2>2
<1>6. CASE Q = q
  BY <1>1, <1>2, <1>6 DEF Q, M
<1> QED BY <1>2, <1>4, <1>5, <1>6

(* Words count in turns.                                                   *)
LEMMA ModTurn ==
    ASSUME NEW n \in Nat, NEW d \in Nat \ {0}
    PROVE  (n + d) % d = n % d
<1> DEFINE q == n \div d
           r == n % d
<1>1. q \in Nat /\ r \in 0..(d - 1) /\ n = q * d + r
  BY DivMod
<1> HIDE DEF q, r
<1>2. (q + 1) * d = q * d + d /\ q * d \in Nat
  BY <1>1
<1>3. n + d = (q + 1) * d + r
  BY <1>1, <1>2
<1>4. ((q + 1) * d + r) % d = r
  BY <1>1, DivModUnique
<1> QED BY <1>3, <1>4 DEF r

(* An allocation lowers the count by one page and a release raises it by   *)
(* one, also where the word wraps.                                         *)
LEMMA CountDown ==
    ASSUME NEW d \in Nat \ {0}, NEW f \in 0..(d - 1), NEW n \in Nat
    PROVE  /\ (f - 1) % d \in 0..(d - 1)
           /\ (((f - 1) % d) + (n + 1)) % d = (f + n) % d
<1>1. CASE f = 0
  <2>1. (f - 1) % d = d - 1
    BY <1>1
  <2>2. (d - 1) + (n + 1) = n + d /\ f + n = n /\ d - 1 \in 0..(d - 1)
    BY <1>1
  <2>3. (n + d) % d = n % d
    BY ModTurn
  <2> QED BY <2>1, <2>2, <2>3
<1>2. CASE f > 0
  <2>1. (f - 1) % d = f - 1
    BY <1>2
  <2>2. (f - 1) + (n + 1) = f + n
    OBVIOUS
  <2> QED BY <1>2, <2>1, <2>2
<1> QED BY <1>1, <1>2

LEMMA CountUp ==
    ASSUME NEW d \in Nat \ {0}, NEW f \in 0..(d - 1), NEW n \in Nat, n > 0
    PROVE  /\ (f + 1) % d \in 0..(d - 1)
           /\ (((f + 1) % d) + (n - 1)) % d = (f + n) % d
<1>1. CASE f = d - 1
  <2>1. (f + 1) % d = 0
    BY <1>1
  <2>2. f + n = (n - 1) + d /\ n - 1 \in Nat
    BY <1>1
  <2>3. ((n - 1) + d) % d = (n - 1) % d
    BY <2>2, ModTurn
  <2> QED BY <2>1, <2>2, <2>3
<1>2. CASE f < d - 1
  <2>1. (f + 1) % d = f + 1
    BY <1>2
  <2>2. (f + 1) + (n - 1) = f + n
    OBVIOUS
  <2> QED BY <1>2, <2>1, <2>2
<1> QED BY <1>1, <1>2

LEMMA Numbers ==
    /\ CELL_BITS \in Nat \ {0} /\ Word \in Nat \ {0} /\ HeaderCells \in Nat \ {0}
    /\ Cells \subseteq Nat /\ 0 \in Cells
    /\ ENTRIES \in Nat /\ DirEntries \in Nat /\ FirstPage \in Nat
BY PagesAssumption

LEMMA Images == Image \in [Cells -> SUBSET Bits]
BY PagesAssumption

(* A page and the bit of the cell that stands for it.                      *)
LEMMA PageOf ==
    ASSUME NEW c \in Nat, NEW b \in Bits
    PROVE  Page(c, b) \in Nat /\ Cell(Page(c, b)) = c /\ Bit(Page(c, b)) = b
<1>1. CELL_BITS \in Nat \ {0} /\ b \in 0..(CELL_BITS - 1)
  BY Numbers DEF Bits
<1>2. c * CELL_BITS \in Nat
  BY <1>1
<1> QED BY <1>1, <1>2, DivModUnique DEF Page, Cell, Bit

LEMMA OfPage ==
    ASSUME NEW page \in Nat
    PROVE  Cell(page) \in Nat /\ Bit(page) \in Bits /\ Page(Cell(page), Bit(page)) = page
<1>1. CELL_BITS \in Nat \ {0}
  BY Numbers
<1> QED BY <1>1, DivMod DEF Page, Cell, Bit, Bits

(* A page of an earlier cell has a smaller number.                         *)
LEMMA CellOrder ==
    ASSUME NEW p \in Nat, NEW q \in Nat, p <= q
    PROVE  Cell(p) <= Cell(q)
<1>1. /\ CELL_BITS \in Nat \ {0}
      /\ Cell(p) \in Nat /\ Bit(p) \in 0..(CELL_BITS - 1) /\ p = Cell(p) * CELL_BITS + Bit(p)
      /\ Cell(q) \in Nat /\ Bit(q) \in 0..(CELL_BITS - 1) /\ q = Cell(q) * CELL_BITS + Bit(q)
  BY Numbers, OfPage, Zenon DEF Page, Bits
<1>2. SUFFICES ASSUME Cell(p) > Cell(q) PROVE FALSE
  BY <1>1
<1>3. (Cell(q) + 1) * CELL_BITS <= Cell(p) * CELL_BITS
  BY <1>1, <1>2, Monotone
<1>4. (Cell(q) + 1) * CELL_BITS = Cell(q) * CELL_BITS + CELL_BITS
  BY <1>1
<1>5. Cell(q) * CELL_BITS \in Nat /\ Cell(p) * CELL_BITS \in Nat
  BY <1>1
<1> QED BY <1>1, <1>3, <1>4, <1>5

Shaped == freemap \in [Cells -> SUBSET Bits] /\ freemap_cells \in Nat

LEMMA FreePagesAre ==
    ASSUME Shaped
    PROVE  /\ FreePages \in SUBSET Nat
           /\ \A page \in Nat :
                  page \in FreePages <=> /\ Cell(page) \in Cells /\ Cell(page) < freemap_cells
                                         /\ Bit(page) \in freemap[Cell(page)]
<1>1. FreePages \in SUBSET Nat
  <2>1. \A x \in Cells \X Bits : x[1] \in Nat /\ x[2] \in Bits
    BY Numbers
  <2>2. \A x \in Cells \X Bits : Page(x[1], x[2]) \in Nat
    BY <2>1, PageOf
  <2> QED BY <2>2 DEF FreePages
<1>2. ASSUME NEW page \in FreePages
      PROVE  /\ Cell(page) \in Cells /\ Cell(page) < freemap_cells
             /\ Bit(page) \in freemap[Cell(page)]
  <2>1. PICK c \in Cells, b \in Bits :
            c < freemap_cells /\ b \in freemap[c] /\ page = Page(c, b)
    BY <1>2 DEF FreePages
  <2> QED BY <2>1, PageOf, Numbers
<1>3. ASSUME NEW page \in Nat, Cell(page) \in Cells, Cell(page) < freemap_cells,
             Bit(page) \in freemap[Cell(page)]
      PROVE  page \in FreePages
  <2>1. <<Cell(page), Bit(page)>> \in {y \in Cells \X Bits : y[1] < freemap_cells /\ y[2] \in freemap[y[1]]}
    BY <1>3, OfPage
  <2> QED BY <1>3, <2>1, OfPage DEF FreePages
<1> QED BY <1>1, <1>2, <1>3
------------------------------------------------------------------------------
(* The bitmap once mem_init has run: cell 0 stays empty.                   *)
Started ==
    /\ mode = "mem" => live = {} /\ peak = 0 /\ freemap = Image
    /\ mode # "mem" => freemap[0] = {}

(* The bits of pages in use are clear, and the ones of the image that are  *)
(* clear are those of pages in use.                                        *)
Cleared == \A page \in live : Bit(page) \notin freemap[Cell(page)]
Covered == \A c \in Cells \ {0} : \A b \in Image[c] : b \in freemap[c] \/ Page(c, b) \in live

Counted == IsFiniteSet(live) /\ Cardinality(live) <= peak /\ CountExact

(* Within the budget only bits of the header have been taken.              *)
Low == peak <= Spare => \A page \in live : Cell(page) < HeaderCells

MemInv ==
    /\ TypeOK /\ live \in SUBSET Nat /\ Started /\ Cleared /\ Covered /\ Counted
    /\ Low /\ CodeIntact

(* The tables filled so far.                                               *)
Tables ==
    /\ pagedir \in Seq([0..(ENTRIES - 1) -> Nat])
    /\ \A k \in 1..Len(pagedir) : pagedir[k] = [t \in 0..(ENTRIES - 1) |-> Frame(k - 1, t)]
    /\ mode \in {"mem", "heap"} => Len(pagedir) = 0
    /\ mode = "paging" => Len(pagedir) = IF taken = 0 THEN 0 ELSE taken - 1
    /\ mode = "on" => Len(pagedir) = DirEntries

IInv == MemInv /\ Tables

LEMMA SpareKept == ASSUME freemap_cells' = freemap_cells PROVE Spare' = Spare
BY DEF Spare

LEMMA SpareNat == Spare \in Nat
<1> DEFINE H == {x \in Cells \X Bits : /\ x[1] \in 1..(HeaderCells - 1) /\ x[1] < freemap_cells
                                       /\ x[2] \in Image[x[1]]}
<1>1. IsFiniteSet(1..(HeaderCells - 1)) /\ IsFiniteSet(Bits)
  BY Numbers, FS_Interval DEF Bits
<1>2. IsFiniteSet((1..(HeaderCells - 1)) \X Bits)
  BY <1>1, FS_Product
<1>3. H \in SUBSET ((1..(HeaderCells - 1)) \X Bits)
  OBVIOUS
<1> HIDE DEF H
<1>4. IsFiniteSet(H)
  BY <1>2, <1>3, FS_Subset
<1>5. Cardinality(H) \in Nat
  BY <1>4, FS_CardinalityType
<1> QED BY <1>5 DEF Spare, H

LEMMA InitIInv == Init => IInv
<1> SUFFICES ASSUME Init PROVE IInv
  OBVIOUS
<1>1. TypeOK /\ live \in SUBSET Nat
  BY Numbers, Images DEF Init, TypeOK
<1>2. Counted
  <2>1. IsFiniteSet(live) /\ Cardinality(live) = 0
    BY FS_EmptySet DEF Init
  <2>2. CountExact
    BY <2>1, Numbers DEF Init, CountExact
  <2> QED BY <2>1, <2>2 DEF Init, Counted
<1>3. Started /\ Cleared /\ Covered /\ Low /\ CodeIntact
  BY DEF Init, Started, Cleared, Covered, Low, CodeIntact
<1>4. Tables
  BY DEF Init, Tables
<1> QED BY <1>1, <1>2, <1>3, <1>4 DEF IInv, MemInv

(* While fewer pages are in use than the header has bits, the header has   *)
(* the bit of a page that is not in use.                                   *)
LEMMA HeaderHasFree ==
    ASSUME MemInv, Cardinality(live) < Spare
    PROVE  \E page \in FreePages : Cell(page) < HeaderCells
<1> SUFFICES ASSUME \A page \in FreePages : ~(Cell(page) < HeaderCells) PROVE FALSE
  OBVIOUS
<1> DEFINE H == {x \in Cells \X Bits : /\ x[1] \in 1..(HeaderCells - 1) /\ x[1] < freemap_cells
                                       /\ x[2] \in Image[x[1]]}
           f == [x \in H |-> Page(x[1], x[2])]
<1>1. Shaped /\ IsFiniteSet(live) /\ Covered
  BY DEF MemInv, TypeOK, Shaped, Counted
<1>2. ASSUME NEW x \in H PROVE Page(x[1], x[2]) \in live
  <2>1. x[1] \in Cells \ {0} /\ x[1] \in Nat /\ x[2] \in Bits /\ x[1] < HeaderCells
        /\ x[1] < freemap_cells /\ x[2] \in Image[x[1]]
    BY <1>2, Numbers
  <2>2. x[2] \in freemap[x[1]] \/ Page(x[1], x[2]) \in live
    BY <1>1, <2>1 DEF Covered
  <2>3. ASSUME x[2] \in freemap[x[1]] PROVE FALSE
    <3>1. Page(x[1], x[2]) \in Nat /\ Cell(Page(x[1], x[2])) = x[1] /\ Bit(Page(x[1], x[2])) = x[2]
      BY <2>1, PageOf
    <3>2. Page(x[1], x[2]) \in FreePages
      BY <1>1, <2>1, <2>3, <3>1, FreePagesAre
    <3> QED BY <2>1, <3>1, <3>2
  <2> QED BY <2>2, <2>3
<1>3. f \in [H -> live]
  BY <1>2
<1>4. ASSUME NEW x \in H, NEW y \in H, f[x] = f[y] PROVE x = y
  <2>1. x \in Cells \X Bits /\ y \in Cells \X Bits /\ x[1] \in Nat /\ y[1] \in Nat
    BY <1>4, Numbers
  <2>2. Page(x[1], x[2]) = Page(y[1], y[2])
    BY <1>4
  <2>3. x[1] = y[1] /\ x[2] = y[2]
    BY <2>1, <2>2, PageOf
  <2> QED BY <2>1, <2>3
<1> HIDE DEF f, H
<1>5. f \in Injection(H, live)
  BY <1>3, <1>4 DEF Injection, IsInjective
<1>6. Cardinality(H) <= Cardinality(live)
  BY <1>1, <1>5, FS_Injection
<1>7. Cardinality(H) = Spare
  BY DEF Spare, H
<1>8. Cardinality(live) \in Nat /\ Cardinality(H) \in Nat
  <2>1. IsFiniteSet(H)
    BY <1>1, <1>5, FS_Injection
  <2> QED BY <1>1, <2>1, FS_CardinalityType
<1> QED BY <1>6, <1>7, <1>8

(* What memory_alloc_page takes: the page of the first bit that is set.    *)
LEMMA FirstFree ==
    ASSUME Shaped, FreePages # {}
    PROVE  LET page == Min(FreePages)
           IN  /\ page \in FreePages /\ page \in Nat /\ Cell(page) \in Cells
               /\ Cell(page) < freemap_cells /\ Bit(page) \in freemap[Cell(page)]
               /\ \A q \in FreePages : Cell(page) <= Cell(q)
<1> DEFINE page == Min(FreePages)
<1>1. FreePages \in SUBSET Nat
  BY FreePagesAre
<1>2. page \in FreePages /\ \A q \in FreePages : page <= q
  BY <1>1, MinIs
<1> HIDE DEF page
<1>3. page \in Nat /\ \A q \in FreePages : q \in Nat
  BY <1>1, <1>2
<1>4. \A q \in FreePages : Cell(page) <= Cell(q)
  BY <1>2, <1>3, CellOrder
<1>5. Cell(page) \in Cells /\ Cell(page) < freemap_cells /\ Bit(page) \in freemap[Cell(page)]
  BY <1>2, <1>3, FreePagesAre
<1> QED BY <1>2, <1>3, <1>4, <1>5 DEF page

(* Whoever calls memory_alloc_page, the allocator stays consistent.        *)
LEMMA AllocMemInv ==
    ASSUME MemInv, memory_alloc_page, mode # "mem",
           mode' \in {"heap", "paging", "on", "panic"}, taken' \in Nat,
           UNCHANGED <<freemap_cells, pages_total>>
    PROVE  MemInv'
<1> DEFINE page == Min(FreePages)
           n == Cardinality(live)
<1>1. /\ TypeOK /\ live \in SUBSET Nat /\ Started /\ Cleared /\ Covered /\ Counted
      /\ Low /\ CodeIntact
  BY DEF MemInv
<1>2. Shaped /\ freemap \in [Cells -> SUBSET Bits]
  BY <1>1 DEF TypeOK, Shaped
<1>3. /\ page \in FreePages /\ page \in Nat /\ Cell(page) \in Cells
      /\ Cell(page) < freemap_cells /\ Bit(page) \in freemap[Cell(page)]
      /\ \A q \in FreePages : Cell(page) <= Cell(q)
  BY <1>2, FirstFree DEF memory_alloc_page
<1>4. /\ freemap' = [freemap EXCEPT ![Cell(page)] = freemap[Cell(page)] \ {Bit(page)}]
      /\ live' = live \cup {page} /\ peak' = Larger(peak, Cardinality(live'))
      /\ pages_free' = (pages_free - 1) % Word
  BY DEF memory_alloc_page, HandOut
<1> HIDE DEF page
<1>5. page \notin live
  BY <1>1, <1>3 DEF Cleared
<1>6. Cell(page) # 0
  BY <1>1, <1>3 DEF Started
<1>7. /\ IsFiniteSet(live') /\ Cardinality(live') = n + 1 /\ n \in Nat
  BY <1>1, <1>4, <1>5, FS_AddElement, FS_CardinalityType DEF Counted
<1>8. peak \in Nat /\ peak' \in Nat /\ peak <= peak' /\ n + 1 <= peak'
  BY <1>1, <1>4, <1>7 DEF TypeOK, Larger
<1>9. freemap' \in [Cells -> SUBSET Bits]
  BY <1>2, <1>4
<1>10. \A c \in Cells : freemap'[c] = IF c = Cell(page) THEN freemap[c] \ {Bit(page)} ELSE freemap[c]
  BY <1>2, <1>4
<1>11. Counted'
  <2>1. Word \in Nat \ {0} /\ pages_free \in 0..(Word - 1)
    BY <1>1, Numbers DEF TypeOK
  <2>2. (pages_free' + (n + 1)) % Word = (pages_free + n) % Word
    BY <1>4, <1>7, <2>1, CountDown
  <2>3. CountExact'
    BY <1>1, <1>7, <2>2 DEF Counted, CountExact
  <2> QED BY <1>7, <1>8, <2>3 DEF Counted
<1>12. TypeOK' /\ live' \in SUBSET Nat
  <2>1. Word \in Nat \ {0} /\ pages_free \in 0..(Word - 1)
    BY <1>1, Numbers DEF TypeOK
  <2>2. pages_free' \in 0..(Word - 1)
    BY <1>4, <1>7, <2>1, CountDown
  <2>3. \A q \in live' : Cell(q) \in Cells \ {0}
    BY <1>1, <1>3, <1>4, <1>6 DEF TypeOK
  <2> QED BY <1>1, <1>3, <1>4, <1>8, <1>9, <2>2, <2>3 DEF TypeOK
<1>13. Started'
  BY <1>1, <1>6, <1>10, Numbers DEF Started
<1>14. Cleared'
  <2> SUFFICES ASSUME NEW q \in live' PROVE Bit(q) \notin freemap'[Cell(q)]
    BY DEF Cleared
  <2>1. CASE q = page
    BY <1>3, <1>10, <2>1
  <2>2. CASE q \in live
    BY <1>1, <1>10, <2>2 DEF Cleared, TypeOK
  <2> QED BY <1>4, <2>1, <2>2
<1>15. Covered'
  <2> SUFFICES ASSUME NEW c \in Cells \ {0}, NEW x \in Image[c]
               PROVE  x \in freemap'[c] \/ Page(c, x) \in live'
    BY DEF Covered
  <2>1. x \in freemap[c] \/ Page(c, x) \in live
    BY <1>1 DEF Covered
  <2>2. CASE c = Cell(page) /\ x = Bit(page)
    BY <1>3, <1>4, <2>2, OfPage
  <2>3. CASE ~(c = Cell(page) /\ x = Bit(page))
    BY <1>4, <1>10, <2>1, <2>3
  <2> QED BY <2>2, <2>3
<1>16. Spare' = Spare
  BY SpareKept
<1>17. ASSUME peak' <= Spare' PROVE peak <= Spare /\ Cell(page) < HeaderCells
  <2>1. peak <= Spare /\ n < Spare
    BY <1>7, <1>8, <1>16, <1>17, SpareNat
  <2>2. PICK q \in FreePages : Cell(q) < HeaderCells
    BY <2>1, HeaderHasFree
  <2>3. Cell(q) \in Nat /\ Cell(page) \in Nat /\ Cell(page) <= Cell(q)
    BY <1>2, <1>3, FreePagesAre, Numbers
  <2> QED BY <2>1, <2>2, <2>3, Numbers
<1>18. Low'
  BY <1>1, <1>4, <1>17 DEF Low
<1>19. CodeIntact'
  <2> SUFFICES ASSUME peak' <= Spare', NEW c \in Cells, c >= HeaderCells PROVE freemap'[c] = Image[c]
    BY DEF CodeIntact
  <2>1. c # Cell(page) /\ freemap[c] = Image[c]
    BY <1>1, <1>3, <1>17, Numbers DEF CodeIntact
  <2> QED BY <1>10, <2>1
<1> QED BY <1>11, <1>12, <1>13, <1>14, <1>15, <1>18, <1>19 DEF MemInv

LEMMA FreeMemInv ==
    ASSUME MemInv, NEW page \in live, memory_free_page(page)
    PROVE  MemInv'
<1> DEFINE n == Cardinality(live)
<1>1. /\ TypeOK /\ live \in SUBSET Nat /\ Started /\ Cleared /\ Covered /\ Counted
      /\ Low /\ CodeIntact
  BY DEF MemInv
<1>2. /\ freemap' = [freemap EXCEPT ![Cell(page)] = freemap[Cell(page)] \cup {Bit(page)}]
      /\ live' = live \ {page} /\ pages_free' = (pages_free + 1) % Word
      /\ UNCHANGED <<mode, taken, freemap_cells, pages_total, peak>>
  BY DEF memory_free_page
<1>3. freemap \in [Cells -> SUBSET Bits] /\ mode = "on"
  BY <1>1 DEF TypeOK, memory_free_page
<1>4. page \in Nat /\ Cell(page) \in Cells \ {0} /\ Bit(page) \in Bits /\ Page(Cell(page), Bit(page)) = page
  BY <1>1, OfPage DEF TypeOK
<1>5. freemap' \in [Cells -> SUBSET Bits]
  BY <1>2, <1>3, <1>4
<1>6. \A c \in Cells : freemap'[c] = IF c = Cell(page) THEN freemap[c] \cup {Bit(page)} ELSE freemap[c]
  BY <1>2, <1>3
<1>7. IsFiniteSet(live') /\ Cardinality(live') = n - 1 /\ n \in Nat /\ n > 0
  <2>1. IsFiniteSet(live)
    BY <1>1 DEF Counted
  <2>2. n \in Nat /\ IsFiniteSet(live \ {page}) /\ Cardinality(live \ {page}) = n - 1
    BY <2>1, FS_RemoveElement, FS_CardinalityType
  <2>3. Cardinality(live \ {page}) \in Nat
    BY <2>2, FS_CardinalityType
  <2> QED BY <1>2, <2>2, <2>3
<1>8. Word \in Nat \ {0} /\ pages_free \in 0..(Word - 1) /\ peak \in Nat
  BY <1>1, Numbers DEF TypeOK
<1>9. pages_free' \in 0..(Word - 1) /\ (pages_free' + (n - 1)) % Word = (pages_free + n) % Word
  BY <1>2, <1>7, <1>8, CountUp
<1>10. Counted'
  <2>1. CountExact'
    BY <1>1, <1>2, <1>7, <1>9 DEF Counted, CountExact
  <2> QED BY <1>1, <1>2, <1>7, <1>8, <2>1 DEF Counted
<1>11. TypeOK' /\ live' \in SUBSET Nat
  BY <1>1, <1>2, <1>5, <1>9 DEF TypeOK
<1>12. Started'
  BY <1>1, <1>2, <1>3, <1>4, <1>6, Numbers DEF Started
<1>13. Cleared'
  <2> SUFFICES ASSUME NEW q \in live' PROVE Bit(q) \notin freemap'[Cell(q)]
    BY DEF Cleared
  <2>1. q \in live /\ q # page /\ q \in Nat /\ Cell(q) \in Cells /\ Bit(q) \notin freemap[Cell(q)]
    BY <1>1, <1>2 DEF Cleared, TypeOK
  <2>2. ~(Cell(q) = Cell(page) /\ Bit(q) = Bit(page))
    BY <1>4, <2>1, OfPage
  <2> QED BY <1>6, <2>1, <2>2
<1>14. Covered'
  <2> SUFFICES ASSUME NEW c \in Cells \ {0}, NEW x \in Image[c]
               PROVE  x \in freemap'[c] \/ Page(c, x) \in live'
    BY DEF Covered
  <2>1. x \in freemap[c] \/ Page(c, x) \in live
    BY <1>1 DEF Covered
  <2>2. CASE Page(c, x) = page
    <3>1. c \in Nat /\ x \in Bits
      BY Numbers, Images
    <3>2. c = Cell(page) /\ x = Bit(page)
      BY <2>2, <3>1, PageOf
    <3> QED BY <1>6, <3>2
  <2>3. CASE Page(c, x) # page
    BY <1>2, <1>6, <2>1, <2>3
  <2> QED BY <2>2, <2>3
<1>15. Spare' = Spare
  BY <1>2, SpareKept
<1>16. Low'
  BY <1>1, <1>2, <1>15 DEF Low
<1>17. CodeIntact'
  <2> SUFFICES ASSUME peak' <= Spare', NEW c \in Cells, c >= HeaderCells PROVE freemap'[c] = Image[c]
    BY DEF CodeIntact
  <2>1. peak <= Spare
    BY <1>2, <1>15
  <2>2. Cell(page) < HeaderCells /\ freemap[c] = Image[c]
    BY <1>1, <2>1 DEF Low, CodeIntact
  <2>3. c # Cell(page)
    BY <1>4, <2>2, Numbers
  <2> QED BY <1>6, <2>2, <2>3
<1> QED BY <1>10, <1>11, <1>12, <1>13, <1>14, <1>16, <1>17 DEF MemInv

(* mem_init counts some pages, whatever the overflow makes of the size,    *)
(* and leaves the image but for cell 0 as it is.                           *)
LEMMA InitMemInv ==
    ASSUME MemInv, NEW usable \in Sizes, mem_init(usable)
    PROVE  MemInv'
<1>1. TypeOK /\ Started /\ Covered
  BY DEF MemInv
<1>2. /\ mode = "mem" /\ live = {} /\ peak = 0 /\ freemap = Image
      /\ mode' = "heap" /\ live' = {} /\ peak' = 0 /\ freemap' = [freemap EXCEPT ![0] = {}]
      /\ pages_free' = pages_total' /\ taken' = taken
  BY <1>1 DEF mem_init, Started
<1>3. freemap' \in [Cells -> SUBSET Bits] /\ \A c \in Cells : freemap'[c] = IF c = 0 THEN {} ELSE Image[c]
  BY <1>2, Images, Numbers
<1>4. pages_total' \in 0..(Word - 1)
  <2> DEFINE bytes == (usable * KiB) % Word
             k == PAGE_SIZE \div KiB
  <2>1. usable * KiB \in Nat
    BY PagesAssumption
  <2>2. bytes \in 0..(Word - 1)
    BY <2>1, Numbers
  <2>3. k \in Nat /\ k >= 1
    <3>1. PAGE_SIZE \in Nat /\ KiB \in Nat \ {0} /\ PAGE_SIZE >= KiB
      BY PagesAssumption
    <3> QED BY <3>1
  <2>4. pages_total' = bytes \div k
    BY DEF mem_init
  <2> HIDE DEF bytes, k
  <2>5. bytes \in Nat /\ bytes \div k \in Nat /\ bytes \div k <= bytes
    <3> DEFINE q == bytes \div k
    <3>1. bytes \in Nat /\ k \in Nat \ {0}
      BY <2>2, <2>3
    <3>2. q \in Nat /\ bytes % k \in Nat /\ bytes = q * k + (bytes % k)
      BY <3>1, DivMod
    <3> HIDE DEF q
    <3>3. 1 * q <= k * q
      BY <2>3, <3>2, Monotone
    <3>4. q * k = k * q /\ 1 * q = q /\ q * k \in Nat
      BY <2>3, <3>2
    <3>5. q <= bytes
      BY <3>2, <3>3, <3>4
    <3> QED BY <3>1, <3>2, <3>5 DEF q
  <2> QED BY <2>2, <2>4, <2>5, Numbers
<1>5. freemap_cells' \in Nat
  <2>1. freemap_cells' = 1 + (pages_total' \div CELL_BITS)
    BY DEF mem_init
  <2>2. pages_total' \in Nat /\ CELL_BITS \in Nat \ {0}
    BY <1>4, Numbers
  <2>3. pages_total' \div CELL_BITS \in Nat
    BY <2>2, DivMod
  <2> QED BY <2>1, <2>3
<1>6. TypeOK' /\ live' \in SUBSET Nat
  BY <1>1, <1>2, <1>3, <1>4, <1>5 DEF TypeOK
<1>7. Counted'
  <2>1. IsFiniteSet(live') /\ Cardinality(live') = 0
    BY <1>2, FS_EmptySet
  <2>2. \A n \in 0..(Word - 1) : (n + 0) % Word = n
    BY Numbers
  <2> QED BY <1>2, <1>4, <2>1, <2>2 DEF Counted, CountExact
<1>8. Started' /\ Cleared' /\ Covered' /\ Low' /\ CodeIntact'
  BY <1>2, <1>3, Numbers DEF Started, Cleared, Covered, Low, CodeIntact
<1> QED BY <1>6, <1>7, <1>8 DEF MemInv

LEMMA NextMemInv == ASSUME MemInv, [Next]_vars PROVE MemInv'
<1>1. TypeOK
  BY DEF MemInv
<1>2. ASSUME NEW usable \in Sizes, mem_init(usable) PROVE MemInv'
  BY <1>2, InitMemInv
<1>3. CASE main_heap_init
  <2>1. mode' \in {"heap", "paging"} /\ taken' \in Nat
    BY <1>1, <1>3 DEF main_heap_init, TypeOK
  <2> QED BY <1>3, <2>1, AllocMemInv DEF main_heap_init
<1>4. CASE PageDirectory
  BY <1>4, AllocMemInv DEF PageDirectory
<1>5. CASE PageTable
  <2>1. mode' \in {"paging", "on"} /\ taken' \in Nat
    BY <1>1, <1>5 DEF PageTable, TypeOK
  <2> QED BY <1>5, <2>1, AllocMemInv DEF PageTable
<1>6. CASE AllocPage
  BY <1>1, <1>6, AllocMemInv DEF AllocPage, TypeOK
<1>7. CASE Panic \/ UNCHANGED vars
  <2>1. /\ UNCHANGED <<taken, freemap, freemap_cells, pages_total, pages_free, live, peak>>
        /\ mode' = mode \/ (mode # "mem" /\ mode' = "panic")
    BY <1>7 DEF Panic, vars
  <2>2. Spare' = Spare
    BY <2>1, SpareKept
  <2> QED BY <2>1, <2>2 DEF MemInv, TypeOK, Started, Cleared, Covered, Counted, CountExact, Low, CodeIntact
<1>8. ASSUME NEW page \in live, memory_free_page(page) PROVE MemInv'
  BY <1>8, FreeMemInv
<1> QED BY <1>2, <1>3, <1>4, <1>5, <1>6, <1>7, <1>8 DEF Next

(* A table is appended by PageTable alone, filled for its place.           *)
LEMMA NextTables == ASSUME TypeOK, Tables, [Next]_vars PROVE Tables'
<1> DEFINE S == [0..(ENTRIES - 1) -> Nat]
<1>1. /\ pagedir \in Seq(S) /\ taken \in Nat
      /\ \A k \in 1..Len(pagedir) : pagedir[k] = [t \in 0..(ENTRIES - 1) |-> Frame(k - 1, t)]
      /\ mode \in {"mem", "heap"} => Len(pagedir) = 0
      /\ mode = "paging" => Len(pagedir) = IF taken = 0 THEN 0 ELSE taken - 1
      /\ mode = "on" => Len(pagedir) = DirEntries
  BY DEF TypeOK, Tables
<1>2. CASE PageTable
  <2> DEFINE table == [t \in 0..(ENTRIES - 1) |-> Frame(taken - 1, t)]
  <2>1. /\ taken - 1 \in Nat /\ Len(pagedir) = taken - 1 /\ taken' = taken + 1
        /\ pagedir' = Append(pagedir, table) /\ mode = "paging"
        /\ mode' = IF taken = DirEntries THEN "on" ELSE mode
    BY <1>1, <1>2 DEF PageTable
  <2>2. \A t \in 0..(ENTRIES - 1) : Frame(taken - 1, t) \in Nat
    <3>1. \A m, j \in Nat : m * j \in Nat
      OBVIOUS
    <3>2. ENTRIES * (taken - 1) \in Nat
      BY <2>1, <3>1, Numbers
    <3> QED BY <3>2 DEF Frame
  <2>3. table \in S
    BY <2>2
  <2> HIDE DEF S
  <2>4. /\ pagedir' \in Seq(S) /\ Len(pagedir') = Len(pagedir) + 1
        /\ \A k \in 1..Len(pagedir') : pagedir'[k] = IF k = Len(pagedir) + 1 THEN table ELSE pagedir[k]
    BY <1>1, <2>1, <2>3
  <2>5. \A k \in 1..Len(pagedir') : pagedir'[k] = [t \in 0..(ENTRIES - 1) |-> Frame(k - 1, t)]
    <3> TAKE k \in 1..Len(pagedir')
    <3>1. CASE k = Len(pagedir) + 1
      <4>1. k - 1 = taken - 1 /\ pagedir'[k] = table
        BY <2>1, <2>4, <3>1
      <4> QED BY <4>1, Zenon
    <3>2. CASE k # Len(pagedir) + 1
      <4>1. k \in 1..Len(pagedir) /\ pagedir'[k] = pagedir[k]
        <5> HIDE DEF table
        <5> QED BY <2>1, <2>4, <3>2
      <4>2. pagedir[k] = [t \in 0..(ENTRIES - 1) |-> Frame(k - 1, t)]
        BY <1>1, <4>1, Zenon
      <4> QED BY <4>1, <4>2, Zenon
    <3> QED BY <3>1, <3>2
  <2>6. /\ mode' \in {"mem", "heap"} => Len(pagedir') = 0
        /\ mode' = "paging" => Len(pagedir') = IF taken' = 0 THEN 0 ELSE taken' - 1
        /\ mode' = "on" => Len(pagedir') = DirEntries
    <3> HIDE DEF table
    <3> QED BY <1>1, <2>1, <2>4
  <2> QED BY <2>4, <2>5, <2>6, Zenon DEF Tables, S
<1>3. ASSUME pagedir' = pagedir,
             mode' \in {"mem", "heap"} => mode \in {"mem", "heap"},
             mode' = "paging" => \/ mode = "heap" /\ taken' = 0
                                 \/ mode = "paging" /\ taken' = taken
                                 \/ mode = "paging" /\ taken = 0 /\ taken' = 1,
             mode' = "on" => mode = "on"
      PROVE  Tables'
  BY <1>1, <1>3 DEF Tables
<1>4. ASSUME NEW usable \in Sizes, mem_init(usable) PROVE Tables'
  BY <1>3, <1>4 DEF mem_init
<1>5. CASE main_heap_init
  BY <1>3, <1>5 DEF main_heap_init
<1>6. CASE PageDirectory
  BY <1>3, <1>6 DEF PageDirectory
<1>7. CASE AllocPage \/ Panic \/ UNCHANGED vars
  BY <1>3, <1>7 DEF AllocPage, Panic, vars
<1>8. ASSUME NEW page \in live, memory_free_page(page) PROVE Tables'
  BY <1>3, <1>8 DEF memory_free_page
<1> QED BY <1>2, <1>4, <1>5, <1>6, <1>7, <1>8 DEF Next

LEMMA Invariance == Spec => []IInv
<1>1. IInv /\ [Next]_vars => IInv'
  BY NextMemInv, NextTables DEF IInv, MemInv
<1> QED BY <1>1, InitIInv, PTL DEF Spec

(* The frames that the tables hold are the pages themselves.               *)
LEMMA TranslateIs ==
    ASSUME Tables, mode = "on", ENTRIES > 0, NEW v \in Nat
    PROVE  Translate(v) = IF v < DirEntries * ENTRIES THEN v ELSE -1
<1> DEFINE q == v \div ENTRIES
           r == v % ENTRIES
<1>1. ENTRIES \in Nat \ {0} /\ DirEntries \in Nat
  BY Numbers
<1>2. q \in Nat /\ r \in 0..(ENTRIES - 1) /\ v = q * ENTRIES + r
  BY <1>1, DivMod
<1>3. Len(pagedir) = DirEntries
  BY DEF Tables
<1>4. Translate(v) = IF q < DirEntries THEN pagedir[q + 1][r] ELSE -1
  BY <1>3 DEF Translate
<1> HIDE DEF q, r
<1>5. CASE q < DirEntries
  <2>1. (q + 1) * ENTRIES <= DirEntries * ENTRIES
    BY <1>1, <1>2, <1>5, Monotone
  <2>2. (q + 1) * ENTRIES = q * ENTRIES + ENTRIES /\ q * ENTRIES \in Nat
        /\ ENTRIES * q = q * ENTRIES
    BY <1>1, <1>2
  <2>3. v < DirEntries * ENTRIES
    BY <1>1, <1>2, <2>1, <2>2
  <2>4. pagedir[q + 1] = [t \in 0..(ENTRIES - 1) |-> Frame((q + 1) - 1, t)]
    BY <1>1, <1>2, <1>3, <1>5 DEF Tables
  <2>5. pagedir[q + 1][r] = ENTRIES * q + r
    BY <1>2, <2>4 DEF Frame
  <2> QED BY <1>2, <1>4, <1>5, <2>2, <2>3, <2>5
<1>6. CASE ~(q < DirEntries)
  <2>1. DirEntries * ENTRIES <= q * ENTRIES
    BY <1>1, <1>2, <1>6, Monotone
  <2>2. q * ENTRIES \in Nat /\ DirEntries * ENTRIES \in Nat
    BY <1>1, <1>2
  <2> QED BY <1>1, <1>2, <1>4, <1>6, <2>1, <2>2
<1> QED BY <1>5, <1>6

LEMMA MapIsRight == ASSUME IInv PROVE MapRight
<1> SUFFICES ASSUME mode = "on" PROVE MapRight
  BY DEF MapRight
<1>1. Tables /\ TypeOK /\ live \in SUBSET Nat /\ Low
  BY DEF IInv, MemInv
<1>2. /\ CELL_BITS \in Nat \ {0} /\ HeaderCells \in Nat \ {0} /\ FirstPage \in Nat
      /\ ENTRIES \in Nat /\ DirEntries \in Nat
  BY Numbers
<1>3. HeaderCells * CELL_BITS \in Nat /\ HeaderCells * CELL_BITS > 0
  BY <1>2
<1>4. DirEntries * ENTRIES > 0
  BY <1>2, <1>3, MappedAssumption
<1>5. ENTRIES > 0
  BY <1>2, <1>4
<1>6. \A v \in 0..((DirEntries + 1) * ENTRIES - 1) :
          Translate(v) = IF v < DirEntries * ENTRIES THEN v ELSE -1
  BY <1>1, <1>5, TranslateIs
<1>7. ASSUME peak <= Spare, NEW page \in live
      PROVE  Translate(FirstPage + page) = FirstPage + page
  <2>1. page \in Nat /\ Cell(page) < HeaderCells
    BY <1>1, <1>7 DEF Low
  <2>2. /\ Cell(page) \in Nat /\ Bit(page) \in 0..(CELL_BITS - 1)
        /\ page = Cell(page) * CELL_BITS + Bit(page)
    BY <2>1, OfPage, Zenon DEF Page, Bits
  <2>3. (Cell(page) + 1) * CELL_BITS <= HeaderCells * CELL_BITS
    BY <1>2, <2>1, <2>2, Monotone
  <2>4. (Cell(page) + 1) * CELL_BITS = Cell(page) * CELL_BITS + CELL_BITS
        /\ Cell(page) * CELL_BITS \in Nat
    BY <1>2, <2>2
  <2>5. page < HeaderCells * CELL_BITS
    BY <1>2, <1>3, <2>2, <2>3, <2>4
  <2>6. FirstPage + page < DirEntries * ENTRIES /\ FirstPage + page \in Nat
    BY <1>2, <1>3, <2>1, <2>5, MappedAssumption
  <2> QED BY <1>1, <1>5, <2>6, TranslateIs
<1> QED BY <1>6, <1>7 DEF MapRight

LEMMA NoneTwice == ASSUME IInv PROVE NoPageTwice
<1>1. TypeOK /\ live \in SUBSET Nat /\ Cleared /\ Shaped
  BY DEF IInv, MemInv, TypeOK, Shaped
<1>2. \A page \in live : page \notin FreePages
  BY <1>1, FreePagesAre DEF Cleared
<1> QED BY <1>2 DEF NoPageTwice
------------------------------------------------------------------------------
(* memory_alloc_page never hands a page out again before it is freed,      *)
(* whatever the bitmap holds when mem_init leaves it as it is.             *)
THEOREM NoPageTwiceTheorem == Spec => []NoPageTwice
BY Invariance, NoneTwice, PTL

(* pages_free counts the pages that are not handed out, modulo the word.   *)
THEOREM CountTheorem == Spec => []CountExact
<1>1. IInv => CountExact
  BY DEF IInv, MemInv, Counted
<1> QED BY <1>1, Invariance, PTL

(* The bitmap spares the kernel's code while no more pages are in use than *)
(* the multiboot header has bits.                                          *)
THEOREM CodeTheorem == Spec => []CodeIntact
<1>1. IInv => CodeIntact
  BY DEF IInv, MemInv
<1> QED BY <1>1, Invariance, PTL

(* Once paging is on, what the tables map is mapped to itself, the access  *)
(* after it faults, and within the budget every page handed out is mapped. *)
THEOREM MapTheorem == Spec => []MapRight
BY Invariance, MapIsRight, PTL

(* The page allocator and the tables keep their types.                     *)
THEOREM TypeTheorem == Spec => []TypeOK
<1>1. IInv => TypeOK
  BY DEF IInv, MemInv
<1> QED BY <1>1, Invariance, PTL
----------------------------------------------------------------------------

Chip == [irr : SUBSET Pin, isr : SUBSET Pin, imr : SUBSET Pin]
Pics == [0..1 -> Chip]

LEMMA PinNumbers ==
    /\ Pins \in Nat /\ Pins > 2 /\ {0, 1, 2} \subseteq Pin /\ Pin \subseteq Nat
    /\ \A q \in Irq : q \in Nat /\ q % Pins \in Pin /\ ChipOf(q) \in 0..1
    /\ \A q \in Irq : q >= Pins => q - Pins \in Pin /\ q \notin Pin
    /\ \A q \in Irq : q < Pins <=> q \in Pin
BY PicAssumption DEF Pin, Irq, ChipOf

(* The registers of a controller after each kind of access.                *)
LEMMA ChipIs ==
    ASSUME NEW chip \in Chip, NEW l \in Pin, NEW lines \in SUBSET Pin
    PROVE  /\ Requested(chip, l) = [irr |-> chip.irr \cup {l}, isr |-> chip.isr, imr |-> chip.imr]
           /\ Ended(chip, l) = [irr |-> chip.irr, isr |-> chip.isr \ {l}, imr |-> chip.imr]
           /\ SetMask(chip, lines) = [irr |-> chip.irr, isr |-> chip.isr, imr |-> lines]
           /\ {Requested(chip, l), Ended(chip, l), SetMask(chip, lines), InService(chip, l)} \subseteq Chip
<1>1. Requested(chip, l) = [irr |-> chip.irr \cup {l}, isr |-> chip.isr, imr |-> chip.imr]
  BY DEF Chip, Requested
<1>2. Ended(chip, l) = [irr |-> chip.irr, isr |-> chip.isr \ {l}, imr |-> chip.imr]
  BY DEF Chip, Ended
<1>3. SetMask(chip, lines) = [irr |-> chip.irr, isr |-> chip.isr, imr |-> lines]
  BY DEF Chip, SetMask
<1> QED BY <1>1, <1>2, <1>3 DEF Chip, InService

(* Accesses that leave the registers of service alone.                     *)
Quiet(p, r) ==
    /\ r \in Pics
    /\ \A c \in 0..1 : r[c].isr = p[c].isr /\ r[c].irr = p[c].irr

LEMMA LatchIs ==
    ASSUME NEW p \in Pics, NEW q \in Irq
    PROVE  /\ Latch(p, q) \in Pics
           /\ \A c \in 0..1 : /\ Latch(p, q)[c].isr = p[c].isr /\ Latch(p, q)[c].imr = p[c].imr
                              /\ Latch(p, q)[c].irr = p[c].irr \cup (IF c = ChipOf(q) THEN {q % Pins} ELSE {})
<1> DEFINE k == ChipOf(q)
<1>1. k \in 0..1 /\ p[k] \in Chip /\ q % Pins \in Pin
  BY PinNumbers DEF Pics
<1>2. Latch(p, q) = [p EXCEPT ![k] = [irr |-> p[k].irr \cup {q % Pins}, isr |-> p[k].isr, imr |-> p[k].imr]]
  BY <1>1, ChipIs DEF Latch, Pics
<1>3. [irr |-> p[k].irr \cup {q % Pins}, isr |-> p[k].isr, imr |-> p[k].imr] \in Chip
  BY <1>1 DEF Chip
<1> QED BY <1>1, <1>2, <1>3 DEF Pics

LEMMA EnableIs ==
    ASSUME NEW p \in Pics, NEW q \in Irq
    PROVE  /\ Quiet(p, irq_enable(p, q)) /\ irq_enable(p, q)[1].imr = p[1].imr
           /\ p[0].imr \ irq_enable(p, q)[0].imr \subseteq {q, Cascade}
<1>0. p[0] \in Chip /\ p[1] \in Chip /\ Cascade \in Pin
  BY PinNumbers DEF Pics, Cascade
<1>1. CASE q < Pins
  <2> DEFINE s == p[0].imr \ {q}
  <2>1. s \in SUBSET Pin /\ q \in Pin
    BY <1>0, <1>1, PinNumbers DEF Chip
  <2>2. irq_enable(p, q) = [p EXCEPT ![0] = [irr |-> p[0].irr, isr |-> p[0].isr, imr |-> s]]
    BY <1>0, <1>1, <2>1, ChipIs DEF irq_enable, Unmasked, Pics
  <2>3. [irr |-> p[0].irr, isr |-> p[0].isr, imr |-> s] \in Chip
    BY <1>0, <2>1 DEF Chip
  <2> QED BY <2>2, <2>3 DEF Pics, Quiet
<1>2. CASE ~(q < Pins)
  <2> DEFINE s == p[0].imr \ {Cascade}
             new == [irr |-> p[0].irr, isr |-> p[0].isr, imr |-> s]
  <2>1. s \in SUBSET Pin /\ q \notin Pin /\ p[1].imr \in SUBSET Pin
    BY <1>0, <1>2, PinNumbers DEF Chip
  <2>2. Unmasked(p[0], Cascade) = new /\ new \in Chip
    <3>1. new \in Chip
      BY <1>0, <2>1 DEF Chip
    <3>2. SetMask(p[0], s) = new
      BY <1>0, <2>1, ChipIs
    <3> QED BY <3>1, <3>2 DEF Unmasked
  <2>3. p[1].imr \ {q} = p[1].imr
    BY <2>1
  <2>4. Unmasked(p[1], q) = [irr |-> p[1].irr, isr |-> p[1].isr, imr |-> p[1].imr]
    BY <1>0, <2>1, <2>3, ChipIs DEF Unmasked
  <2>5. Unmasked(p[1], q) = p[1]
    BY <1>0, <2>4 DEF Chip
  <2> HIDE DEF new
  <2>6. irq_enable(p, q) \in Pics /\ irq_enable(p, q)[0] = new /\ irq_enable(p, q)[1] = p[1]
    <3>1. irq_enable(p, q) = [p EXCEPT ![1] = Unmasked(p[1], q), ![0] = Unmasked(p[0], Cascade)]
      BY <1>2 DEF irq_enable
    <3>2. irq_enable(p, q) = [p EXCEPT ![1] = p[1], ![0] = new]
      BY <2>2, <2>5, <3>1
    <3> QED BY <1>0, <2>2, <3>2 DEF Pics
  <2> QED BY <1>0, <2>2, <2>6 DEF Pics, Quiet, new
<1> QED BY <1>1, <1>2

LEMMA AcknowledgeIs ==
    ASSUME NEW p \in Pics, NEW q \in Irq
    PROVE  /\ pic_acknowledge(p, q) \in Pics
           /\ \A c \in 0..1 : /\ pic_acknowledge(p, q)[c].isr \subseteq p[c].isr
                              /\ pic_acknowledge(p, q)[c].irr = p[c].irr
                              /\ pic_acknowledge(p, q)[c].imr = p[c].imr
<1>0. p[0] \in Chip /\ p[1] \in Chip /\ Cascade \in Pin
  BY PinNumbers DEF Pics, Cascade
<1>1. \A c \in 0..1, l \in Pin : /\ Ended(p[c], l) \in Chip /\ Ended(p[c], l).isr \subseteq p[c].isr
                                 /\ Ended(p[c], l).irr = p[c].irr /\ Ended(p[c], l).imr = p[c].imr
  BY ChipIs DEF Pics
<1>2. CASE q < Pins
  <2>1. pic_acknowledge(p, q) = [p EXCEPT ![0] = Ended(p[0], q)] /\ q \in Pin
    BY <1>2, PinNumbers DEF pic_acknowledge
  <2> QED BY <1>0, <1>1, <2>1 DEF Pics
<1>3. CASE ~(q < Pins)
  <2>1. /\ pic_acknowledge(p, q) = [p EXCEPT ![1] = Ended(p[1], q - Pins), ![0] = Ended(p[0], Cascade)]
        /\ q - Pins \in Pin
    BY <1>3, PinNumbers DEF pic_acknowledge
  <2>2. Ended(p[1], q - Pins) \in Chip /\ Ended(p[0], Cascade) \in Chip
    BY <1>0, <1>1, <2>1
  <2>3. /\ pic_acknowledge(p, q) \in Pics /\ pic_acknowledge(p, q)[0] = Ended(p[0], Cascade)
        /\ pic_acknowledge(p, q)[1] = Ended(p[1], q - Pins)
    BY <2>1, <2>2 DEF Pics
  <2> QED BY <1>0, <1>1, <2>1, <2>3
<1> QED BY <1>2, <1>3

LEMMA DisableIs ==
    ASSUME NEW p \in Pics, NEW q \in Irq
    PROVE  /\ Quiet(p, pic_disable(p, q))
           /\ \A c \in 0..1 : p[c].imr \subseteq pic_disable(p, q)[c].imr
<1> DEFINE k == ChipOf(q)
           s == p[k].imr \cup ({q} \cap Pin)
           new == SetMask(p[k], s)
<1>1. k \in 0..1 /\ p[k] \in Chip
  BY PinNumbers DEF Pics
<1>2. s \in SUBSET Pin
  BY <1>1 DEF Chip
<1>3. new \in Chip /\ new = [irr |-> p[k].irr, isr |-> p[k].isr, imr |-> s]
  BY <1>1, <1>2, ChipIs, PinNumbers
<1>4. pic_disable(p, q) = [p EXCEPT ![k] = new]
  BY DEF pic_disable
<1>5. new.irr = p[k].irr /\ new.isr = p[k].isr /\ p[k].imr \subseteq new.imr
  BY <1>3
<1> HIDE DEF new, s, k
<1> QED BY <1>1, <1>3, <1>4, <1>5 DEF Pics, Quiet

LEMMA MaskIs ==
    ASSUME NEW p \in Pics, NEW c \in 0..1
    PROVE  /\ Quiet(p, pic_mask(p, c))
           /\ c = 1 => pic_mask(p, c)[1].imr = Pin /\ pic_mask(p, c)[0].imr = p[0].imr
           /\ c = 0 => pic_mask(p, c)[0].imr = Pin \ {Cascade}
<1> DEFINE s == IF c = 0 THEN Pin \ {Cascade} ELSE Pin
           new == SetMask(p[c], s)
<1>1. p[c] \in Chip /\ s \in SUBSET Pin
  BY DEF Pics
<1>2. new \in Chip /\ new = [irr |-> p[c].irr, isr |-> p[c].isr, imr |-> s]
  BY <1>1, ChipIs, PinNumbers
<1>3. pic_mask(p, c) = [p EXCEPT ![c] = new]
  BY DEF pic_mask
<1>4. new.irr = p[c].irr /\ new.isr = p[c].isr /\ new.imr = s
  BY <1>2
<1> HIDE DEF new
<1> QED BY <1>1, <1>2, <1>3, <1>4 DEF Pics, Quiet

LEMMA InitialisedIs == Initialised \in Chip
BY DEF Initialised, Chip
------------------------------------------------------------------------------
(* Nothing hangs on the pin of the first controller where the second does. *)
Wired(p) == p \in Pics /\ Cascade \notin p[0].irr

(* The line the processor is told of waits at its controller, and is more  *)
(* urgent than what is in service.                                         *)
LEMMA VectorIs ==
    ASSUME NEW p, Wired(p), Pending(p) # {}
    PROVE  /\ Vector(p) \in Irq
           /\ Vector(p) < Pins => /\ Vector(p) \in Pin \ {Cascade} /\ Vector(p) \notin p[0].imr
                                  /\ \A s \in p[0].isr : Vector(p) < s
           /\ ~(Vector(p) < Pins) => /\ Vector(p) - Pins \in Open(p[1]) /\ Vector(p) - Pins \in Pin
                                     /\ \A s \in p[0].isr : Cascade < s
<1> DEFINE l == Min(Pending(p))
           m == Min(Open(p[1]))
<1>0. p[0] \in Chip /\ p[1] \in Chip /\ Cascade \in Pin /\ Cascade \notin p[0].irr
  BY PinNumbers DEF Wired, Pics, Cascade
<1>1. Open(p[1]) \in SUBSET Pin
  BY <1>0 DEF Open, Chip
<1>2. /\ Wires(p) \in Chip /\ Wires(p).isr = p[0].isr /\ Wires(p).imr = p[0].imr
      /\ Wires(p).irr = p[0].irr \cup (IF Open(p[1]) = {} THEN {} ELSE {Cascade})
  <2>1. CASE Open(p[1]) = {}
    BY <1>0, <2>1 DEF Wires
  <2>2. CASE Open(p[1]) # {}
    <3>1. /\ Requested(p[0], Cascade) \in Chip
          /\ Requested(p[0], Cascade) = [irr |-> p[0].irr \cup {Cascade}, isr |-> p[0].isr, imr |-> p[0].imr]
      BY <1>0, ChipIs
    <3> QED BY <2>2, <3>1 DEF Wires
  <2> QED BY <2>1, <2>2
<1>3. Pending(p) \in SUBSET Nat /\ Pending(p) \in SUBSET Pin
  BY <1>2, PinNumbers DEF Pending, Open, Chip
<1>4. l \in Pending(p)
  BY <1>3, MinIs
<1>5. l \in Wires(p).irr /\ l \in Pin /\ l \notin p[0].imr /\ \A s \in p[0].isr : l < s
  BY <1>2, <1>3, <1>4 DEF Pending, Open
<1> HIDE DEF l
<1>6. CASE l = Cascade
  <2>1. Open(p[1]) # {} /\ Open(p[1]) \in SUBSET Nat
    BY <1>0, <1>1, <1>2, <1>5, <1>6, PinNumbers
  <2>2. m \in Open(p[1]) /\ m \in Pin
    BY <1>1, <2>1, MinIs
  <2>3. Vector(p) = Pins + m
    BY <1>6 DEF Vector, l
  <2> HIDE DEF m
  <2>4. m \in 0..(Pins - 1) /\ Pins \in Nat
    BY <2>2, PinNumbers DEF Pin
  <2>5. Vector(p) \in Irq /\ ~(Vector(p) < Pins) /\ Vector(p) - Pins = m
    BY <2>3, <2>4 DEF Irq
  <2> QED BY <1>5, <1>6, <2>2, <2>5
<1>7. CASE l # Cascade
  <2>1. Vector(p) = l
    BY <1>7 DEF Vector, l
  <2>2. l \in 0..(Pins - 1) /\ Pins \in Nat
    BY <1>5, PinNumbers DEF Pin
  <2>3. Vector(p) \in Irq /\ Vector(p) < Pins
    BY <2>1, <2>2 DEF Irq
  <2> QED BY <1>5, <1>7, <2>1, <2>3
<1> QED BY <1>6, <1>7

LEMMA AcceptIs ==
    ASSUME NEW p, Wired(p), Pending(p) # {}
    PROVE  /\ Wired(Accept(p))
           /\ \A c \in 0..1 : Accept(p)[c].imr = p[c].imr
           /\ Vector(p) < Pins => /\ Accept(p)[0].isr = p[0].isr \cup {Vector(p)}
                                  /\ Accept(p)[1].isr = p[1].isr
           /\ ~(Vector(p) < Pins) => /\ Accept(p)[0].isr = p[0].isr \cup {Cascade}
                                     /\ Accept(p)[1].isr = p[1].isr \cup {Vector(p) - Pins}
<1> DEFINE v == Vector(p)
           S(c, l) == InService(p[c], l)
<1>0. p \in Pics /\ p[0] \in Chip /\ p[1] \in Chip /\ Cascade \in Pin /\ Cascade \notin p[0].irr
  BY PinNumbers DEF Wired, Pics, Cascade
<1>1. \A c \in 0..1, l \in Pin : /\ S(c, l) \in Chip /\ S(c, l).irr \subseteq p[c].irr
                                 /\ S(c, l).isr = p[c].isr \cup {l} /\ S(c, l).imr = p[c].imr
  BY <1>0 DEF InService, Chip, Pics
<1>2. CASE v < Pins
  <2>1. Accept(p) = [p EXCEPT ![0] = S(0, v)] /\ v \in Pin
    BY <1>2, VectorIs DEF Accept
  <2> HIDE DEF S, v
  <2>2. Accept(p) \in Pics /\ Accept(p)[0] = S(0, v) /\ Accept(p)[1] = p[1]
    BY <1>0, <1>1, <2>1 DEF Pics
  <2> QED BY <1>0, <1>1, <1>2, <2>1, <2>2 DEF Wired, v
<1>3. CASE ~(v < Pins)
  <2>1. Accept(p) = [p EXCEPT ![0] = S(0, Cascade), ![1] = S(1, v - Pins)] /\ v - Pins \in Pin
    BY <1>3, VectorIs DEF Accept
  <2> HIDE DEF S, v
  <2>2. S(0, Cascade) \in Chip /\ S(1, v - Pins) \in Chip
    BY <1>0, <1>1, <2>1
  <2>3. Accept(p) \in Pics /\ Accept(p)[0] = S(0, Cascade) /\ Accept(p)[1] = S(1, v - Pins)
    BY <1>0, <2>1, <2>2 DEF Pics
  <2>4. /\ S(0, Cascade).irr \subseteq p[0].irr /\ S(0, Cascade).isr = p[0].isr \cup {Cascade}
        /\ S(0, Cascade).imr = p[0].imr /\ S(1, v - Pins).isr = p[1].isr \cup {v - Pins}
        /\ S(1, v - Pins).imr = p[1].imr
    BY <1>0, <1>1, <2>1
  <2>5. Wired(Accept(p)) /\ \A c \in 0..1 : Accept(p)[c].imr = p[c].imr
    BY <1>0, <2>3, <2>4 DEF Wired
  <2> QED BY <1>3, <2>3, <2>4, <2>5 DEF v
<1> QED BY <1>2, <1>3

(* The end of interrupt ends the most urgent line in service.              *)
Serving(chip, s, l) ==
    /\ chip \in Chip /\ s \in SUBSET Pin /\ l \in Pin
    /\ chip.isr = s \cup {l} /\ \A t \in s : l < t

LEMMA EndIs ==
    ASSUME NEW chip, NEW s, NEW l, Serving(chip, s, l)
    PROVE  /\ EndOfInterrupt(chip) \in Chip /\ EndOfInterrupt(chip).isr = s
           /\ EndOfInterrupt(chip).irr = chip.irr /\ EndOfInterrupt(chip).imr = chip.imr
<1>0. /\ chip \in Chip /\ s \in SUBSET Pin /\ l \in Pin
      /\ chip.isr = s \cup {l} /\ \A t \in s : l < t
  BY DEF Serving
<1>1. chip.isr \in SUBSET Nat /\ chip.isr # {} /\ Pin \subseteq Nat
  BY <1>0, PinNumbers
<1>2. Min(chip.isr) \in chip.isr /\ \A k \in chip.isr : Min(chip.isr) <= k
  BY <1>1, MinIs
<1> DEFINE m == Min(chip.isr)
<1> HIDE DEF m
<1>3. m = l
  <2>1. m \in s \cup {l} /\ m <= l /\ m \in Nat /\ l \in Nat
    BY <1>0, <1>1, <1>2 DEF m
  <2>2. m \in s => l < m
    BY <1>0
  <2> QED BY <2>1, <2>2
<1>4. EndOfInterrupt(chip) = Ended(chip, l)
  BY <1>1, <1>3 DEF EndOfInterrupt, m
<1>5. l \notin s
  BY <1>0, <1>1
<1>6. chip.isr \ {l} = s
  BY <1>0, <1>5
<1>7. {} \in SUBSET Pin
  OBVIOUS
<1>8. /\ Ended(chip, l) = [irr |-> chip.irr, isr |-> chip.isr \ {l}, imr |-> chip.imr]
      /\ Ended(chip, l) \in Chip
  BY <1>0, <1>7, ChipIs
<1> QED BY <1>4, <1>6, <1>8

(* irq_handler ends what was accepted, on both controllers if it came from *)
(* the second.                                                             *)
LEMMA ServedIs ==
    ASSUME NEW p, Wired(p), Pending(p) # {}, p[1].isr = {}
    PROVE  LET r == Acknowledged(Accept(p), Vector(p))
           IN  Wired(r) /\ \A c \in 0..1 : r[c].isr = p[c].isr /\ r[c].imr = p[c].imr
<1> DEFINE a == Accept(p)
           v == Vector(p)
           r == Acknowledged(a, v)
           E(c) == EndOfInterrupt(a[c])
<1>0. /\ p[0] \in Chip /\ p[0].isr \in SUBSET Pin /\ Cascade \in Pin /\ Pins \in Nat
      /\ v \in Nat
  BY PinNumbers, VectorIs DEF Wired, Pics, Chip, Cascade
<1>1. /\ a \in Pics /\ a[0] \in Chip /\ a[1] \in Chip /\ Cascade \notin a[0].irr
      /\ \A c \in 0..1 : a[c].imr = p[c].imr
  BY AcceptIs DEF Wired, Pics
<1>2. CASE v < Pins
  <2>1. a[0].isr = p[0].isr \cup {v} /\ a[1].isr = {} /\ v \in Pin /\ \A s \in p[0].isr : v < s
    BY <1>2, AcceptIs, VectorIs
  <2>2. /\ E(0) \in Chip /\ E(0).isr = p[0].isr /\ E(0).irr = a[0].irr /\ E(0).imr = a[0].imr
    <3> HIDE DEF a, v
    <3>1. Serving(a[0], p[0].isr, v)
      BY <1>0, <1>1, <2>1 DEF Serving
    <3> QED BY <3>1, EndIs
  <2>3. r = [c \in 0..1 |-> IF c = 0 THEN E(0) ELSE a[1]]
    BY <1>0, <1>2 DEF Acknowledged
  <2> HIDE DEF a, v, r, E
  <2>4. r \in Pics /\ r[0] = E(0) /\ r[1] = a[1]
    BY <1>1, <2>2, <2>3 DEF Pics
  <2>5. Wired(r) /\ \A c \in 0..1 : r[c].isr = p[c].isr /\ r[c].imr = p[c].imr
    <3>1. \A c \in 0..1 : c = 0 \/ c = 1
      OBVIOUS
    <3>2. a[0].imr = p[0].imr /\ a[1].imr = p[1].imr
      BY <1>1
    <3> QED BY <1>1, <2>1, <2>2, <2>4, <3>1, <3>2 DEF Wired
  <2> QED BY <2>5 DEF a, v, r
<1>3. CASE ~(v < Pins)
  <2>1. /\ a[0].isr = p[0].isr \cup {Cascade} /\ a[1].isr = {} \cup {v - Pins} /\ v - Pins \in Pin
        /\ \A s \in p[0].isr : Cascade < s
    BY <1>3, AcceptIs, VectorIs
  <2>2. /\ E(0) \in Chip /\ E(0).isr = p[0].isr /\ E(0).irr = a[0].irr /\ E(0).imr = a[0].imr
    <3> HIDE DEF a, v
    <3>1. Serving(a[0], p[0].isr, Cascade)
      BY <1>0, <1>1, <2>1 DEF Serving
    <3> QED BY <3>1, EndIs
  <2>3. /\ E(1) \in Chip /\ E(1).isr = {} /\ E(1).irr = a[1].irr /\ E(1).imr = a[1].imr
    <3> HIDE DEF a, v
    <3>1. Serving(a[1], {}, v - Pins)
      BY <1>1, <2>1 DEF Serving
    <3> QED BY <3>1, EndIs
  <2>4. r = [c \in 0..1 |-> E(c)]
    BY <1>0, <1>3 DEF Acknowledged
  <2> HIDE DEF a, v, r, E
  <2>5. r \in Pics /\ r[0] = E(0) /\ r[1] = E(1)
    BY <2>2, <2>3, <2>4 DEF Pics
  <2>6. Wired(r) /\ \A c \in 0..1 : r[c].isr = p[c].isr /\ r[c].imr = p[c].imr
    <3>1. \A c \in 0..1 : c = 0 \/ c = 1
      OBVIOUS
    <3>2. a[0].imr = p[0].imr /\ a[1].imr = p[1].imr
      BY <1>1
    <3> QED BY <1>1, <2>2, <2>3, <2>5, <3>1, <3>2 DEF Wired
  <2> QED BY <2>6 DEF a, v, r
<1> QED BY <1>2, <1>3
------------------------------------------------------------------------------
(* Where the masks have been written, and where boot has ended.            *)
Armed == {"disable", "clock", "paging", "test", "ata", "probe", "keyboard", "main", "wait"}
Over == {"exit", "panic"}

(* The first controller has been masked, line by line opened with a        *)
(* handler; the second one's mask stays closed, since irq_enable shifts    *)
(* the bit out of its byte.                                                *)
Masked == {"pic1", "mask1"} \cup Armed
Shut == \A l \in Pin \ {Cascade} : l \in pic[0].imr \/ irq_routines[l] # "none"
Attended ==
    /\ irq_routines[0] = "clock" => Shut /\ pic[1].imr = Pin
    /\ stage \in Armed => pic[1].imr = Pin
    /\ stage \in Masked => Shut
    /\ stage \notin Armed \cup Over => irq_routines[0] # "clock"

IrqInv ==
    /\ Wired(pic) /\ NoLineStuck /\ Attended
    /\ irq_routines = [q \in Irq |-> irq_routines[q]]

LEMMA BootLines ==
    /\ {ATA_IRQ0, ATA_IRQ1} \subseteq Irq /\ {ATA_IRQ0, ATA_IRQ1} \cap Pin = {}
    /\ {0, 1} \subseteq Irq
    /\ \A q \in {0} \cup Others : q \in Irq /\ q # Cascade
BY BootAssumption, PinNumbers DEF Irq, Cascade

LEMMA InitIrq == BootInit => IrqInv
<1> SUFFICES ASSUME BootInit PROVE IrqInv
  OBVIOUS
<1>1. /\ pic = PicInit /\ irq_routines = [q \in Irq |-> "none"]
      /\ stage = "memory"
  BY DEF BootInit
<1>2. [irr |-> {}, isr |-> {}, imr |-> {}] \in Chip
  BY DEF Chip
<1>3. Wired(pic) /\ NoLineStuck
  BY <1>1, <1>2 DEF PicInit, Wired, Pics, NoLineStuck
<1>4. Attended
  BY <1>1, BootLines DEF Attended, Armed, Masked
<1> QED BY <1>1, <1>3, <1>4 DEF IrqInv

(* What a step has to leave as it is.                                      *)
LEMMA KeepIrq ==
    ASSUME IrqInv, Wired(pic'), \A c \in 0..1 : pic'[c].isr \subseteq pic[c].isr,
           stage \in Over => stage' \in Over, Attended',
           irq_routines' = [q \in Irq |-> irq_routines'[q]]
    PROVE  IrqInv'
<1>1. pic'[1].isr \subseteq pic[1].isr /\ pic'[0].isr \subseteq pic[0].isr
  OBVIOUS
<1>2. NoLineStuck'
  BY <1>1 DEF IrqInv, NoLineStuck, Over
<1> QED BY <1>2 DEF IrqInv

(* Boot goes on from stage to stage, or ends.                              *)
Onward ==
    /\ stage' \in Armed => stage \in Armed
    /\ stage' \in Masked => stage \in Masked
    /\ stage' \notin Armed \cup Over => stage \notin Armed \cup Over
    /\ stage \in Over => stage' \in Over

(* Steps that do not touch the controllers or the handlers.                *)
LEMMA SameIrq ==
    ASSUME IrqInv, UNCHANGED <<pic, irq_routines>>, Onward
    PROVE  IrqInv'
<1>1. Wired(pic') /\ Attended'
  BY DEF IrqInv, Attended, Shut, Onward
<1> QED BY <1>1, KeepIrq DEF IrqInv, Onward

(* Steps that access the controllers but open no line.                     *)
LEMMA PicOnly ==
    ASSUME IrqInv, Wired(pic'), \A c \in 0..1 : pic'[c].isr \subseteq pic[c].isr,
           UNCHANGED irq_routines,
           pic[0].imr \subseteq pic'[0].imr, pic'[1].imr = pic[1].imr, Onward
    PROVE  IrqInv'
<1>1. Shut => Shut'
  BY DEF Shut
<1>2. Attended'
  BY <1>1 DEF IrqInv, Attended, Onward
<1> QED BY <1>2, KeepIrq DEF IrqInv, Onward

(* Steps that write the masks, before the clock's handler is there.        *)
LEMMA PicEarly ==
    ASSUME IrqInv, Wired(pic'), \A c \in 0..1 : pic'[c].isr \subseteq pic[c].isr,
           UNCHANGED irq_routines,
           stage \notin Armed \cup Over, stage' \notin Over, stage' \in Armed => pic'[1].imr = Pin,
           stage' \in Masked => Shut'
    PROVE  IrqInv'
<1>1. Attended'
  BY DEF IrqInv, Attended
<1> QED BY <1>1, KeepIrq DEF IrqInv

(* irq_install_handler with irq_enable.                                    *)
LEMMA InstallIrq ==
    ASSUME IrqInv, NEW from \in Armed, NEW to \in Armed, NEW lines \in SUBSET Irq, NEW handler,
           NEW controllers, Install(from, to, lines, handler, controllers),
           Quiet(pic, controllers), controllers[1].imr = pic[1].imr,
           pic[0].imr \ controllers[0].imr \subseteq lines \cup {Cascade}, handler # "none"
    PROVE  IrqInv'
<1>1. /\ stage = from /\ stage' = to /\ pic' = controllers
      /\ irq_routines' = [q \in Irq |-> IF q \in lines THEN handler ELSE irq_routines[q]]
  BY DEF Install, At
<1>2. Wired(pic') /\ \A c \in 0..1 : pic'[c].isr \subseteq pic[c].isr
  BY <1>1 DEF Quiet, Wired, IrqInv
<1>3. \A q \in Irq : irq_routines'[q] = IF q \in lines THEN handler ELSE irq_routines[q]
  BY <1>1
<1>4. stage \in Armed /\ stage' \in Armed /\ stage \notin Over
  BY <1>1 DEF Armed, Over
<1>5. Attended'
  <2>1. pic'[1].imr = Pin /\ Shut
    BY <1>1, <1>4 DEF IrqInv, Attended, Masked
  <2>2. Pin \subseteq Irq
    BY PicAssumption DEF Pin, Irq
  <2>3. Shut'
    <3> SUFFICES ASSUME NEW l \in Pin \ {Cascade}, l \notin controllers[0].imr
                 PROVE  irq_routines'[l] # "none"
      BY <1>1 DEF Shut
    <3>1. CASE l \in lines
      BY <1>3, <2>2, <3>1
    <3>2. CASE l \notin lines
      <4>1. l \in pic[0].imr \/ irq_routines[l] # "none"
        BY <2>1 DEF Shut
      <4>2. l \notin pic[0].imr
        BY <3>2
      <4> QED BY <1>3, <2>2, <3>2, <4>1, <4>2
    <3> QED BY <3>1, <3>2
  <2> QED BY <1>4, <2>1, <2>3 DEF Attended
<1>6. irq_routines' = [q \in Irq |-> irq_routines'[q]]
  BY <1>1
<1> QED BY <1>1, <1>2, <1>4, <1>5, <1>6, KeepIrq

(* An edge on a line other than the cascade's leaves the wiring alone.     *)
LEMMA LatchWired ==
    ASSUME NEW p, Wired(p), NEW q \in Irq, q # Cascade
    PROVE  Wired(Latch(p, q)) /\ \A c \in 0..1 : /\ Latch(p, q)[c].isr \subseteq p[c].isr
                                                  /\ Latch(p, q)[c].imr = p[c].imr
<1>1. p \in Pics /\ Cascade \notin p[0].irr
  BY DEF Wired
<1>2. ChipOf(q) = 0 => q % Pins = q
  BY PinNumbers DEF ChipOf
<1>3. /\ Latch(p, q) \in Pics
      /\ \A c \in 0..1 : /\ Latch(p, q)[c].isr = p[c].isr /\ Latch(p, q)[c].imr = p[c].imr
                         /\ Latch(p, q)[c].irr = p[c].irr \cup (IF c = ChipOf(q) THEN {q % Pins} ELSE {})
  BY <1>1, LatchIs
<1>4. Latch(p, q)[0].irr = p[0].irr \cup (IF 0 = ChipOf(q) THEN {q % Pins} ELSE {})
  BY <1>3
<1>5. Cascade \notin Latch(p, q)[0].irr
  BY <1>1, <1>2, <1>4
<1> QED BY <1>3, <1>5 DEF Wired

LEMMA InterruptIrq == ASSUME IrqInv, NEW q \in Irq, Interrupt(q) PROVE IrqInv'
<1>1. /\ Pending(pic) # {} /\ q = Vector(pic) /\ pic' = Acknowledged(Accept(pic), Vector(pic))
      /\ irq_routines' = irq_routines /\ stage' = stage
  BY DEF Interrupt
<1>2. Wired(pic) /\ pic[1].isr = {}
  BY DEF IrqInv, NoLineStuck
<1>3. Wired(pic') /\ \A c \in 0..1 : pic'[c].isr = pic[c].isr /\ pic'[c].imr = pic[c].imr
  BY <1>1, <1>2, ServedIs
<1> QED BY <1>1, <1>3, PicOnly DEF Onward

LEMMA LastCommandIrq == ASSUME IrqInv, LastCommand PROVE IrqInv'
<1>1. /\ Pending(pic) # {} /\ Vector(pic) = 1 /\ pic' = Accept(pic)
      /\ UNCHANGED irq_routines /\ stage' \in Over
  BY DEF LastCommand, Over
<1>2. Wired(pic) /\ pic[1].isr = {} /\ Attended /\ pic[0].isr \subseteq {1}
  BY DEF IrqInv, NoLineStuck
<1>3. 1 < Pins
  BY PinNumbers
<1>4. /\ Wired(pic') /\ \A c \in 0..1 : pic'[c].imr = pic[c].imr
      /\ pic'[0].isr = pic[0].isr \cup {1} /\ pic'[1].isr = pic[1].isr
  BY <1>1, <1>2, <1>3, AcceptIs
<1>5. NoLineStuck'
  BY <1>1, <1>2, <1>4 DEF NoLineStuck, Over
<1>6. Attended'
  BY <1>1, <1>2, <1>4 DEF Attended, Shut, Masked, Armed, Over
<1> QED BY <1>1, <1>4, <1>5, <1>6 DEF IrqInv

LEMMA ProgramIrq ==
    ASSUME IrqInv, NEW from, NEW to, NEW controllers, Program(from, to, controllers)
    PROVE  /\ stage = from /\ stage' = to /\ pic' = controllers
           /\ UNCHANGED irq_routines
BY DEF Program, At

LEMMA MainIrq == ASSUME IrqInv, Main PROVE IrqInv'
<1> USE DEF At, Armed, Over, Masked, Onward, irqvars, devvars
<1>0. Wired(pic) /\ pic \in Pics /\ Cascade \notin pic[0].irr
  BY DEF IrqInv, Wired
<1>1. CASE Memory
  BY <1>1, SameIrq DEF Memory
<1>2. CASE PciScan \/ PciDone
  BY <1>2, SameIrq DEF PciScan, PciDone
<1>3. CASE EnableInterrupts
  BY <1>3, SameIrq DEF EnableInterrupts
<1>4. CASE RtcBegin \/ RtcWait \/ RtcRead \/ RtcConvert \/ RtcShown
  BY <1>4, SameIrq DEF RtcBegin, RtcWait, RtcRead, RtcConvert, RtcShown
<1>5. CASE paging_init \/ TestWrite \/ ata_probe \/ ProbesDone \/ kernel_main \/ OutOfMemory
  BY <1>5, SameIrq DEF paging_init, TestWrite, ata_probe, ProbesDone, kernel_main, OutOfMemory
<1>6. CASE IrqInstall
  <2>1. Wired(irq_remap) /\ \A c \in 0..1 : irq_remap[c].isr = {}
    BY InitialisedIs DEF Wired, Pics, irq_remap, Initialised
  <2>2. /\ pic' = irq_remap /\ stage = "idt" /\ stage' = "sti"
        /\ UNCHANGED irq_routines
    BY <1>6 DEF IrqInstall
  <2> QED BY <2>1, <2>2, PicEarly
<1>7. CASE timer_install
  <2>1. /\ stage = "timer" /\ stage' = "rtc" /\ pic' = pic
        /\ irq_routines' = [irq_routines EXCEPT ![0] = "timer"]
    BY <1>7 DEF timer_install
  <2>2. irq_routines' = [q \in Irq |-> IF q = 0 THEN "timer" ELSE irq_routines[q]]
    BY <2>1 DEF IrqInv
  <2>3. Attended'
    BY <2>1, <2>2, BootLines DEF IrqInv, Attended
  <2> QED BY <1>0, <2>1, <2>2, <2>3, KeepIrq
<1>8. ASSUME NEW c \in 0..1, NEW from, NEW to, Program(from, to, pic_init(pic, c)),
             \/ from = "pic0" /\ to = "mask0"
             \/ from = "pic1" /\ to = "mask1" /\ c = 1
      PROVE  IrqInv'
  <2>1. /\ stage = from /\ stage' = to /\ pic' = [pic EXCEPT ![c] = Initialised]
        /\ UNCHANGED irq_routines
    BY <1>8, ProgramIrq DEF pic_init
  <2>2. /\ Initialised \in Chip /\ Initialised.isr = {} /\ Initialised.irr = {}
    BY InitialisedIs DEF Initialised
  <2>3. Wired(pic') /\ \A k \in 0..1 : pic'[k].isr \subseteq pic[k].isr
    BY <1>0, <2>1, <2>2 DEF Wired, Pics
  <2>4. stage' \in Masked => Shut'
    <3>1. CASE from = "pic0" /\ to = "mask0"
      BY <2>1, <3>1
    <3>2. CASE from = "pic1" /\ c = 1
      <4>1. pic'[0] = pic[0]
        BY <1>0, <2>1, <3>2 DEF Pics
      <4> QED BY <2>1, <3>2, <4>1 DEF IrqInv, Attended, Shut
    <3> QED BY <1>8, <3>1, <3>2
  <2> QED BY <1>8, <2>1, <2>3, <2>4, PicEarly
<1>9. CASE PicMask0
  <2>1. /\ stage = "mask0" /\ stage' = "pic1" /\ pic' = pic_mask(pic, 0)
        /\ UNCHANGED irq_routines
    BY <1>9, ProgramIrq DEF PicMask0
  <2>2. Quiet(pic, pic') /\ pic'[0].imr = Pin \ {Cascade}
    BY <1>0, <2>1, MaskIs
  <2>3. Wired(pic') /\ \A k \in 0..1 : pic'[k].isr \subseteq pic[k].isr
    BY <1>0, <2>2 DEF Wired, Quiet
  <2>4. Shut'
    BY <2>2 DEF Shut
  <2> QED BY <2>1, <2>3, <2>4, PicEarly
<1>10. CASE PicMask1
  <2>1. /\ stage = "mask1" /\ stage' = "disable" /\ pic' = pic_mask(pic, 1)
        /\ UNCHANGED irq_routines
    BY <1>10, ProgramIrq DEF PicMask1
  <2>2. Quiet(pic, pic') /\ pic'[1].imr = Pin /\ pic'[0].imr = pic[0].imr
    BY <1>0, <2>1, MaskIs
  <2>3. Wired(pic') /\ \A k \in 0..1 : pic'[k].isr \subseteq pic[k].isr
    BY <1>0, <2>2 DEF Wired, Quiet
  <2>4. Shut'
    BY <2>1, <2>2 DEF IrqInv, Attended, Shut
  <2> QED BY <2>1, <2>2, <2>3, <2>4, PicEarly
<1>11. CASE PicDisable
  <2> DEFINE p == pic_disable(pic, i)
  <2>1. /\ stage = "disable" /\ i \in Irq /\ pic' = pic_acknowledge(p, i)
        /\ stage' \in {"disable", "clock"} /\ UNCHANGED irq_routines
    BY <1>11 DEF PicDisable
  <2>2. Quiet(pic, p) /\ pic[1].imr \subseteq p[1].imr /\ pic[0].imr \subseteq p[0].imr
    BY <1>0, <2>1, DisableIs
  <2> HIDE DEF p
  <2>3. pic[1].imr = Pin /\ p[1].imr \in SUBSET Pin /\ p \in Pics
    BY <2>1, <2>2 DEF Quiet, IrqInv, Attended, Pics, Chip
  <2>4. /\ pic' \in Pics
        /\ \A c \in 0..1 : pic'[c].isr \subseteq p[c].isr /\ pic'[c].irr = p[c].irr /\ pic'[c].imr = p[c].imr
    BY <2>1, <2>3, AcknowledgeIs
  <2>5. Wired(pic') /\ \A k \in 0..1 : pic'[k].isr \subseteq pic[k].isr
    BY <1>0, <2>2, <2>4 DEF Wired, Quiet
  <2>6. pic'[1].imr = pic[1].imr
    <3>1. pic'[1].imr = p[1].imr
      BY <2>4
    <3>2. p[1].imr = pic[1].imr
      BY <2>2, <2>3
    <3> QED BY <3>1, <3>2
  <2>7. pic[0].imr \subseteq pic'[0].imr
    BY <2>2, <2>4
  <2> QED BY <2>1, <2>5, <2>6, <2>7, PicOnly
<1>12. CASE clock_init
  <2>1. /\ Quiet(pic, irq_enable(pic, 0)) /\ irq_enable(pic, 0)[1].imr = pic[1].imr
        /\ pic[0].imr \ irq_enable(pic, 0)[0].imr \subseteq {0} \cup {Cascade}
        /\ {0} \in SUBSET Irq
    BY <1>0, EnableIs, BootLines
  <2> QED BY <1>12, <2>1, InstallIrq DEF clock_init
<1>13. CASE keyboard_install
  <2>1. /\ Quiet(pic, irq_enable(pic, 1)) /\ irq_enable(pic, 1)[1].imr = pic[1].imr
        /\ pic[0].imr \ irq_enable(pic, 1)[0].imr \subseteq {1} \cup {Cascade}
        /\ {1} \in SUBSET Irq
    BY <1>0, EnableIs, BootLines
  <2> QED BY <1>13, <2>1, InstallIrq DEF keyboard_install
<1>14. CASE ata_init
  <2> DEFINE p == irq_enable(pic, ATA_IRQ0)
             r == irq_enable(p, ATA_IRQ1)
  <2>1. /\ Quiet(pic, p) /\ p[1].imr = pic[1].imr /\ p \in Pics
        /\ pic[0].imr \ p[0].imr \subseteq {ATA_IRQ0, Cascade}
    BY <1>0, EnableIs, BootLines DEF Quiet
  <2>2. /\ Quiet(p, r) /\ r[1].imr = p[1].imr
        /\ p[0].imr \ r[0].imr \subseteq {ATA_IRQ1, Cascade}
    BY <2>1, EnableIs, BootLines
  <2>3. Install("ata", "probe", {ATA_IRQ0, ATA_IRQ1}, "ata", r)
    BY <1>14 DEF ata_init
  <2> HIDE DEF p, r
  <2>4. Quiet(pic, r) /\ r[1].imr = pic[1].imr
    BY <2>1, <2>2 DEF Quiet
  <2>5. {ATA_IRQ0, ATA_IRQ1} \in SUBSET Irq
        /\ pic[0].imr \ r[0].imr \subseteq {ATA_IRQ0, ATA_IRQ1} \cup {Cascade}
    BY <2>1, <2>2, BootLines
  <2> QED BY <2>3, <2>4, <2>5, InstallIrq
<1>15. CASE PicInit0
  BY <1>8, <1>15 DEF PicInit0
<1>16. CASE PicInit1
  BY <1>8, <1>16 DEF PicInit1
<1> QED BY <1>1, <1>2, <1>3, <1>4, <1>5, <1>6, <1>7, <1>9, <1>10, <1>11, <1>12, <1>13, <1>14,
           <1>15, <1>16 DEF Main

LEMMA NextIrq == ASSUME IrqInv, [BootNext]_allvars PROVE IrqInv'
<1>0. Wired(pic)
  BY DEF IrqInv
<1>1. CASE Main
  BY <1>1, MainIrq
<1>2. CASE Users \/ RtcFlag \/ RtcUpdate \/ UNCHANGED allvars
  BY <1>2, SameIrq DEF Users, RtcFlag, RtcUpdate, allvars, bootvars, irqvars, devvars, Onward
<1>3. ASSUME NEW q \in Irq, q # Cascade, pic' = Latch(pic, q), stage' = stage,
             UNCHANGED irq_routines
      PROVE  IrqInv'
  <2>1. /\ Wired(pic') /\ pic'[1].imr = pic[1].imr /\ pic'[0].imr = pic[0].imr
        /\ \A c \in 0..1 : pic'[c].isr \subseteq pic[c].isr
    BY <1>0, <1>3, LatchWired
  <2> QED BY <1>3, <2>1, PicOnly DEF Onward
<1>4. CASE Key
  BY <1>3, <1>4, BootLines DEF Key, Cascade
<1>5. ASSUME NEW q \in {0} \cup Others, Pulse(q) PROVE IrqInv'
  BY <1>3, <1>5, BootLines DEF Pulse, devvars
<1>6. CASE LastCommand
  BY <1>6, LastCommandIrq
<1>7. ASSUME NEW q \in Irq, Interrupt(q) PROVE IrqInv'
  BY <1>7, InterruptIrq
<1> QED BY <1>1, <1>2, <1>4, <1>5, <1>6, <1>7 DEF BootNext

LEMMA IrqInvariance == BootSpec => []IrqInv
BY InitIrq, NextIrq, PTL DEF BootSpec

(* Whatever interrupts between the steps of boot, irq_handler leaves no    *)
(* line in service that would keep later interrupts out.                   *)
THEOREM NoLineStuckTheorem == BootSpec => []NoLineStuck
<1>1. IrqInv => NoLineStuck
  BY DEF IrqInv
<1> QED BY <1>1, IrqInvariance, PTL

(* From clock_init on an interrupt that reaches irq_handler finds its      *)
(* handler, whatever was latched behind the masks before.                  *)
THEOREM NoStrayInterruptTheorem == BootSpec => []NoStrayInterrupt
<1>1. ASSUME IrqInv PROVE NoStrayInterrupt
  <2> SUFFICES ASSUME irq_routines[0] = "clock", Pending(pic) # {}
               PROVE  irq_routines[Vector(pic)] # "none"
    BY DEF NoStrayInterrupt
  <2>1. Wired(pic) /\ Shut /\ pic[1].imr = Pin
    BY <1>1 DEF IrqInv, Attended
  <2>2. Vector(pic) < Pins
    <3>1. ~(Vector(pic) < Pins) => Vector(pic) - Pins \in Open(pic[1]) /\ Vector(pic) - Pins \in Pin
      BY <2>1, VectorIs
    <3> QED BY <2>1, <3>1 DEF Open
  <2>3. Vector(pic) \in Pin \ {Cascade} /\ Vector(pic) \notin pic[0].imr
    BY <2>1, <2>2, VectorIs
  <2> QED BY <2>1, <2>3 DEF Shut
<1>2. IrqInv => NoStrayInterrupt
  BY <1>1
<1> QED BY <1>2, IrqInvariance, PTL
------------------------------------------------------------------------------
(* Boot uses the page allocator as its specification says: a step of       *)
(* kernel_early, of a device or of an interrupt is a step of Pages or      *)
(* leaves the pages alone.                                                 *)
THEOREM PagesRefined == BootSpec => Spec
<1>1. BootInit => Init
  BY DEF BootInit
<1>2. ASSUME [BootNext]_allvars PROVE [Next]_vars
  <2>1. CASE Memory
    BY <2>1 DEF Memory, Next
  <2>2. CASE paging_init
    BY <2>2 DEF paging_init, Next
  <2>3. CASE OutOfMemory
    BY <2>3 DEF OutOfMemory, Next
  <2>4. CASE Users
    BY <2>4 DEF Users, Next
  <2>5. CASE \/ PciScan \/ PciDone \/ IrqInstall \/ EnableInterrupts \/ timer_install
             \/ RtcBegin \/ RtcWait \/ RtcRead \/ RtcConvert \/ RtcShown
    BY <2>5 DEF PciScan, PciDone, IrqInstall, EnableInterrupts, timer_install,
                RtcBegin, RtcWait, RtcRead, RtcConvert, RtcShown
  <2>6. CASE PicInit0 \/ PicMask0 \/ PicInit1 \/ PicMask1 \/ PicDisable
    BY <2>6 DEF PicInit0, PicMask0, PicInit1, PicMask1, PicDisable, Program
  <2>7. CASE clock_init \/ ata_init \/ keyboard_install
    BY <2>7 DEF clock_init, ata_init, keyboard_install, Install
  <2>8. CASE TestWrite \/ ata_probe \/ ProbesDone \/ kernel_main
    BY <2>8 DEF TestWrite, ata_probe, ProbesDone, kernel_main
  <2>9. CASE RtcFlag \/ RtcUpdate \/ Key \/ LastCommand
    BY <2>9 DEF RtcFlag, RtcUpdate, Key, LastCommand
  <2>10. ASSUME NEW q, Pulse(q) \/ Interrupt(q) PROVE [Next]_vars
    BY <2>10 DEF Pulse, Interrupt
  <2>11. CASE UNCHANGED allvars
    BY <2>11 DEF allvars
  <2> QED BY <1>2, <2>1, <2>2, <2>3, <2>4, <2>5, <2>6, <2>7, <2>8, <2>9, <2>10, <2>11 DEF BootNext, Main
<1> QED BY <1>1, <1>2, PTL DEF BootSpec, Spec

(* So what is proved of the allocator holds all through boot.              *)
THEOREM BootPagesTheorem ==
    BootSpec => [](NoPageTwice /\ CountExact /\ CodeIntact /\ MapRight)
BY PagesRefined, NoPageTwiceTheorem, CountTheorem, CodeTheorem, MapTheorem, PTL
------------------------------------------------------------------------------
(* Two digits in BCD come back as they were.                               *)
LEMMA BcdBack == ASSUME NEW n \in 0..99 PROVE Bcd(n) \in 0..159 /\ rtc_bcd_convert(Bcd(n)) = n
<1> DEFINE q == n \div 10
           r == n % 10
           m == 16 * q + r
<1>1. q \in 0..9 /\ r \in 0..9 /\ n = 10 * q + r
  OBVIOUS
<1> HIDE DEF q, r
<1>2. m \in 0..159 /\ m \div 16 = q /\ m % 16 = r
  BY <1>1
<1>3. Bcd(n) = m
  BY DEF Bcd, q, r
<1> HIDE DEF m
<1>4. rtc_bcd_convert(m) = (((16 * q) \div 2) + (((16 * q) \div 8) + r)) % 256
  BY <1>2 DEF rtc_bcd_convert
<1>5. (16 * q) \div 2 = 8 * q /\ (16 * q) \div 8 = 2 * q
  BY <1>1
<1>6. rtc_bcd_convert(m) = (10 * q + r) % 256
  BY <1>1, <1>4, <1>5
<1> QED BY <1>1, <1>2, <1>3, <1>6

LEMMA EncodedBack ==
    ASSUME NEW f, NEW n \in 0..99
    PROVE  /\ Encoded(f, n) \in Int
           /\ (IF f.binary THEN Encoded(f, n) ELSE rtc_bcd_convert(Encoded(f, n))) = n
<1>1. Bcd(n) \in 0..159 /\ rtc_bcd_convert(Bcd(n)) = n
  BY BcdBack
<1>2. CASE f.binary
  BY <1>2 DEF Encoded
<1>3. CASE ~f.binary
  BY <1>1, <1>3 DEF Encoded
<1> QED BY <1>2, <1>3

Names == {"seconds", "minutes", "hours", "month", "day", "year"}

LEMMA FieldsAre ==
    /\ Len(Fields) = 6 /\ DOMAIN Fields = 1..6 /\ Range(Fields) = Names
    /\ \A k \in 1..6 : Fields[k] \in Names
    /\ \A x \in Names : Field(x) \in 1..6 /\ Fields[Field(x)] = x
<1>1. Len(Fields) = 6 /\ DOMAIN Fields = 1..6
  BY DEF Fields
<1>2. /\ Fields[1] = "seconds" /\ Fields[2] = "minutes" /\ Fields[3] = "hours"
      /\ Fields[4] = "month" /\ Fields[5] = "day" /\ Fields[6] = "year"
  BY DEF Fields
<1> HIDE DEF Fields
<1>3. Range(Fields) = Names
  BY <1>1, <1>2 DEF Range, Names
<1>4. \A k \in 1..6 : Fields[k] \in Names
  BY <1>1, <1>2 DEF Names
<1>5. \A x \in Names : \E k \in DOMAIN Fields : Fields[k] = x
  BY <1>1, <1>2 DEF Names
<1>6. \A x \in Names : Field(x) \in 1..6 /\ Fields[Field(x)] = x
  BY <1>1, <1>5 DEF Field
<1> QED BY <1>1, <1>3, <1>4, <1>6

(* What rtc_get_time makes of the registers of one instant, where its      *)
(* conversion is right.                                                    *)
Faithful(f, t) ==
    ~(~f.h24 /\ t.hours \in {0, 12}) /\ ~(~f.h24 /\ ~f.binary /\ t.hours > 12)
Registers(f, t) == [x \in Names |-> Register(f, t, x)]

LEMMA DecodedIs ==
    ASSUME NEW f \in RtcFormat, NEW t \in Instants, Faithful(f, t)
    PROVE  Decoded(f, Registers(f, t)) = [t EXCEPT !.year = t.year + 2000]
<1> DEFINE raw == Registers(f, t)
           plain == [x \in DOMAIN raw |-> IF f.binary THEN raw[x] ELSE rtc_bcd_convert(raw[x])]
           hours == plain.hours
           new == IF ~f.h24 /\ hours >= 128 THEN ((hours % 128) + 12) % 24 ELSE hours
<1>1. /\ t.seconds \in 0..59 /\ t.minutes \in 0..59 /\ t.hours \in 0..23
      /\ t.month \in 1..12 /\ t.day \in 1..31 /\ t.year \in 0..99
      /\ DOMAIN t = Names /\ t = [x \in Names |-> t[x]]
  BY DEF Instants, Names
<1>2. DOMAIN raw = Names /\ \A x \in Names : raw[x] = Register(f, t, x)
  BY DEF Registers
<1>3. \A x \in Names : t[x] \in 0..99
  BY <1>1 DEF Names
<1>4. f.binary \in BOOLEAN /\ f.h24 \in BOOLEAN
  BY DEF RtcFormat
<1>5. \A x \in Names : x # "hours" => plain[x] = t[x]
  <2> SUFFICES ASSUME NEW x \in Names, x # "hours" PROVE plain[x] = t[x]
    OBVIOUS
  <2>1. raw[x] = Encoded(f, t[x])
    BY <1>2 DEF Register
  <2>2. plain[x] = IF f.binary THEN raw[x] ELSE rtc_bcd_convert(raw[x])
    BY <1>2
  <2>3. t[x] \in 0..99
    BY <1>3
  <2> HIDE DEF raw, plain
  <2> QED BY <2>1, <2>2, <2>3, BcdBack DEF Encoded
<1>6. new = t.hours
  <2>1. plain.hours = IF f.binary THEN raw.hours ELSE rtc_bcd_convert(raw.hours)
    BY <1>2 DEF Names
  <2>2. raw.hours = Register(f, t, "hours")
    BY <1>2 DEF Names
  <2> HIDE DEF raw, plain
  <2>3. CASE f.h24
    <3>1. raw.hours = Encoded(f, t.hours)
      BY <2>2, <2>3 DEF Register
    <3>2. plain.hours = t.hours
      <4>1. t.hours \in 0..99
        BY <1>1
      <4> QED BY <2>1, <3>1, <4>1, EncodedBack
    <3> QED BY <2>3, <3>2
  <2>4. CASE ~f.h24
    <3> DEFINE h == t.hours % 12
    <3>1. t.hours \in 1..11 \/ (t.hours \in 13..23 /\ f.binary)
      BY <1>1, <2>4 DEF Faithful
    <3>2. h \in 1..11 /\ h = IF t.hours < 12 THEN t.hours ELSE t.hours - 12
      BY <3>1
    <3>3. raw.hours = Encoded(f, IF h = 0 THEN 12 ELSE h) + (IF t.hours >= 12 THEN 128 ELSE 0)
      BY <2>2, <2>4 DEF Register
    <3> HIDE DEF h
    <3>4. CASE t.hours \in 1..11
      <4>1. raw.hours = Encoded(f, t.hours) + 0 /\ t.hours \in 0..99
        BY <3>2, <3>3, <3>4
      <4>2. Encoded(f, t.hours) + 0 = Encoded(f, t.hours)
        BY <4>1, EncodedBack
      <4>3. plain.hours = t.hours
        BY <2>1, <4>1, <4>2, EncodedBack
      <4> QED BY <3>4, <4>3
    <3>5. CASE t.hours \in 13..23 /\ f.binary
      <4>1. raw.hours = t.hours - 12 + 128
        BY <3>2, <3>3, <3>5 DEF Encoded
      <4>2. plain.hours = t.hours + 116
        BY <2>1, <3>5, <4>1
      <4>3. ((t.hours + 116) % 128) = t.hours - 12
        BY <3>5
      <4> QED BY <2>4, <3>5, <4>2, <4>3
    <3> QED BY <3>1, <3>4, <3>5
  <2> QED BY <1>4, <2>3, <2>4
<1>7. Decoded(f, raw) = [plain EXCEPT !.hours = new, !.year = plain.year + 2000]
  BY DEF Decoded
<1>8. plain = [x \in Names |-> plain[x]]
  BY <1>2
<1> HIDE DEF raw, plain, new
<1> DEFINE D == Decoded(f, raw)
           z == plain.year + 2000
<1>9. D = [plain EXCEPT !.hours = new, !.year = z] /\ DOMAIN plain = Names
  BY <1>7, <1>8
<1>10. plain.year = t.year => z = t.year + 2000
  OBVIOUS
<1> HIDE DEF D, z
<1>11. /\ D = [x \in Names |-> D[x]] /\ D["hours"] = new /\ D["year"] = z
      /\ \A x \in Names \ {"hours", "year"} : D[x] = plain[x]
  BY <1>9 DEF Names
<1>12. [t EXCEPT !.year = t.year + 2000] = [x \in Names |-> IF x = "year" THEN t.year + 2000 ELSE t[x]]
  BY <1>1 DEF Names
<1>13. \A x \in Names : D[x] = IF x = "year" THEN t.year + 2000 ELSE t[x]
  BY <1>5, <1>6, <1>10, <1>11 DEF Names
<1> QED BY <1>11, <1>12, <1>13 DEF raw, D

(* The stages of rtc_get_time, and the clock in them.                      *)
Timing == {"uip1", "uip2", "read"}
ClockOK ==
    /\ DOMAIN rtc = {"format", "calendar", "at", "uip", "raw", "time"}
    /\ rtc.format \in RtcFormat /\ rtc.calendar \in Calendars
    /\ rtc.at \in 1..Len(rtc.calendar) /\ rtc.uip \in -1..Window /\ rtc.raw \in Seq(Int)

(* The registers read so far are those of instant k.                       *)
Sampled(k) ==
    \A j \in 1..Len(rtc.raw) : rtc.raw[j] = Register(rtc.format, rtc.calendar[k], Fields[j])

(* No more reads have passed since the flag came up than were made: the    *)
(* update follows the last read, and no second one follows.                *)
Reads ==
    \/ rtc.uip <= Len(rtc.raw) /\ Sampled(rtc.at)
    \/ Len(rtc.raw) = 6 /\ rtc.at > 1 /\ rtc.uip <= 0 /\ Sampled(rtc.at - 1)

RtcInv ==
    /\ stage \in Timing \cup {"shown"} => ClockOK
    /\ stage \in {"uip1", "uip2"} => rtc.raw = <<>>
    /\ stage = "read" => Len(rtc.raw) <= 6 /\ Reads
    /\ stage = "shown" =>
           \E k \in {rtc.at - 1, rtc.at} \cap (1..Len(rtc.calendar)) :
               rtc.time = Decoded(rtc.format, Registers(rtc.format, rtc.calendar[k]))

LEMMA CalendarsAre ==
    ASSUME NEW c \in Calendars
    PROVE  c \in Seq(Instants) /\ Len(c) \in Nat /\ 1 \in 1..Len(c)
           /\ \A k \in 1..Len(c) : c[k] \in Instants
<1>1. c \in Seq(Instants) /\ c # <<>>
  BY RtcAssumption
<1> QED BY <1>1

LEMMA RegisterInt ==
    ASSUME NEW f \in RtcFormat, NEW t \in Instants, NEW x \in Names
    PROVE  Register(f, t, x) \in Int
<1>1. \A y \in Names : t[y] \in 0..99
  BY DEF Instants, Names
<1>2. t.hours \in 0..23
  BY DEF Instants
<1>3. CASE x = "hours" /\ ~f.h24
  <2> DEFINE h == IF t.hours % 12 = 0 THEN 12 ELSE t.hours % 12
             flag == IF t.hours >= 12 THEN 128 ELSE 0
  <2>1. h \in 0..99 /\ flag \in Int
    BY <1>2
  <2>2. Register(f, t, x) = Encoded(f, h) + flag
    BY <1>3 DEF Register
  <2> HIDE DEF h, flag
  <2>3. Encoded(f, h) \in Int
    BY <2>1, EncodedBack
  <2> QED BY <2>1, <2>2, <2>3
<1>4. CASE ~(x = "hours" /\ ~f.h24)
  <2>1. Register(f, t, x) = Encoded(f, t[x])
    BY <1>4 DEF Register
  <2> QED BY <1>1, <2>1, EncodedBack
<1> QED BY <1>3, <1>4

LEMMA WindowIs == Window \in Nat /\ Window >= 6
BY BootAssumption, RtcAssumption, FieldsAre

(* A step of anything else.                                                *)
LEMMA SameRtc ==
    ASSUME RtcInv, rtc' = rtc, stage' \in Timing \cup {"shown"} => stage' = stage
    PROVE  RtcInv'
<1>1. CASE stage' \in Timing \cup {"shown"}
  <2>1. stage' = stage /\ rtc' = rtc
    BY <1>1
  <2> QED BY <2>1 DEF RtcInv, ClockOK, Reads, Sampled
<1>2. CASE stage' \notin Timing \cup {"shown"}
  BY <1>2 DEF RtcInv, Timing
<1> QED BY <1>1, <1>2

LEMMA BeginRtc == ASSUME RtcBegin PROVE RtcInv'
<1>1. PICK f \in RtcFormat, calendar \in Calendars, uip \in {-1, 0} :
          rtc' = [format |-> f, calendar |-> calendar, at |-> 1, uip |-> uip, raw |-> <<>>, time |-> <<>>]
  BY DEF RtcBegin
<1>2. stage' = "uip1"
  BY DEF RtcBegin, At
<1>3. 1 \in 1..Len(calendar)
  BY CalendarsAre
<1>4. DOMAIN rtc' = {"format", "calendar", "at", "uip", "raw", "time"}
  BY <1>1
<1>5. ClockOK'
  BY <1>1, <1>3, <1>4, WindowIs DEF ClockOK
<1> QED BY <1>1, <1>2, <1>5 DEF RtcInv

LEMMA WaitRtc == ASSUME RtcInv, RtcWait PROVE RtcInv'
<1>1. /\ stage \in {"uip1", "uip2"} /\ rtc' = [rtc EXCEPT !.uip = Later(rtc.uip)]
      /\ stage' \in {"uip1", "uip2", "read"} /\ (stage' = "read" => rtc.uip = -1)
  BY DEF RtcWait, rtc_update_in_progress
<1>2. ClockOK /\ rtc.raw = <<>>
  BY <1>1 DEF RtcInv, Timing
<1>3. Later(rtc.uip) \in -1..Window /\ (rtc.uip = -1 => Later(rtc.uip) = -1)
  BY <1>2, WindowIs DEF Later, ClockOK
<1>4. /\ DOMAIN rtc' = DOMAIN rtc /\ rtc'.uip = Later(rtc.uip)
      /\ rtc'.format = rtc.format /\ rtc'.calendar = rtc.calendar
      /\ rtc'.at = rtc.at /\ rtc'.raw = rtc.raw
  BY <1>1, <1>2 DEF ClockOK
<1>5. ClockOK'
  BY <1>2, <1>3, <1>4 DEF ClockOK
<1>6. Len(rtc'.raw) = 0
  BY <1>2, <1>4
<1>7. stage' = "read" => Reads'
  BY <1>1, <1>3, <1>4, <1>6 DEF Reads, Sampled
<1>8. stage' # "shown" /\ Len(rtc'.raw) <= 6 /\ rtc'.raw = <<>>
  BY <1>1, <1>2, <1>4, <1>6
<1> QED BY <1>5, <1>7, <1>8 DEF RtcInv

LEMMA ReadRtc == ASSUME RtcInv, RtcRead PROVE RtcInv'
<1> DEFINE n == Len(rtc.raw)
           x == Fields[n + 1]
           v == Register(rtc.format, rtc.calendar[rtc.at], x)
<1>1. /\ stage = "read" /\ stage' = "read" /\ n < 6
      /\ rtc' = [rtc EXCEPT !.raw = Append(rtc.raw, v), !.uip = Later(rtc.uip)]
  BY FieldsAre DEF RtcRead
<1>2. ClockOK /\ Reads
  BY <1>1 DEF RtcInv, Timing
<1>3. rtc.raw \in Seq(Int) /\ n \in Nat
  BY <1>2 DEF ClockOK
<1>4. v \in Int
  <2>1. n + 1 \in 1..6
    BY <1>1, <1>3
  <2>2. x \in Names
    BY <2>1, FieldsAre
  <2>3. rtc.calendar[rtc.at] \in Instants /\ rtc.format \in RtcFormat
    BY <1>2, CalendarsAre DEF ClockOK
  <2> QED BY <2>2, <2>3, RegisterInt
<1> HIDE DEF v
<1>5. /\ DOMAIN rtc' = DOMAIN rtc /\ rtc'.uip = Later(rtc.uip)
      /\ rtc'.format = rtc.format /\ rtc'.calendar = rtc.calendar
      /\ rtc'.at = rtc.at /\ rtc'.raw = Append(rtc.raw, v)
  BY <1>1, <1>2 DEF ClockOK
<1>6. /\ rtc'.raw \in Seq(Int) /\ Len(rtc'.raw) = n + 1
      /\ \A j \in 1..(n + 1) : rtc'.raw[j] = IF j = n + 1 THEN v ELSE rtc.raw[j]
  BY <1>3, <1>4, <1>5
<1>7. rtc.uip <= n /\ Sampled(rtc.at)
  <2>1. Len(rtc.raw) < 6
    BY FieldsAre DEF RtcRead
  <2>2. Len(rtc.raw) # 6
    <3>1. \A m : m < 6 => m # 6
      OBVIOUS
    <3> QED BY <2>1, <3>1, Zenon
  <2> QED BY <1>2, <2>2 DEF Reads
<1>8. Later(rtc.uip) \in -1..Window /\ Later(rtc.uip) <= n + 1
  BY <1>2, <1>3, <1>7, WindowIs DEF Later, ClockOK
<1>9. ClockOK'
  BY <1>2, <1>5, <1>6, <1>8 DEF ClockOK
<1>10. Sampled(rtc.at)'
  <2> SUFFICES ASSUME NEW j \in 1..Len(rtc'.raw)
               PROVE  rtc'.raw[j] = Register(rtc'.format, rtc'.calendar[rtc'.at], Fields[j])
    BY DEF Sampled
  <2>1. CASE j = n + 1
    BY <1>5, <1>6, <2>1 DEF v
  <2>2. CASE j # n + 1
    <3>1. j \in 1..n
      BY <1>3, <1>6, <2>2
    <3> QED BY <1>5, <1>6, <1>7, <2>2, <3>1 DEF Sampled
  <2> QED BY <2>1, <2>2
<1>11. Reads' /\ Len(rtc'.raw) <= 6
  BY <1>1, <1>3, <1>5, <1>6, <1>8, <1>10 DEF Reads
<1> QED BY <1>1, <1>9, <1>11 DEF RtcInv

LEMMA FlagRtc == ASSUME RtcInv, RtcFlag PROVE RtcInv'
<1>1. stage \in Timing /\ stage' = stage /\ rtc' = [rtc EXCEPT !.uip = 0] /\ rtc.uip = -1
  BY DEF RtcFlag, Timing
<1>2. ClockOK /\ (stage = "read" => Len(rtc.raw) <= 6 /\ Reads)
      /\ (stage \in {"uip1", "uip2"} => rtc.raw = <<>>)
  BY <1>1 DEF RtcInv
<1>3. /\ DOMAIN rtc' = DOMAIN rtc /\ rtc'.uip = 0
      /\ rtc'.format = rtc.format /\ rtc'.calendar = rtc.calendar
      /\ rtc'.at = rtc.at /\ rtc'.raw = rtc.raw
  BY <1>1, <1>2 DEF ClockOK
<1>4. ClockOK'
  BY <1>2, <1>3, WindowIs DEF ClockOK
<1>5. \A k : Sampled(k)' <=> Sampled(k)
  BY <1>3 DEF Sampled
<1>6. Len(rtc.raw) \in Nat
  BY <1>2 DEF ClockOK
<1>7. stage = "read" => Reads'
  BY <1>2, <1>3, <1>5, <1>6 DEF Reads
<1>8. stage' # "shown"
  BY <1>1 DEF Timing
<1> QED BY <1>1, <1>2, <1>3, <1>4, <1>7, <1>8 DEF RtcInv

LEMMA UpdateRtc == ASSUME RtcInv, RtcUpdate PROVE RtcInv'
<1> DEFINE last == Len(rtc.calendar)
           next == IF rtc.at < last THEN rtc.at + 1 ELSE rtc.at
<1>1. /\ stage \in Timing /\ stage' = stage /\ rtc.uip = Window
      /\ rtc' = [rtc EXCEPT !.uip = -1, !.at = next]
  BY DEF RtcUpdate, Timing
<1>2. ClockOK /\ (stage = "read" => Len(rtc.raw) <= 6 /\ Reads)
      /\ (stage \in {"uip1", "uip2"} => rtc.raw = <<>>)
  BY <1>1 DEF RtcInv
<1>3. last \in Nat /\ rtc.at \in 1..last /\ rtc.raw \in Seq(Int)
  BY <1>2, CalendarsAre DEF ClockOK
<1>4. next \in 1..last /\ (next = rtc.at \/ next - 1 = rtc.at)
  BY <1>3
<1> HIDE DEF next
<1>5. /\ DOMAIN rtc' = DOMAIN rtc /\ rtc'.uip = -1
      /\ rtc'.format = rtc.format /\ rtc'.calendar = rtc.calendar
      /\ rtc'.at = next /\ rtc'.raw = rtc.raw
  BY <1>1, <1>2 DEF ClockOK
<1>6. ClockOK'
  BY <1>2, <1>4, <1>5, WindowIs DEF ClockOK
<1>7. ASSUME stage = "read" PROVE Reads'
  <2>1. Len(rtc.raw) \in Nat /\ Len(rtc.raw) <= 6
    BY <1>2, <1>3, <1>7
  <2>2. ~(rtc.uip <= 0)
    BY <1>1, WindowIs
  <2>3. rtc.uip <= Len(rtc.raw) /\ Sampled(rtc.at)
    BY <1>2, <1>7, <2>2 DEF Reads
  <2>4. Len(rtc.raw) = 6
    <3>1. \A w, m \in Nat : w >= 6 /\ w <= m /\ m <= 6 => m = 6
      OBVIOUS
    <3>2. rtc.uip \in Nat /\ rtc.uip >= 6
      BY <1>1, WindowIs
    <3> QED BY <2>1, <2>3, <3>1, <3>2, Zenon
  <2>5. CASE next = rtc.at
    <3>1. Sampled(rtc.at)'
      BY <1>5, <2>3, <2>5 DEF Sampled
    <3>2. rtc'.uip <= Len(rtc'.raw)
      BY <1>5, <2>4
    <3> QED BY <3>1, <3>2 DEF Reads
  <2>6. CASE next - 1 = rtc.at
    <3>1. Sampled(rtc.at - 1)'
      BY <1>5, <2>3, <2>6 DEF Sampled
    <3>2. Len(rtc'.raw) = 6 /\ rtc'.at > 1 /\ rtc'.uip <= 0
      BY <1>3, <1>4, <1>5, <2>4, <2>6
    <3> QED BY <3>1, <3>2 DEF Reads
  <2> QED BY <1>4, <2>5, <2>6
<1>8. stage' # "shown"
  BY <1>1 DEF Timing
<1> QED BY <1>1, <1>2, <1>5, <1>6, <1>7, <1>8 DEF RtcInv

LEMMA ConvertRtc == ASSUME RtcInv, RtcConvert PROVE RtcInv'
<1> DEFINE raw == [x \in Range(Fields) |-> rtc.raw[Field(x)]]
<1>1. /\ stage = "read" /\ stage' = "shown" /\ Len(rtc.raw) = 6
      /\ rtc' = [rtc EXCEPT !.time = Decoded(rtc.format, raw)]
  BY FieldsAre DEF RtcConvert, At
<1>2. ClockOK /\ Reads
  BY <1>1 DEF RtcInv, Timing
<1>3. rtc.at \in 1..Len(rtc.calendar) /\ Len(rtc.calendar) \in Nat
  BY <1>2, CalendarsAre DEF ClockOK
<1>4. PICK k \in {rtc.at - 1, rtc.at} \cap (1..Len(rtc.calendar)) : Sampled(k)
  <2>1. CASE Sampled(rtc.at)
    BY <1>3, <2>1
  <2>2. CASE rtc.at > 1 /\ Sampled(rtc.at - 1)
    BY <1>3, <2>2
  <2> QED BY <1>2, <2>1, <2>2 DEF Reads
<1>5. raw = Registers(rtc.format, rtc.calendar[k])
  <2>1. \A j \in 1..6 : rtc.raw[j] = Register(rtc.format, rtc.calendar[k], Fields[j])
    BY <1>1, <1>4 DEF Sampled
  <2>2. \A x \in Names : rtc.raw[Field(x)] = Register(rtc.format, rtc.calendar[k], x)
    BY <2>1, FieldsAre
  <2>3. raw = [x \in Names |-> rtc.raw[Field(x)]]
    BY FieldsAre
  <2> HIDE DEF raw
  <2> QED BY <2>2, <2>3 DEF Registers
<1> HIDE DEF raw
<1>6. /\ DOMAIN rtc' = DOMAIN rtc /\ rtc'.uip = rtc.uip
      /\ rtc'.format = rtc.format /\ rtc'.calendar = rtc.calendar
      /\ rtc'.at = rtc.at /\ rtc'.raw = rtc.raw /\ rtc'.time = Decoded(rtc.format, raw)
  BY <1>1, <1>2 DEF ClockOK
<1>7. ClockOK'
  BY <1>2, <1>6 DEF ClockOK
<1>8. rtc'.time = Decoded(rtc'.format, Registers(rtc'.format, rtc'.calendar[k]))
  BY <1>5, <1>6
<1>9. k \in {rtc'.at - 1, rtc'.at} \cap (1..Len(rtc'.calendar))
  BY <1>4, <1>6
<1> QED BY <1>1, <1>7, <1>8, <1>9 DEF RtcInv

LEMMA NextRtc == ASSUME RtcInv, [BootNext]_allvars PROVE RtcInv'
<1> USE DEF Timing
<1>1. CASE RtcBegin
  BY <1>1, BeginRtc
<1>2. CASE RtcWait
  BY <1>2, WaitRtc
<1>3. CASE RtcRead
  BY <1>3, ReadRtc
<1>4. CASE RtcConvert
  BY <1>4, ConvertRtc
<1>5. CASE RtcShown
  BY <1>5 DEF RtcShown, RtcInv, At
<1>6. CASE RtcFlag
  BY <1>6, FlagRtc
<1>7. CASE RtcUpdate
  BY <1>7, UpdateRtc
<1>8. CASE Memory \/ PciScan \/ PciDone \/ IrqInstall \/ EnableInterrupts \/ timer_install
  BY <1>8, SameRtc DEF Memory, PciScan, PciDone, IrqInstall, EnableInterrupts, timer_install, At
<1>9. CASE PicInit0 \/ PicMask0 \/ PicInit1 \/ PicMask1 \/ PicDisable
  BY <1>9, SameRtc DEF PicInit0, PicMask0, PicInit1, PicMask1, PicDisable, Program, At
<1>10. CASE clock_init \/ ata_init \/ keyboard_install
  BY <1>10, SameRtc DEF clock_init, ata_init, keyboard_install, Install, At
<1>11. CASE paging_init \/ TestWrite \/ ata_probe \/ ProbesDone \/ kernel_main \/ OutOfMemory
  BY <1>11, SameRtc DEF paging_init, TestWrite, ata_probe, ProbesDone, kernel_main, OutOfMemory, At
<1>12. CASE Users \/ Key \/ LastCommand \/ UNCHANGED allvars
  BY <1>12, SameRtc DEF Users, Key, LastCommand, allvars, bootvars
<1>13. ASSUME NEW q, Pulse(q) \/ Interrupt(q) PROVE RtcInv'
  BY <1>13, SameRtc DEF Pulse, Interrupt
<1> QED BY <1>1, <1>2, <1>3, <1>4, <1>5, <1>6, <1>7, <1>8, <1>9, <1>10, <1>11, <1>12, <1>13
        DEF BootNext, Main

LEMMA ShownRight == ASSUME RtcInv PROVE TimeExact
<1> SUFFICES ASSUME stage = "shown" PROVE TimeExact
  BY DEF TimeExact
<1>1. ClockOK
  BY DEF RtcInv
<1>2. PICK k \in {rtc.at - 1, rtc.at} \cap (1..Len(rtc.calendar)) :
          rtc.time = Decoded(rtc.format, Registers(rtc.format, rtc.calendar[k]))
  BY DEF RtcInv
<1> DEFINE t == rtc.calendar[k]
<1>3. t \in Instants /\ rtc.format \in RtcFormat
  BY <1>1, <1>2, CalendarsAre DEF ClockOK
<1>4. CASE Faithful(rtc.format, t)
  <2>1. rtc.time = [t EXCEPT !.year = t.year + 2000]
    BY <1>2, <1>3, <1>4, DecodedIs
  <2> QED BY <1>2, <2>1 DEF TimeExact
<1>5. CASE ~Faithful(rtc.format, t)
  BY <1>2, <1>5 DEF Faithful, TimeExact
<1> QED BY <1>4, <1>5

(* The time that rtc_init prints is one instant, never a mixture of two    *)
(* across an update of the clock, and rightly converted where the code     *)
(* does convert rightly.                                                   *)
THEOREM TimeTheorem == BootSpec => []TimeExact
<1>1. BootInit => RtcInv
  BY DEF BootInit, RtcInv, Timing
<1>2. RtcInv /\ [BootNext]_allvars => RtcInv'
  BY NextRtc
<1> QED BY <1>1, <1>2, ShownRight, PTL DEF BootSpec
------------------------------------------------------------------------------
(* Where pci_check_all_buses comes to a place.                             *)
Rank(p) == (p[1] * Slots + p[2]) * Funcs + p[3]

LEMMA PlaceParts ==
    ASSUME NEW p \in Place
    PROVE  /\ p = <<p[1], p[2], p[3]>>
           /\ p[1] \in 0..(Buses - 1) /\ p[2] \in 0..(Slots - 1) /\ p[3] \in 0..(Funcs - 1)
BY DEF Place

LEMMA DigitsLess ==
    ASSUME NEW d \in Nat \ {0}, NEW a \in Nat, NEW b \in Nat, a < b,
           NEW r \in 0..(d - 1), NEW s \in 0..(d - 1)
    PROVE  a * d + r < b * d + s
<1>1. (a + 1) * d <= b * d
  BY Monotone
<1>2. (a + 1) * d = a * d + d /\ a * d \in Nat /\ b * d \in Nat
  OBVIOUS
<1> QED BY <1>1, <1>2

LEMMA BeforeRank ==
    ASSUME NEW p \in Place, NEW q \in Place, Before(p, q)
    PROVE  Rank(p) < Rank(q)
<1> DEFINE a == p[1] * Slots + p[2]
           b == q[1] * Slots + q[2]
<1>1. Slots \in Nat \ {0} /\ Funcs \in Nat \ {0}
  BY PciAssumption
<1>2. /\ p[1] \in Nat /\ p[2] \in 0..(Slots - 1) /\ p[3] \in 0..(Funcs - 1)
      /\ q[1] \in Nat /\ q[2] \in 0..(Slots - 1) /\ q[3] \in 0..(Funcs - 1)
  BY PlaceParts, PciAssumption
<1>3. p[1] * Slots \in Nat /\ q[1] * Slots \in Nat
  BY <1>1, <1>2
<1>4. a \in Nat /\ b \in Nat
  BY <1>1, <1>2, <1>3
<1>5. Rank(p) = a * Funcs + p[3] /\ Rank(q) = b * Funcs + q[3]
  BY DEF Rank
<1>6. CASE p[1] < q[1]
  <2>1. a < b
    BY <1>1, <1>2, <1>6, DigitsLess
  <2> HIDE DEF a, b
  <2> QED BY <1>1, <1>2, <1>4, <1>5, <2>1, DigitsLess
<1>7. CASE p[1] = q[1] /\ p[2] < q[2]
  <2>1. a < b
    BY <1>1, <1>2, <1>3, <1>7
  <2> HIDE DEF a, b
  <2> QED BY <1>1, <1>2, <1>4, <1>5, <2>1, DigitsLess
<1>8. CASE p[1] = q[1] /\ p[2] = q[2] /\ p[3] < q[3]
  <2>1. a = b
    BY <1>8
  <2> HIDE DEF a, b
  <2>2. a * Funcs \in Nat
    BY <1>1, <1>4
  <2> QED BY <1>2, <1>5, <1>8, <2>1, <2>2
<1> QED BY <1>6, <1>7, <1>8 DEF Before

LEMMA RankNat == ASSUME NEW p \in Place PROVE Rank(p) \in 0..(Steps - 1)
<1> DEFINE a == p[1] * Slots + p[2]
           n == Buses * Slots
<1>1. Slots \in Nat \ {0} /\ Funcs \in Nat \ {0} /\ Buses \in Nat \ {0}
  BY PciAssumption
<1>2. p[1] \in Nat /\ p[1] < Buses /\ p[2] \in 0..(Slots - 1) /\ p[3] \in 0..(Funcs - 1)
  BY <1>1, PlaceParts
<1>3. a \in Nat /\ n \in Nat /\ a < n
  <2>1. p[1] * Slots \in Nat /\ n \in Nat
    BY <1>1, <1>2
  <2>2. a < Buses * Slots + 0
    BY <1>1, <1>2, DigitsLess
  <2> QED BY <1>2, <2>1, <2>2
<1>4. Rank(p) = a * Funcs + p[3] /\ Steps = n * Funcs
  BY DEF Rank, Steps
<1> HIDE DEF a, n
<1>5. a * Funcs \in Nat /\ n * Funcs \in Nat
  BY <1>1, <1>3
<1>6. a * Funcs + p[3] < n * Funcs + 0
  BY <1>1, <1>2, <1>3, DigitsLess
<1> QED BY <1>2, <1>4, <1>5, <1>6

(* Two places are the same or one comes before the other.                  *)
LEMMA RankOrder ==
    ASSUME NEW p \in Place, NEW q \in Place
    PROVE  /\ Rank(p) = Rank(q) => p = q
           /\ Rank(p) < Rank(q) => Before(p, q)
<1>1. p = q \/ Before(p, q) \/ Before(q, p)
  <2>1. p = <<p[1], p[2], p[3]>> /\ q = <<q[1], q[2], q[3]>>
    BY PlaceParts
  <2>2. p[1] \in Int /\ p[2] \in Int /\ p[3] \in Int /\ q[1] \in Int /\ q[2] \in Int /\ q[3] \in Int
    BY PlaceParts
  <2>3. p[1] = q[1] /\ p[2] = q[2] /\ p[3] = q[3] => p = q
    BY <2>1, Zenon
  <2> QED BY <2>2, <2>3 DEF Before
<1>2. Rank(p) \in Nat /\ Rank(q) \in Nat
  BY RankNat
<1>3. Before(p, q) => Rank(p) < Rank(q)
  BY BeforeRank
<1>4. Before(q, p) => Rank(q) < Rank(p)
  BY BeforeRank
<1> QED BY <1>1, <1>2, <1>3, <1>4

(* The three nested loops come to every place once.                        *)
LEMMA StepRank ==
    ASSUME NEW n \in 0..(Steps - 1)
    PROVE  Step(n) \in Place /\ Rank(Step(n)) = n
<1> DEFINE w == n \div Funcs
           c == n % Funcs
           a == w \div Slots
           b == w % Slots
           r == b * Funcs + c
           d == Slots * Funcs
<1>1. Slots \in Nat \ {0} /\ Funcs \in Nat \ {0} /\ Buses \in Nat \ {0}
  BY PciAssumption
<1>2. d \in Nat \ {0} /\ Steps = Buses * d /\ Steps \in Nat
  BY <1>1 DEF Steps
<1>3. n \in Nat /\ n < Steps
  BY <1>2
<1>4. w \in Nat /\ c \in 0..(Funcs - 1) /\ n = w * Funcs + c
  BY <1>1, <1>3, DivMod
<1> HIDE DEF w, c
<1>5. a \in Nat /\ b \in 0..(Slots - 1) /\ w = a * Slots + b
  BY <1>1, <1>4, DivMod
<1> HIDE DEF a, b
<1>6. n = (a * Slots + b) * Funcs + c
  BY <1>4, <1>5
<1>7. n = a * d + r
  <2>1. (a * Slots + b) * Funcs = a * (Slots * Funcs) + b * Funcs
    BY <1>1, <1>5
  <2> QED BY <1>1, <1>4, <1>5, <1>6, <2>1
<1>8. r \in 0..(d - 1)
  <2>1. b * Funcs + c < Slots * Funcs + 0
    BY <1>1, <1>4, <1>5, DigitsLess
  <2>2. b * Funcs \in Nat /\ Slots * Funcs \in Nat
    BY <1>1, <1>5
  <2> QED BY <1>4, <2>1, <2>2
<1>9. n \div (Slots * Funcs) = a
  BY <1>2, <1>5, <1>7, <1>8, DivModUnique
<1>10. a < Buses
  <2> SUFFICES ASSUME Buses <= a PROVE FALSE
    BY <1>1, <1>5
  <2>1. Buses * d <= a * d
    BY <1>1, <1>2, <1>5, Monotone
  <2> HIDE DEF r, d
  <2>2. a * d \in Nat
    BY <1>2, <1>5
  <2> QED BY <1>2, <1>3, <1>7, <1>8, <2>1, <2>2
<1>11. Step(n) = <<a, b, c>>
  BY <1>9 DEF Step, a, b, c, w
<1>12. a \in 0..(Buses - 1)
  BY <1>1, <1>5, <1>10
<1>13. Step(n) \in Place
  BY <1>4, <1>5, <1>11, <1>12 DEF Place
<1> QED BY <1>6, <1>11, <1>13 DEF Rank

(* The address that pci_config_read_word writes names the function and the *)
(* double word it means.                                                   *)
Address(b, s, f, o) == b * 65536 + s * 2048 + f * 256 + o

Decodes(address, b, s, f, o) ==
    /\ (address \div 65536) % 256 = b /\ (address \div 2048) % 32 = s
    /\ (address \div 256) % 8 = f /\ address % 256 = o

LEMMA AddressIs ==
    ASSUME NEW b \in 0..255, NEW s \in 0..31, NEW f \in 0..7, NEW o \in 0..255
    PROVE  Decodes(Address(b, s, f, o), b, s, f, o)
<1> DEFINE address == b * 65536 + s * 2048 + f * 256 + o
<1>1. address \div 65536 = b /\ b % 256 = b
  OBVIOUS
<1>2. address \div 2048 = b * 32 + s /\ (b * 32 + s) % 32 = s
  OBVIOUS
<1>3. address \div 256 = b * 256 + s * 8 + f /\ (b * 256 + s * 8 + f) % 8 = f
  OBVIOUS
<1>4. address % 256 = o
  OBVIOUS
<1> HIDE DEF address
<1>5. Decodes(address, b, s, f, o)
  BY <1>1, <1>2, <1>3, <1>4 DEF Decodes
<1> QED BY <1>5 DEF address, Address

LEMMA FunctionIs ==
    ASSUME NEW f \in Function
    PROVE  /\ f.vendor # None
           /\ (256 * f.class + f.subclass) \div 256 = f.class
           /\ (256 * f.class + f.subclass) % 256 = f.subclass
<1> DEFINE c == f.class
           s == f.subclass
<1>1. f.vendor # None
  BY DEF Function
<1>2. c \in 0..255 /\ s \in 0..255
  BY DEF Function
<1> HIDE DEF c, s
<1>3. (256 * c + s) \div 256 = c /\ (256 * c + s) % 256 = s
  BY <1>2
<1> QED BY <1>1, <1>3 DEF c, s

LEMMA EntryIs ==
    ASSUME machine \in Machines, NEW p \in Place
    PROVE  /\ ScanPlace(p) <=> p \in DOMAIN machine
           /\ p \in DOMAIN machine => Entry(machine, p) = RightEntry(p)
<1>1. /\ p = <<p[1], p[2], p[3]>>
      /\ p[1] \in 0..255 /\ p[2] \in 0..31 /\ p[3] \in 0..7
  BY PlaceParts, PciAssumption
<1> DEFINE addr(o) == Address(p[1], p[2], p[3], o)
<1>2. \A o \in {0, 8} : /\ <<(addr(o) \div 65536) % 256, (addr(o) \div 2048) % 32, (addr(o) \div 256) % 8>> = p
                        /\ addr(o) % 256 = o
  <2> TAKE o \in {0, 8}
  <2>1. o \in 0..255
    OBVIOUS
  <2>2. Decodes(addr(o), p[1], p[2], p[3], o)
    BY <1>1, <2>1, AddressIs, Zenon
  <2> HIDE DEF addr
  <2> QED BY <1>1, <2>2 DEF Decodes
<1>3. \A k : pci_config_read_word(machine, p[1], p[2], p[3], k) =
             Answer(machine, addr(4 * (k \div 4)))[1 + (k % 4) \div 2]
  BY DEF pci_config_read_word, Address
<1> HIDE DEF addr
<1>4. /\ pci_get_vendor(machine, p) = Answer(machine, addr(0))[1]
      /\ pci_get_device(machine, p) = Answer(machine, addr(0))[2]
      /\ pci_get_class(machine, p) = Answer(machine, addr(8))[2] \div 256
      /\ pci_get_subclass(machine, p) = Answer(machine, addr(8))[2] % 256
  <2>1. /\ 4 * (0 \div 4) = 0 /\ 1 + (0 % 4) \div 2 = 1
        /\ 4 * (2 \div 4) = 0 /\ 1 + (2 % 4) \div 2 = 2
        /\ 4 * (10 \div 4) = 8 /\ 1 + (10 % 4) \div 2 = 2
    OBVIOUS
  <2> QED BY <1>3, <2>1, Zenon DEF pci_get_vendor, pci_get_device, pci_get_class, pci_get_subclass
<1>5. CASE p \notin DOMAIN machine
  <2>1. Answer(machine, addr(0)) = <<None, None>>
    BY <1>2, <1>5 DEF Answer
  <2> QED BY <1>4, <1>5, <2>1 DEF ScanPlace
<1>6. CASE p \in DOMAIN machine
  <2> DEFINE f == machine[p]
  <2>1. f \in Function
    BY <1>6, BootAssumption
  <2>2. Answer(machine, addr(0)) = <<f.vendor, f.device>>
    <3>1. addr(0) % 256 = 0
      BY <1>2
    <3> QED BY <1>2, <1>6, <3>1 DEF Answer
  <2>3. Answer(machine, addr(8)) = <<0, 256 * f.class + f.subclass>>
    <3>1. addr(8) % 256 = 8
      BY <1>2
    <3> QED BY <1>2, <1>6, <3>1 DEF Answer
  <2> HIDE DEF f
  <2>4. /\ f.vendor # None
        /\ (256 * f.class + f.subclass) \div 256 = f.class
        /\ (256 * f.class + f.subclass) % 256 = f.subclass
    BY <2>1, FunctionIs
  <2>6. /\ pci_get_vendor(machine, p) = f.vendor /\ pci_get_device(machine, p) = f.device
        /\ pci_get_class(machine, p) = f.class /\ pci_get_subclass(machine, p) = f.subclass
    BY <1>4, <2>2, <2>3, <2>4
  <2> QED BY <1>6, <2>4, <2>6 DEF ScanPlace, Entry, RightEntry, f
<1> QED BY <1>5, <1>6

(* The places the loops have come to, before step n.                       *)
Seen(n) == {p \in DOMAIN machine : Rank(p) < n}

(* PciExact does not say how far the scan is.  The invariant does, and     *)
(* that no interrupt comes during the scan: a command in its handler could *)
(* take boot to its end.                                                   *)
Entries == {RightEntry(p) : p \in DOMAIN machine}
PciInv ==
    /\ machine \in Machines /\ pci_devices \in Seq(Entries)
    /\ stage = "memory" => i = 0 /\ pci_devices = <<>>
    /\ stage = "pci" => i \in 0..Steps /\ TableLists(Seen(i))
    /\ stage \in {"memory", "pci"} => interrupts = FALSE
    /\ stage = "panic" => interrupts = FALSE \/ TableLists(DOMAIN machine)
    /\ stage \notin {"memory", "pci", "panic"} => TableLists(DOMAIN machine)

LEMMA MachinePlaces == ASSUME machine \in Machines PROVE DOMAIN machine \subseteq Place
BY BootAssumption

(* An iteration sees one place more, if the machine has it.                *)
LEMMA SeenNext ==
    ASSUME machine \in Machines, NEW n \in 0..(Steps - 1)
    PROVE  \A p \in DOMAIN machine : p \in Seen(n + 1) <=> p \in Seen(n) \/ p = Step(n)
<1> TAKE p \in DOMAIN machine
<1>1. p \in Place /\ Step(n) \in Place /\ Rank(Step(n)) = n
  BY MachinePlaces, StepRank
<1>2. Rank(p) \in Int /\ n \in Int
  BY <1>1, RankNat
<1>3. Rank(p) = n <=> p = Step(n)
  BY <1>1, RankOrder
<1> QED BY <1>2, <1>3 DEF Seen

LEMMA SeenBefore ==
    ASSUME machine \in Machines, NEW n \in 0..(Steps - 1), NEW p \in Seen(n)
    PROVE  Before(p, Step(n))
<1>1. p \in Place /\ Step(n) \in Place /\ Rank(Step(n)) = n
  BY MachinePlaces, StepRank DEF Seen
<1> QED BY <1>1, RankOrder DEF Seen

LEMMA SeenAll ==
    ASSUME machine \in Machines
    PROVE  Seen(0) = {} /\ Seen(Steps) = DOMAIN machine
<1>1. \A p \in DOMAIN machine : Rank(p) \in 0..(Steps - 1)
  BY MachinePlaces, RankNat
<1>2. Steps \in Int
  BY PciAssumption DEF Steps
<1> QED BY <1>1, <1>2 DEF Seen

LEMMA EntryPlace == \A p \in Place : PlaceOf(RightEntry(p)) = p
<1> TAKE p \in Place
<1>1. p = <<p[1], p[2], p[3]>>
  BY PlaceParts
<1> QED BY <1>1 DEF PlaceOf, RightEntry

(* An iteration of the scan.                                               *)
LEMMA ScanPci == ASSUME PciInv, PciScan PROVE PciInv'
<1> DEFINE p == Step(i)
           d == pci_devices
           e == pci_devices'
           full == ~(Len(pci_devices) < TableSize)
<1>1. /\ stage = "pci" /\ stage' = "pci" /\ i < Steps /\ i' = i + 1
      /\ machine' = machine /\ interrupts' = interrupts
      /\ e = IF ScanPlace(p) /\ ~full THEN Append(d, Entry(machine, p)) ELSE d
  BY DEF PciScan, irqvars
<1>2. /\ machine \in Machines /\ d \in Seq(Entries) /\ i \in 0..Steps
      /\ TableLists(Seen(i)) /\ interrupts = FALSE
  BY <1>1 DEF PciInv
<1>3. Steps \in Nat /\ TableSize \in Nat
  BY PciAssumption DEF Steps
<1>4. i \in 0..(Steps - 1) /\ i' \in 0..Steps
  BY <1>1, <1>2, <1>3
<1>5. p \in Place
  BY <1>4, StepRank
<1>6. /\ ScanPlace(p) <=> p \in DOMAIN machine
      /\ p \in DOMAIN machine => Entry(machine, p) = RightEntry(p)
  BY <1>2, <1>5, EntryIs
<1>7. \A q \in DOMAIN machine : q \in Seen(i + 1) <=> q \in Seen(i) \/ q = p
  BY <1>2, <1>4, SeenNext
<1>8. \A q \in Seen(i) : Before(q, p)
  BY <1>2, <1>4, SeenBefore
<1>9. Seen(i) \subseteq DOMAIN machine /\ Seen(i + 1) \subseteq DOMAIN machine
  BY DEF Seen
<1>10. /\ Len(d) <= TableSize /\ Len(d) \in Nat /\ DOMAIN d = 1..Len(d)
       /\ \A k \in DOMAIN d : PlaceOf(d[k]) \in Seen(i) /\ d[k] = RightEntry(PlaceOf(d[k]))
       /\ \A j, k \in DOMAIN d : j < k => Before(PlaceOf(d[j]), PlaceOf(d[k]))
       /\ \A q \in Seen(i) : \/ \E k \in DOMAIN d : PlaceOf(d[k]) = q
                             \/ /\ Len(d) = TableSize
                                /\ \A k \in DOMAIN d : Before(PlaceOf(d[k]), q)
  BY <1>2 DEF TableLists
<1>11. Len(d) <= TableSize /\ Len(d) \in Nat
  BY <1>10
<1> DEFINE lists == /\ e \in Seq(Entries) /\ Len(e) <= TableSize
                    /\ \A k \in DOMAIN e : PlaceOf(e[k]) \in Seen(i + 1) /\ e[k] = RightEntry(PlaceOf(e[k]))
                    /\ \A j, k \in DOMAIN e : j < k => Before(PlaceOf(e[j]), PlaceOf(e[k]))
                    /\ \A q \in Seen(i + 1) : \/ \E k \in DOMAIN e : PlaceOf(e[k]) = q
                                              \/ /\ Len(e) = TableSize
                                                 /\ \A k \in DOMAIN e : Before(PlaceOf(e[k]), q)
<1> HIDE DEF p, d, e
<1>12. ASSUME p \notin DOMAIN machine PROVE lists
  <2>1. e = d
    BY <1>1, <1>6, <1>12
  <2>2. Seen(i + 1) = Seen(i)
    BY <1>7, <1>9, <1>12
  <2>3. lists
    BY <1>2, <1>10, <2>1, <2>2, Zenon
  <2> QED BY <2>3
<1>13. ASSUME p \in DOMAIN machine, full PROVE lists
  <2>1. e = d /\ Len(d) = TableSize
    <3>1. ~(Len(d) < TableSize)
      BY <1>13 DEF d
    <3> QED BY <1>1, <1>3, <1>11, <1>13, <3>1
  <2>2. Seen(i + 1) = Seen(i) \cup {p}
    BY <1>7, <1>9, <1>13
  <2>3. lists
    BY <1>2, <1>8, <1>10, <2>1, <2>2, Zenon
  <2> QED BY <2>3
<1>14. ASSUME p \in DOMAIN machine, ~full PROVE lists
  <2>1. e = Append(d, RightEntry(p)) /\ Len(d) < TableSize
    BY <1>1, <1>6, <1>14 DEF d
  <2>2. Seen(i + 1) = Seen(i) \cup {p}
    BY <1>7, <1>9, <1>14
  <2>3. RightEntry(p) \in Entries /\ PlaceOf(RightEntry(p)) = p
    BY <1>5, <1>14, EntryPlace, Zenon DEF Entries
  <2>4. /\ e \in Seq(Entries) /\ Len(e) = Len(d) + 1 /\ DOMAIN e = 1..(Len(d) + 1)
        /\ e[Len(d) + 1] = RightEntry(p) /\ \A k \in 1..Len(d) : e[k] = d[k]
    <3> DEFINE x == RightEntry(p)
    <3>1. x \in Entries /\ e = Append(d, x)
      BY <2>1, <2>3
    <3> HIDE DEF x
    <3>2. /\ e \in Seq(Entries) /\ Len(e) = Len(d) + 1
          /\ e[Len(d) + 1] = x /\ \A k \in 1..Len(d) : e[k] = d[k]
      BY <1>2, <3>1
    <3>3. DOMAIN e = 1..(Len(d) + 1)
      BY <3>2
    <3> QED BY <3>2, <3>3 DEF x
  <2>5. \A k \in DOMAIN e : \/ k \in DOMAIN d /\ e[k] = d[k]
                            \/ k = Len(d) + 1 /\ e[k] = RightEntry(p)
    <3>1. DOMAIN e = 1..(Len(d) + 1) /\ DOMAIN d = 1..Len(d)
      BY <1>10, <2>4
    <3>2. \A k \in DOMAIN e : k \in DOMAIN d \/ k = Len(d) + 1
      BY <1>11, <3>1
    <3>3. \A k \in DOMAIN d : e[k] = d[k]
      BY <2>4, <3>1, Zenon
    <3>4. e[Len(d) + 1] = RightEntry(p)
      BY <2>4, Zenon
    <3> QED BY <3>2, <3>3, <3>4, Zenon
  <2>6. /\ Len(d) + 1 \in DOMAIN e /\ DOMAIN d \subseteq DOMAIN e
        /\ \A k \in DOMAIN d : k # Len(d) + 1 /\ k < Len(d) + 1 /\ ~(Len(d) + 1 < k)
    BY <1>10, <2>4
  <2>7. Len(e) <= TableSize
    BY <1>3, <1>11, <2>1, <2>4
  <2>8. \A k \in DOMAIN e : PlaceOf(e[k]) \in Seen(i + 1) /\ e[k] = RightEntry(PlaceOf(e[k]))
    BY <1>10, <2>2, <2>3, <2>5, Zenon
  <2>9. ~(Len(d) + 1 < Len(d) + 1)
    BY <1>10
  <2>10. \A j, k \in DOMAIN e : j < k => Before(PlaceOf(e[j]), PlaceOf(e[k]))
    BY <1>8, <1>10, <2>3, <2>5, <2>6, <2>9, Zenon
  <2>11. Len(d) # TableSize
    <3>1. Len(d) < TableSize
      BY <2>1
    <3> QED BY <1>3, <1>11, <3>1
  <2>12. \A q \in Seen(i + 1) : \E k \in DOMAIN e : PlaceOf(e[k]) = q
    <3> TAKE q \in Seen(i + 1)
    <3>1. CASE q = p
      BY <3>1, <2>3, <2>4, <2>6, Zenon
    <3>2. CASE q \in Seen(i)
      <4>1. PICK k \in DOMAIN d : PlaceOf(d[k]) = q
        BY <3>2, <1>10, <2>11, Zenon
      <4>2. k \in DOMAIN e /\ e[k] = d[k]
        BY <1>10, <2>4
      <4> QED BY <4>1, <4>2, Zenon
    <3> QED BY <3>1, <3>2, <2>2
  <2> QED BY <2>4, <2>7, <2>8, <2>10, <2>12, Zenon
<1>15. lists
  <2> HIDE DEF lists
  <2> QED BY <1>12, <1>13, <1>14
<1>16. /\ \A q : RightEntry(q)' = RightEntry(q)
       /\ Entries' = Entries /\ Seen(i)' = Seen(i + 1)
  BY <1>1 DEF RightEntry, Entries, Seen
<1>17. TableLists(Seen(i))' /\ (pci_devices \in Seq(Entries))'
  BY <1>15, <1>16, Zenon DEF TableLists, e
<1> QED BY <1>1, <1>2, <1>4, <1>17 DEF PciInv

(* Everybody else leaves the table alone.                                  *)
LEMMA LaterPci ==
    ASSUME PciInv, UNCHANGED pcivars,
           \/ stage' = stage /\ i' = i /\ interrupts' = interrupts
           \/ /\ stage \notin {"memory", "pci", "panic"}
              /\ stage' \notin {"memory", "pci"}
    PROVE  PciInv'
<1>1. machine' = machine /\ pci_devices' = pci_devices
  BY DEF pcivars
<1>2. Entries' = Entries /\ \A S : TableLists(S)' <=> TableLists(S)
  BY <1>1 DEF Entries, TableLists, RightEntry
<1>3. CASE stage' = stage /\ i' = i /\ interrupts' = interrupts
  <2>1. Seen(i)' = Seen(i)
    BY <1>1, <1>3 DEF Seen
  <2> QED BY <1>1, <1>2, <1>3, <2>1 DEF PciInv
<1>4. CASE stage \notin {"memory", "pci", "panic"} /\ stage' \notin {"memory", "pci"}
  BY <1>1, <1>2, <1>4 DEF PciInv
<1> QED BY <1>3, <1>4

LEMMA NextPci == ASSUME PciInv, [BootNext]_allvars PROVE PciInv'
<1>1. CASE PciScan
  BY <1>1, ScanPci
<1>2. CASE PciDone
  <2>1. /\ stage = "pci" /\ stage' = "idt" /\ i = Steps /\ machine' = machine
        /\ pci_devices' = pci_devices
    BY <1>2 DEF PciDone, At, pcivars
  <2>2. machine \in Machines /\ pci_devices \in Seq(Entries) /\ TableLists(DOMAIN machine)
    BY <2>1, SeenAll DEF PciInv
  <2>3. /\ (machine \in Machines /\ pci_devices \in Seq(Entries))'
        /\ TableLists(DOMAIN machine)'
    BY <2>1, <2>2 DEF Entries, TableLists, RightEntry
  <2> QED BY <2>1, <2>3 DEF PciInv
<1>3. CASE Memory
  <2>1. /\ stage = "memory" /\ stage' \in {"memory", "pci"} /\ i' = i /\ interrupts' = interrupts
        /\ machine' = machine /\ pci_devices' = pci_devices
    BY <1>3 DEF Memory, pcivars, irqvars
  <2>2. /\ machine \in Machines /\ i = 0 /\ pci_devices = <<>> /\ interrupts = FALSE
        /\ Steps \in Nat /\ TableSize \in Nat
    BY <2>1, PciAssumption DEF PciInv, Steps
  <2>3. (machine \in Machines)' /\ (pci_devices \in Seq(Entries))'
    BY <2>1, <2>2
  <2>4. Seen(i)' = {}
    BY <2>1, <2>2, SeenAll DEF Seen
  <2>5. TableLists(Seen(i))'
    BY <2>1, <2>2, <2>4 DEF TableLists
  <2> QED BY <2>1, <2>2, <2>3, <2>5 DEF PciInv
<1>4. CASE OutOfMemory
  <2>1. /\ stage \in {"memory", "paging", "wait"} /\ stage' = "panic" /\ interrupts' = interrupts
        /\ machine' = machine /\ pci_devices' = pci_devices
    BY <1>4 DEF OutOfMemory, pcivars, irqvars
  <2>2. /\ machine \in Machines /\ pci_devices \in Seq(Entries)
        /\ interrupts = FALSE \/ TableLists(DOMAIN machine)
    BY <2>1 DEF PciInv
  <2>3. Entries' = Entries /\ TableLists(DOMAIN machine)' <=> TableLists(DOMAIN machine)
    BY <2>1 DEF Entries, TableLists, RightEntry
  <2> QED BY <2>1, <2>2, <2>3 DEF PciInv
<1>5. CASE LastCommand
  <2>1. /\ interrupts /\ stage' \in {"exit", "panic"}
        /\ machine' = machine /\ pci_devices' = pci_devices
    BY <1>5 DEF LastCommand, pcivars
  <2>2. /\ machine \in Machines /\ pci_devices \in Seq(Entries)
        /\ TableLists(DOMAIN machine)
    BY <2>1 DEF PciInv
  <2>3. Entries' = Entries /\ TableLists(DOMAIN machine)'
    BY <2>1, <2>2 DEF Entries, TableLists, RightEntry
  <2> QED BY <2>1, <2>2, <2>3 DEF PciInv
<1>6. CASE IrqInstall \/ EnableInterrupts \/ timer_install
  BY <1>6, LaterPci DEF IrqInstall, EnableInterrupts, timer_install, At
<1>7. CASE RtcBegin \/ RtcWait \/ RtcRead \/ RtcConvert \/ RtcShown
  BY <1>7, LaterPci DEF RtcBegin, RtcWait, RtcRead, RtcConvert, RtcShown, At, irqvars
<1>8. CASE PicInit0 \/ PicMask0 \/ PicInit1 \/ PicMask1 \/ PicDisable
  BY <1>8, LaterPci DEF PicInit0, PicMask0, PicInit1, PicMask1, PicDisable, Program, At
<1>9. CASE clock_init \/ ata_init \/ keyboard_install
  BY <1>9, LaterPci DEF clock_init, ata_init, keyboard_install, Install, At
<1>10. CASE paging_init \/ TestWrite \/ ata_probe \/ ProbesDone \/ kernel_main
  BY <1>10, LaterPci DEF paging_init, TestWrite, ata_probe, ProbesDone, kernel_main, At, irqvars
<1>11. CASE Users \/ RtcFlag \/ RtcUpdate \/ Key \/ UNCHANGED allvars
  BY <1>11, LaterPci DEF Users, RtcFlag, RtcUpdate, Key, allvars, bootvars, irqvars
<1>12. ASSUME NEW q, Pulse(q) \/ Interrupt(q) PROVE PciInv'
  BY <1>12, LaterPci DEF Pulse, Interrupt
<1> QED BY <1>1, <1>2, <1>3, <1>4, <1>5, <1>6, <1>7, <1>8, <1>9, <1>10, <1>11, <1>12
        DEF BootNext, Main

(* pci_devices is the machine, its first functions if the table is too     *)
(* small, in the order of the buses, with what each of them answers.       *)
THEOREM PciTheorem == BootSpec => []PciExact
<1>1. BootInit => PciInv
  BY DEF BootInit, PciInv
<1>2. PciInv /\ [BootNext]_allvars => PciInv'
  BY NextPci
<1>3. PciInv => PciExact
  BY DEF PciInv, PciExact
<1> QED BY <1>1, <1>2, <1>3, PTL DEF BootSpec
==============================================================================
