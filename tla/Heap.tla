-------------------------------- MODULE Heap --------------------------------
(***************************************************************************)
(* The kernel heap of kernel/heap.c: pages with a map of one byte per      *)
(* block of bsize bytes.  The byte is 0 for a free block and otherwise an  *)
(* id that differs from the ids of the runs on both sides, which is all    *)
(* kfree has to find the end of an allocation.                             *)
(*                                                                         *)
(* The search of kalloc is a loop whose end is not obvious; it takes one   *)
(* step per iteration.  The heap is used by one thread of control.         *)
(* heap_used_blocks, which nothing reads, is left out.                     *)
(***************************************************************************)
EXTENDS Integers, FiniteSets

CONSTANTS
    NPage,     \* pages main_heap_init adds: 15
    PageSize,  \* PAGE_SIZE: 4096
    BSize,     \* bsize: 16
    Header,    \* sizeof(kernel_heap_block_bm): 20
    IdMod,     \* ids are uint8_t: 256
    Word,      \* uint32_t arithmetic: 2^32
    Sizes,     \* the sizes callers ask for, 0 among them
    MaxLost    \* bound: no kalloc(0) once a page has lost count of more blocks

RoundUp(n, d) == IF (n \div d) * d < n THEN n \div d + 1 ELSE n \div d

MapCells == PageSize \div BSize             \* bytes the map has room for
Reserved == RoundUp(MapCells, BSize)        \* blocks the map itself takes
Usable   == PageSize - Header               \* b->size
Cells    == Usable \div BSize               \* blocks kalloc and kfree look at
ReservedId == 5

ASSUME HeapAssumption ==
    /\ NPage \in Nat \ {0} /\ PageSize \in Nat /\ BSize \in Nat \ {0} /\ Header \in Nat
    /\ IdMod \in Nat /\ IdMod > ReservedId /\ Word \in Nat /\ Word > PageSize
    /\ Sizes \subseteq Nat /\ MaxLost \in Nat
    /\ 2 <= Reserved /\ Reserved < Cells /\ Cells < MapCells
    \* the last block lies below the limit kfree puts on a pointer
    /\ Header + (Cells - 1) * BSize < Usable

VARIABLES
    bm,        \* the maps
    used,      \* b->used
    lfb,       \* b->lfb
    fblock,    \* heap->fblock; b->next is b - 1, and 0 the null pointer
    mode,      \* "init", "idle", "block" and "scan" in the two loops of
               \* kalloc, "oom" and "badptr" in its panic and kfree's
    req,       \* kalloc's size
    b, x,      \* kalloc's locals, 0 where they are dead
    live,      \* what the callers hold: page, first block, number of blocks
    lost       \* history: the free blocks that kfree of an empty allocation
               \* has subtracted from used

vars == <<bm, used, lfb, fblock, mode, req, b, x, live, lost>>
Page == 1..NPage

Init ==
    /\ bm = [p \in Page |-> [i \in 0..MapCells - 1 |-> 0]]
    /\ used = [p \in Page |-> 0] /\ lfb = [p \in Page |-> 0]
    /\ fblock = 0 /\ mode = "init"
    /\ req = 0 /\ b = 0 /\ x = 0 /\ live = {}
    /\ lost = [p \in Page |-> 0]

(* One round of main_heap_init.                                            *)
kheap_add_block ==
    /\ mode = "init"
    /\ fblock' = fblock + 1
    /\ bm' = [bm EXCEPT ![fblock'] =
                 [i \in 0..MapCells - 1 |-> IF i < Reserved THEN ReservedId ELSE 0]]
    /\ lfb' = [lfb EXCEPT ![fblock'] = Reserved - 1]
    /\ used' = [used EXCEPT ![fblock'] = Reserved]
    /\ mode' = IF fblock' = NPage THEN "idle" ELSE "init"
    /\ UNCHANGED <<req, b, x, live, lost>>

(* kalloc enters its loop over the pages ...  An empty allocation is freed *)
(* before the next call: iso9660_read, which alone can ask for 0 bytes,    *)
(* does nothing else with the heap in between.                             *)
kalloc(size) ==
    /\ mode = "idle" /\ \A a \in live : a.n > 0
    /\ size = 0 => \A p \in Page : lost[p] <= MaxLost
    /\ mode' = "block" /\ req' = size /\ b' = fblock
    /\ UNCHANGED <<bm, used, lfb, fblock, x, live, lost>>

Room(p) == (Usable - used[p] * BSize) % Word >= req
bneed == RoundUp(req, BSize)

(* ... passes the ones without room ...                                    *)
NextPage ==
    /\ mode = "block" /\ b # 0 /\ ~Room(b)
    /\ b' = b - 1
    /\ UNCHANGED <<bm, used, lfb, fblock, mode, req, x, live, lost>>

OutOfMemory ==
    /\ mode = "block" /\ b = 0
    /\ mode' = "oom"
    /\ UNCHANGED <<bm, used, lfb, fblock, req, b, x, live, lost>>

(* ... and searches the others from the place of the last allocation on.   *)
StartScan ==
    /\ mode = "block" /\ b # 0 /\ Room(b)
    /\ x' = IF lfb[b] + 1 >= Cells THEN 0 ELSE lfb[b] + 1
    /\ mode' = "scan"
    /\ UNCHANGED <<bm, used, lfb, fblock, req, b, live, lost>>

EndScan ==
    /\ mode = "scan" /\ x = lfb[b]
    /\ mode' = "block" /\ b' = b - 1 /\ x' = 0
    /\ UNCHANGED <<bm, used, lfb, fblock, req, live, lost>>

(* The wrap-around at the top of the loop's body.                          *)
At == IF x >= Cells THEN 0 ELSE x

(* The inner loop: free blocks from i on, at most bneed.                   *)
IsRun(p, i, n) == i + n <= Cells /\ \A j \in i..(i + n - 1) : bm[p][j] = 0
FreeRun(p, i) == CHOOSE n \in 0..bneed :
                     /\ IsRun(p, i, n)
                     /\ n < bneed => ~IsRun(p, i, n + 1)

ScanOn ==
    /\ mode = "scan" /\ x # lfb[b]
    /\ \/ bm[b][At] # 0 /\ x' = At + 1
       \/ bm[b][At] = 0 /\ FreeRun(b, At) < bneed /\ x' = At + FreeRun(b, At)
    /\ UNCHANGED <<bm, used, lfb, fblock, mode, req, b, live, lost>>

(* Mutant: only the left neighbour is looked at.                           *)
kheap_get_nid_Left(l, r) == IF (l + 1) % IdMod = 0 THEN 1 ELSE (l + 1) % IdMod

(* The first id after l that is neither r nor 0.                           *)
kheap_get_nid(l, r) ==
    LET ok == {k \in 1..3 : (l + k) % IdMod \notin {0, r}}
    IN  (l + (CHOOSE k \in ok : \A j \in ok : k <= j)) % IdMod

(* Mutants: the search takes a run one block short, or the count is off.   *)
Take_Short ==
    /\ mode = "scan" /\ x # lfb[b]
    /\ bm[b][At] = 0 /\ FreeRun(b, At) + 1 >= bneed
    /\ LET y == bneed
           nid == kheap_get_nid(bm[b][At - 1], bm[b][At + y])
       IN  /\ bm' = [bm EXCEPT ![b] = [i \in 0..MapCells - 1 |->
                         IF i \in At..(At + y - 1) THEN nid ELSE @[i]]]
           /\ lfb' = [lfb EXCEPT ![b] = (At + bneed) - 2]
           /\ used' = [used EXCEPT ![b] = (@ + y) % Word]
           /\ live' = live \cup {[page |-> b, first |-> At, n |-> y]}
    /\ mode' = "idle" /\ req' = 0 /\ b' = 0 /\ x' = 0
    /\ UNCHANGED <<fblock, lost>>

Take_Bytes ==
    /\ mode = "scan" /\ x # lfb[b]
    /\ bm[b][At] = 0 /\ FreeRun(b, At) = bneed
    /\ LET y == bneed
           nid == kheap_get_nid(bm[b][At - 1], bm[b][At + y])
       IN  /\ bm' = [bm EXCEPT ![b] = [i \in 0..MapCells - 1 |->
                         IF i \in At..(At + y - 1) THEN nid ELSE @[i]]]
           /\ lfb' = [lfb EXCEPT ![b] = (At + bneed) - 2]
           /\ used' = [used EXCEPT ![b] = (@ + req \div BSize) % Word]
           /\ live' = live \cup {[page |-> b, first |-> At, n |-> y]}
    /\ mode' = "idle" /\ req' = 0 /\ b' = 0 /\ x' = 0
    /\ UNCHANGED <<fblock, lost>>

(* A long enough run is taken and returned.                                *)
Take ==
    /\ mode = "scan" /\ x # lfb[b]
    /\ bm[b][At] = 0 /\ FreeRun(b, At) = bneed
    /\ LET y == bneed
           nid == kheap_get_nid(bm[b][At - 1], bm[b][At + y])
       IN  /\ bm' = [bm EXCEPT ![b] = [i \in 0..MapCells - 1 |->
                         IF i \in At..(At + y - 1) THEN nid ELSE @[i]]]
           /\ lfb' = [lfb EXCEPT ![b] = (At + bneed) - 2]
           /\ used' = [used EXCEPT ![b] = (@ + y) % Word]
           /\ live' = live \cup {[page |-> b, first |-> At, n |-> y]}
    /\ mode' = "idle" /\ req' = 0 /\ b' = 0 /\ x' = 0
    /\ UNCHANGED <<fblock, lost>>

(* kfree of a pointer kalloc returned: the run of the id found there.  For *)
(* an empty allocation that is the run of free blocks it points to.        *)
IdRun(p, i) ==
    LET Ends == {j \in i..Cells : j = Cells \/ bm[p][j] # bm[p][i]}
    IN  (CHOOSE j \in Ends : \A k \in Ends : j <= k) - i

(* Mutant: the page of the pointer is not searched for.                    *)
kfree_FirstPage(a) ==
    /\ mode = "idle" /\ a \in live
    /\ live' = live \ {a}
    /\ IF Header + a.first * BSize < Usable
       THEN LET n == IdRun(fblock, a.first)
            IN  /\ bm' = [bm EXCEPT ![fblock] = [i \in 0..MapCells - 1 |->
                              IF i \in a.first..(a.first + n - 1) THEN 0 ELSE @[i]]]
                /\ used' = [used EXCEPT ![fblock] = (@ - n) % Word]
                /\ lost' = IF a.n = 0 THEN [lost EXCEPT ![fblock] = @ + n] ELSE lost
                /\ UNCHANGED mode
       ELSE mode' = "badptr" /\ UNCHANGED <<bm, used, lost>>
    /\ UNCHANGED <<lfb, fblock, req, b, x>>

kfree(a) ==
    /\ mode = "idle" /\ a \in live
    /\ live' = live \ {a}
    /\ IF Header + a.first * BSize < Usable
       THEN LET n == IdRun(a.page, a.first)
            IN  /\ bm' = [bm EXCEPT ![a.page] = [i \in 0..MapCells - 1 |->
                              IF i \in a.first..(a.first + n - 1) THEN 0 ELSE @[i]]]
                /\ used' = [used EXCEPT ![a.page] = (@ - n) % Word]
                /\ lost' = IF a.n = 0 THEN [lost EXCEPT ![a.page] = @ + n] ELSE lost
                /\ UNCHANGED mode
       ELSE mode' = "badptr" /\ UNCHANGED <<bm, used, lost>>
    /\ UNCHANGED <<lfb, fblock, req, b, x>>

Search == NextPage \/ OutOfMemory \/ StartScan \/ EndScan \/ ScanOn \/ Take

Next ==
    \/ kheap_add_block
    \/ \E size \in Sizes : kalloc(size)
    \/ Search
    \/ \E a \in live : kfree(a)

Spec == Init /\ [][Next]_vars

(* kalloc runs until it returns or panics.                                 *)
FairSpec == Spec /\ WF_vars(Search)
----------------------------------------------------------------------------
BlocksOf(a) == a.first..(a.first + a.n - 1)

(* Maps hold ids, counters are words, and the search stays on the page.    *)
TypeOK ==
    /\ bm \in [Page -> [0..MapCells - 1 -> 0..IdMod - 1]]
    /\ used \in [Page -> 0..Word - 1] /\ lfb \in [Page -> 0..Cells - 1]
    /\ fblock \in 0..NPage
    /\ mode \in {"init", "idle", "block", "scan", "oom", "badptr"}
    /\ req \in Nat /\ b \in 0..NPage /\ x \in 0..Cells
    /\ live \subseteq [page: Page, first: Nat, n: Nat] /\ lost \in [Page -> Nat]

(* No two allocations share a block, none reaches into the map or beyond   *)
(* the page.                                                               *)
NoOverlap ==
    /\ \A a \in live : BlocksOf(a) \subseteq Reserved..(Cells - 1)
    /\ \A a, c \in live : a # c /\ a.page = c.page => BlocksOf(a) \cap BlocksOf(c) = {}

(* The map says exactly what callers hold: kfree gives back the whole      *)
(* allocation and no block of another one, and nothing leaks.              *)
MapExact ==
    \A p \in 1..fblock : \A i \in 0..MapCells - 1 :
        bm[p][i] # 0 <=> \/ i < Reserved
                         \/ \E a \in live : a.page = p /\ i \in BlocksOf(a)

(* An allocation ends where its id ends, for every allocation at once.     *)
RunsDistinct ==
    \A a \in live : a.n > 0 =>
        /\ \A i \in BlocksOf(a) : bm[a.page][i] = bm[a.page][a.first]
        /\ bm[a.page][a.first - 1] # bm[a.page][a.first]
        /\ bm[a.page][a.first + a.n] # bm[a.page][a.first]

(* b->used counts the blocks in use ("count used blocks NOT bytes"), less  *)
(* the free blocks that kfree of an empty allocation took off the count    *)
(* and nothing ever puts back; it wraps below zero.  A page from which no  *)
(* empty allocation was freed has the exact count.                         *)
UsedExact ==
    \A p \in 1..fblock :
        used[p] = (Cardinality({i \in 0..MapCells - 1 : bm[p][i] # 0}) - lost[p]) % Word

(* "kalloc: Out of memory!" is said only when no page has a run of free    *)
(* blocks that is long enough.                                             *)
OutOfMemoryIsTrue ==
    mode = "oom" => \A p \in 1..fblock, i \in 0..Cells - 1 : ~IsRun(p, i, bneed)

(* A call of kalloc returns or panics.                                     *)
KallocEnds == mode \in {"block", "scan"} ~> mode \in {"idle", "oom"}
=============================================================================
