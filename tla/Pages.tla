------------------------------- MODULE Pages -------------------------------
(***************************************************************************)
(* mem.c: the allocator of pages and the page tables built by paging_init. *)
(* The bitmap is not initialised but for its first cell: it is whatever    *)
(* lies at ALLOC_MEMORY_START.  That is where the linker script puts the   *)
(* kernel, so its cells are the words of the multiboot header, which       *)
(* nothing reads any more, and after them the kernel's code.               *)
(*                                                                         *)
(* The cells considered are those of the pages that cell 0 stands for.     *)
(* Cell 0 is empty from the start, so what the owner of a page writes is   *)
(* never one of them.                                                      *)
(***************************************************************************)
EXTENDS Integers, Sequences, FiniteSets, FiniteSetsExt

CONSTANTS
    CELL_BITS,    \* bits in a cell: 32
    PAGE_SIZE,    \* 4096
    KiB,          \* 1024
    Word,         \* values of uint32_t: 2^32
    Sizes,        \* sizes the memory map may add up to
    Image,        \* cells as found: the set of bits of each word
    HeaderCells,  \* words of the multiboot header: 3
    HeapPages,    \* pages main_heap_init takes: 15
    ENTRIES,      \* entries of a page table: 1024
    DirEntries,   \* entries of the directory paging_init fills: 3
    FirstPage     \* page at ALLOC_MEMORY_START: 256

Bits == 0..(CELL_BITS - 1)
Cells == DOMAIN Image

ASSUME PagesAssumption ==
    /\ CELL_BITS \in Nat \ {0} /\ PAGE_SIZE \in Nat /\ KiB \in Nat \ {0}
    /\ PAGE_SIZE >= KiB /\ Word \in Nat \ {0} /\ Sizes \subseteq Nat
    /\ 0 \in Cells /\ Cells \subseteq Nat
    /\ Image \in [Cells -> SUBSET Bits]
    /\ HeaderCells \in Nat \ {0}
    /\ {HeapPages, ENTRIES, DirEntries, FirstPage} \subseteq Nat

(* The pages of the header's bits lie below the 12 MiB that are mapped.    *)
ASSUME MappedAssumption == FirstPage + HeaderCells * CELL_BITS <= DirEntries * ENTRIES

VARIABLES
    mode,           \* where kernel_early is: "mem", "heap", "paging", "on"; or "panic"
    taken,          \* pages the present call of kernel_early has taken
    freemap,        \* the bits of every cell
    freemap_cells, pages_total, pages_free,
    live,           \* pages handed out and not given back
    peak,           \* most pages live at once so far
    pagedir         \* page tables of the directory: frame of every entry

vars == <<mode, taken, freemap, freemap_cells, pages_total, pages_free, live, peak, pagedir>>

Init ==
    /\ mode = "mem" /\ taken = 0 /\ freemap = Image
    /\ freemap_cells = 0 /\ pages_total = 0 /\ pages_free = 0
    /\ live = {} /\ peak = 0
    /\ pagedir = <<>>

(* mem_check_avail adds the sizes up in 32 bits; mem_init multiplies where *)
(* it should divide, in 32 bits again.                                     *)
mem_init(usable) ==
    /\ mode = "mem" /\ mode' = "heap"
    /\ pages_total' = ((usable * KiB) % Word) \div (PAGE_SIZE \div KiB)
    /\ pages_free' = pages_total'
    /\ freemap_cells' = 1 + pages_total' \div CELL_BITS
    /\ freemap' = [freemap EXCEPT ![0] = {}]
    /\ UNCHANGED <<taken, live, peak, pagedir>>
------------------------------------------------------------------------------
Page(cell, bit) == cell * CELL_BITS + bit
Cell(page) == page \div CELL_BITS
Bit(page)  == page % CELL_BITS
FreePages ==
    {Page(x[1], x[2]) : x \in {y \in Cells \X Bits : y[1] < freemap_cells /\ y[2] \in freemap[y[1]]}}

Larger(m, n) == IF m > n THEN m ELSE n
HandOut(page) ==
    /\ live' = live \cup {page}
    /\ peak' = Larger(peak, Cardinality(live'))
    /\ pages_free' = (pages_free - 1) % Word

(* Mutant: the bit of the page is not cleared.                             *)
memory_alloc_page_KeepsBit ==
    /\ FreePages # {}
    /\ HandOut(Min(FreePages)) /\ UNCHANGED freemap

(* Mutant: the cells are searched from the last one.                       *)
memory_alloc_page_FromLast ==
    /\ FreePages # {}
    /\ LET page == Max(FreePages)
       IN  /\ freemap' = [freemap EXCEPT ![Cell(page)] = @ \ {Bit(page)}]
           /\ HandOut(page)

(* The first bit of the first cell that has one.                           *)
memory_alloc_page ==
    /\ FreePages # {}
    /\ LET page == Min(FreePages)
       IN  /\ freemap' = [freemap EXCEPT ![Cell(page)] = @ \ {Bit(page)}]
           /\ HandOut(page)

(* "memory_alloc_page: Out of memory!", when the cells considered are all  *)
(* there are.                                                              *)
Panic ==
    /\ mode \in {"heap", "paging", "on"} /\ FreePages = {}
    /\ 0..(freemap_cells - 1) \subseteq Cells
    /\ mode' = "panic"
    /\ UNCHANGED <<taken, freemap, freemap_cells, pages_total, pages_free, live, peak, pagedir>>

(* Mutant: the count is not raised.                                        *)
memory_free_page_NoCount(page) ==
    /\ mode = "on" /\ page \in live
    /\ freemap' = [freemap EXCEPT ![Cell(page)] = @ \cup {Bit(page)}]
    /\ live' = live \ {page}
    /\ UNCHANGED <<mode, taken, freemap_cells, pages_total, pages_free, peak, pagedir>>

memory_free_page(page) ==
    /\ mode = "on" /\ page \in live
    /\ freemap' = [freemap EXCEPT ![Cell(page)] = @ \cup {Bit(page)}]
    /\ pages_free' = (pages_free + 1) % Word
    /\ live' = live \ {page}
    /\ UNCHANGED <<mode, taken, freemap_cells, pages_total, peak, pagedir>>
------------------------------------------------------------------------------
(* A round of main_heap_init.                                              *)
main_heap_init ==
    /\ mode = "heap" /\ taken < HeapPages
    /\ memory_alloc_page
    /\ IF taken + 1 = HeapPages THEN mode' = "paging" /\ taken' = 0
                                ELSE mode' = mode /\ taken' = taken + 1
    /\ UNCHANGED <<freemap_cells, pages_total, pagedir>>

(* Mutant: every table maps the first 4 MiB.                               *)
Frame_First(dir_i, table_i) == table_i

Frame(dir_i, table_i) == ENTRIES * dir_i + table_i

(* paging_init takes a page for the directory ...                          *)
PageDirectory ==
    /\ mode = "paging" /\ taken = 0
    /\ memory_alloc_page
    /\ taken' = 1
    /\ UNCHANGED <<mode, freemap_cells, pages_total, pagedir>>

(* ... and one for every table, fills it, and turns paging on.             *)
PageTable ==
    /\ mode = "paging" /\ taken > 0
    /\ memory_alloc_page
    /\ pagedir' = Append(pagedir, [t \in 0..(ENTRIES - 1) |-> Frame(taken - 1, t)])
    /\ mode' = IF taken = DirEntries THEN "on" ELSE mode
    /\ taken' = taken + 1
    /\ UNCHANGED <<freemap_cells, pages_total>>

(* A caller of later versions: process_create, now a comment, takes two.   *)
AllocPage ==
    /\ mode = "on"
    /\ memory_alloc_page
    /\ UNCHANGED <<mode, taken, freemap_cells, pages_total, pagedir>>

Next ==
    \/ \E usable \in Sizes : mem_init(usable)
    \/ main_heap_init \/ PageDirectory \/ PageTable \/ AllocPage \/ Panic
    \/ \E page \in live : memory_free_page(page)

Spec == Init /\ [][Next]_vars
------------------------------------------------------------------------------
(* The cells keep their shape, and a page handed out is one that a cell    *)
(* stands for, other than cell 0.                                          *)
TypeOK ==
    /\ mode \in {"mem", "heap", "paging", "on", "panic"} /\ taken \in Nat
    /\ freemap \in [Cells -> SUBSET Bits]
    /\ {freemap_cells, peak} \subseteq Nat /\ {pages_total, pages_free} \subseteq 0..(Word - 1)
    /\ \A page \in live : Cell(page) \in Cells \ {0}

(* No page is handed out again before it has been given back.              *)
NoPageTwice == FreePages \cap live = {}

(* pages_free is the number of pages that are not handed out.  (It is not  *)
(* the number of free bits.)                                               *)
CountExact == pages_total = (pages_free + Cardinality(live)) % Word

(* The set bits of the header, as far as the bitmap reaches: 21.           *)
Spare ==
    Cardinality({x \in Cells \X Bits : /\ x[1] \in 1..(HeaderCells - 1) /\ x[1] < freemap_cells
                                       /\ x[2] \in Image[x[1]]})

(* The code of the kernel is not written as long as no more pages have     *)
(* been in use at once than the multiboot header has bits: the search      *)
(* starts from the first cell every time.  Boot takes 19.                  *)
CodeIntact ==
    peak <= Spare => \A c \in Cells : c >= HeaderCells => freemap[c] = Image[c]

(* What the directory and its tables make of a page: its frame, or -1.     *)
Translate(v) ==
    IF v \div ENTRIES < Len(pagedir) THEN pagedir[v \div ENTRIES + 1][v % ENTRIES] ELSE -1

(* Under paging, addresses below 12 MiB are what they were before, and the *)
(* access after them, kernel.c says, "should page fault".  Within the same *)
(* budget, a page can be used at the address memory_alloc_page returns.    *)
MapRight ==
    mode = "on" =>
        /\ \A v \in 0..((DirEntries + 1) * ENTRIES - 1) :
               Translate(v) = IF v < DirEntries * ENTRIES THEN v ELSE -1
        /\ peak <= Spare =>
               \A page \in live : Translate(FirstPage + page) = FirstPage + page
==============================================================================
