# HexOS in TLA+

HexOS is a small i386 kernel: one CPU, no user programs yet, a shell run by the
keyboard interrupt, an ISO 9660 file system on an ATAPI drive, a heap, and a
process scheduler with a mutex and a clock. This directory holds TLA+ models of
its core, TLC configurations that check them on small instances, and TLAPS
proofs of the theorems that matter most. Paths below are relative to the
repository; `kernel/x.c` stands for `src/kernel/kernel/x.c`.

## Inventory

| Part | State | Operations | What is hard | What makes it correct |
|---|---|---|---|---|
| lists (`list.c`) | head, tail; next, prev, list, priority | push at head, tail, by priority; pop; remove | end cases, interrupts during a push | both directions agree; behaves like a sequence |
| scheduler (`process.c`) | `current`, `ready_list`, states | switch, yield, wait, wakeup, exit | windows with interrupts on | nobody lost, nobody listed twice |
| mutex (`mutex.c`) | flag, waitqueue | lock, unlock | one wakeup, barging, killed holder | exclusion, no lost wakeup |
| clock (`clock.c`) | clicks, seconds, queue | interrupt, read, diff, wait | torn reads, unsigned differences | sleepers wake, waits last as long as asked |
| heap (`heap.c`) | pages with a byte map, `used`, `lfb` | init, `kalloc`, `kfree` | ids of neighbours, wrap-around search, counts | no overlap, exact map, ends |
| ATA driver (`io/ata.c`) | the operation under way | read, write, packet read, probe | timeouts, errors, failed step of several | ends, reports failure, follows the protocol |
| page allocator (`mem.c`) | bitmap, counters | init, alloc, free, identity map | 32-bit sizes, bitmap as found in memory | no page handed out twice |
| VFS, ISO 9660 (`vfs.c`, `fs/iso9660.c`) | nodes, parent records | finddir, readdir, read, recreate, free | parents rebuilt from records, node lifetimes | the parent of a directory is its parent |
| shell (`shell.c`) | line buffer, `current_dir` | putchar, commands | buffer limit, runs inside an interrupt | buffer bounds, current directory valid |
| keyboard, terminal (`ps2keyboard.c`, `tty.c`) | shift state; cursor, cells | key handler, putchar | two shift keys; a key in the middle of the serial echo | screen and buffer are what was typed |
| interrupts (`isr.c`) | the two controllers, `irq_routines` | remap, mask, enable, dispatch, acknowledge | two programs for the same chips, both run with interrupts on | no line left in service, keys are read |
| boot (`kernel.c`) | the stage it is in | `kernel_early`, `kernel_main` | order of set-up against interrupts | every stage finds what the earlier ones left |
| RTC (`rtc.c`) | registers, format | `rtc_get_time` | reading across an update, conversions | the time shown is one instant |
| PCI (`io/pci.c`) | `pci_devices` | configuration reads, scan | addresses, table limit | the table is the machine |
| C library (`itoa.c`, `printf.c`) | | formatting | overflow, zero, percent signs | the text denotes the number |
| GDT/IDT, port I/O, CPUID, sound, panic | | | hardware set-up | |

Interaction. The clock interrupt calls `process_wakeup_all` on the clock's
queue and so touches `ready_list`, which the scheduler changes with interrupts
off. The ATA driver holds `ata_mutex` during an operation and polls with
`clock_wait` inside it, so the clock's queue, which is *not* protected, has
one user at a time. The file system calls the driver through
`block_device.read_block` and takes its buffers and nodes from the heap, whose
pages come from the page allocator. A key is an interrupt, and the whole shell
command it completes, disk reads included, runs inside it; the code it interrupts
may be `kernel_main` in the middle of `terminal_putchar`.

In this version no process is ever created (`process_init` is commented out
and `process_create` returns null) and boot stops at the deliberate fault of
`kernel.c:102`. The scheduler is modelled as it is written, for processes that
are on `ready_list`, which is what `process_test` does; the creation of
processes is taken as given. `Boot` models what happens instead: `current` is
null, so the first `clock_wait` of `kernel_main` would never return, and the
keyboard's handler serves the shell from inside that wait.

## Modules

| Module | Models |
|---|---|
| `ListOps` | the functions of `list.c`, from a memory of pointers to a memory of pointers |
| `KList` | any sequence of calls of them; `list_push_priority` one loop iteration per step |
| `ListAbs` | the same interface on sequences; `KList` implements it |
| `KListProofs` | proofs about `KList` |
| `Sched` | `process.c`, `mutex.c`, `clock_wait` and the clock interrupt, with lists as sequences |
| `SchedImpl` | the same on pointers, the unprotected push statement by statement; implements `Sched` |
| `SchedProofs` | proofs about `Sched` |
| `SchedImplProofs` | proofs about `SchedImpl`, on top of the two above |
| `Heap` | `heap.c`, the search of `kalloc` one loop iteration per step |
| `HeapProofs` | proofs about `Heap` |
| `Clock` | the arithmetic of `clock.c` |
| `Ata` | the operations of `io/ata.c` as sequences of waits, commands and transfers |
| `AtaProofs` | proofs about `Ata` and the clock it reads |
| `Fs` | the nodes of `vfs.c`, the volume of `fs/iso9660.c`, and `cd`, `cat`, `ls` and `filesize` of `shell.c` |
| `FsProofs` | proofs about `Fs` |
| `Pages` | `mem.c`: the page allocator and the tables of `paging_init` |
| `Terminal` | the functions of `tty.c`, from a terminal to a terminal |
| `Console` | `ps2keyboard.c`, the line editor of `shell.c`, `Terminal` and the serial echo of `kernel_main`, composed |
| `ConsoleProofs` | proofs about `Console` |
| `Pic` | the two interrupt controllers and the functions of `isr.c` that program them |
| `Rtc` | the registers of the real-time clock and the conversions of `rtc.c` |
| `Pci` | configuration space and the reads of `io/pci.c` |
| `Boot` | `kernel_early` and `kernel_main`: composes `Pages`, `Pic`, `Pci` and `Rtc` with the devices that interrupt |
| `BootProofs` | proofs about `Pages` and `Boot` |
| `Libc` | `itoa` and `printf`, with the reference they are compared with; checked from `MCBoot` |
| `MC*` | instances for TLC |

**Lists.** `mem` is the memory, `scan` the locals of `list_push_priority`. The
only demand on callers is that a pushed node is on no list. The limit of 5000
nodes is the constant `ScanLimit`.

**Scheduler.** `cpu` says where the CPU is: before the first switch, in
`current`, in the loop of `process_switch`, between its `sti` and `hlt`, or
halted. `pc` says in which kernel call a process is. A stretch that runs with
interrupts off is one action; the clock interrupt may come between any two
actions except in the loop, where interrupts are off. `Exit` is `process_exit`, called for
`current` by `fault_handler` or by the shell's `exit` in the keyboard interrupt. It may
strike at any place of a process: in the critical section, between a wakeup and the
next test of the mutex, between push and switch, and in `SchedImpl` between two
statements of the push. It unlinks nothing, so a process killed between push and switch comes back with
the next click. `ExitIdle` is `exit` typed while no process runs. `killed` records who
went through `process_exit`; `GRAVE` does not, since a process that comes back is
`READY` again.

**Heap.** `bm` is the byte map of each page, `live` what callers hold, `b` and
`x` are the locals of `kalloc`. A panic is a final mode. Requests may be empty
(`iso9660_read` of an empty file): they hold no block, and `kfree` of one takes the free
blocks it points to off `used`. `lost` records how many, page by page. As in `iso9660_read`,
which does nothing else with the heap in between, an empty allocation is freed before the next `kalloc`.

**ATA.** `prog` is what the operation still has to do; `wait` ends the
operation when it fails, `trywait` (the one in `atapi_begin`) does not. The
drive is a nondeterministic choice at each poll: matched, error, or neither.
`clock_read` is two loads with a click possible between them. `failed` records a
failed wait whose result is looked at. The interrupt path is left out: the lines that
`ata_init` enables stay masked (see below), so `ata_interrupt_active` stays 0.

**File system.** `node` holds the `fs_node_t` at every address: three static ones
and a heap of `Addr`, from which every look-up on the volume takes one. A node
remembers its parent by three fields, from which `cd ..` builds the parent's
node; `path` records where the user believes to be. `Tight` are the records whose
name is followed at once by the next record, whose length `iso9660_finddir`
overwrites. `cat` is a loop of reads, `ls` one of `readdir` by a growing index. A
directory and the path table fit one block and reads succeed; behaviours end where
the heap is full. An address holds one object: `iso9660_recreate` builds the node from
`entry_buffer` after giving it back, and that the node's blocks do not lie over the
record is assumed.

**Pages.** The bitmap starts at 1 MiB, where `linker.ld` puts the kernel, and is
not initialised: its cells are the words of the kernel image, first those of the
multiboot header, then code. `Image` is that image, `peak` the most pages in use
at once so far. `kernel_early` takes 15 pages for the heap and 4 for paging, the
header has 21 free bits. After boot pages are taken and given back at will, which
nothing in this version does yet. Memory sizes are multiplied in 32 bits as in the
code (`Word`). Only the cells inside the first 32 pages are considered; those pages
are never handed out.

**Console.** A key is an interrupt, one step from the scan code to the screen.
`held` is the keyboard's state, `line` what the user has typed, `term` the
terminal with its unsigned column. A command is what it prints. Lines longer than
the buffer (which the code's limit of 254 lets through) are not considered. The
serial echo is `terminal_putchar` statement by statement, with a key possible
between any two: `echo` is where it stands and what it has loaded. `torn` records
that a key has come in the middle, `whole` is the screen that whole calls would
have made; `LineShown` and `EchoWhole` speak of the screen where no echo was torn,
the buffer is right in any case.

**Boot.** `stage` is where `kernel_early` is. From `enable_interrupts` on, the
timer, the keyboard and another device raise their lines at any point, and
`irq_handler` is one step, from the gate to the `iret`. The controllers latch edges,
masked or not, and forget them when they are initialised; the keyboard's wire stays
up until its byte is read, so it does not rise again. `exit` and `memtest` end inside
the handler and leave the keyboard's line in service. `rtc_get_time` reads register
by register while the clock runs: its flag comes up `Window` reads ahead of an
update. The PCI scan is one iteration per step. Pages are those of `Pages`, whose
actions are the stages of memory and paging; their users after boot run in stage
`wait`. `kernel.c:102` writes page 3072, which is not mapped, and boot ends there;
`TestPages` has a mapped page too, to see what the rest of the code does. The panics
for a wrong multiboot magic and a failed `mem_init` come before anything is set up
and are left out.

**Rtc, Pci, Libc.** The arithmetic keeps the code's widths: the BCD conversion in
8 bits, `int` with overflow and rounding towards zero. Configuration space answers
double words by address, so that the reads have to compute the right address and
pick the right half.

## Runs

| Run | Question | Result |
|---|---|---|
| `list` | 3 nodes, 2 lists, all calls: consistent, same as sequences? | holds |
| `sched` | 4 processes, killed anywhere: lost, doubled, two holders? Does every waiter wake, unless the holder of the mutex or the waiter just woken is killed? | holds |
| `sched_impl` | clock interrupt between the statements of the push: still `Sched`? | holds |
| `heap` | two pages, ids that wrap, empty requests: overlap, wrong map, a count wrong by more than empty frees took off? | holds |
| `heap_oom` | is "Out of memory!" true? | **violated** |
| `heap_hang` | does `kalloc` end? | **violated** |
| `ata` | a drive that does anything: are waits bounded, does every operation end, never success after a failed wait (but the one `atapi_begin` discards)? | holds |
| `ata_torn` | never a timeout before the window? | **violated** |
| `fs` | any walk through the volume: is the shell where the user believes, on a live node; does `cat` print every byte once and `ls` every record? | holds |
| `fs_parent` | does `cd ..` always lead to a directory? | **violated** |
| `boot` | interrupts anywhere in boot: a page twice, a wrong count, the kernel's code written, a page not mapped, a wrong PCI table, time or text, a line left in service, an interrupt without a handler, an unread key? | holds |
| `console` | are buffer and screen what was typed, across wraps, scrolls and deletions, also when a key interrupts the echo? | holds |

Findings, in short. `kalloc` starts behind `lfb` and stops at it, so the
block at `lfb` is never tried: when it is free again, a page with exactly one
fitting run is reported full. The search jumps over runs that are too short; if
`lfb` is inside one it is jumped over and the loop does not end. A click that rolls the second over
between the two loads of `clock_read` makes the time run backwards; the unsigned
difference is then enormous and `ata_wait` gives up at once. `fs_cdrom_mnt` keeps
`root_recreate` after the mount, so `cd ..` from a directory directly below the
root of the CD leaves the shell with a null directory; the step after it, were
there one, would dereference it.

The models follow the code in places no run singles out: a mutex dies with its
holder, and a wakeup with the waiter that got it (`NoLostMutexWakeup`, `LockReleased` and
`WaiterWoken` except these kills and no other); a process killed between the push and the
switch of `clock_wait` runs again (`BlockedWhere` shows it can only then); `kalloc(0)` followed by
`kfree` takes blocks off `used` that were never on it, so that `UsedExact` is exact less
`lost`; `atapi_begin` has an empty statement where the failed wait
should return (`ata.c:240`), the one wait `SuccessMeansAnswered` excepts; a memory size that
is a multiple of 4 MiB counts as no page; `CodeIntact` is conditional because the
22nd page in use at once would cost a bit of the kernel's code; the search of `cd`, `cat`
and `filesize` stops at a tight record, while `ls` goes on; an empty file's block is read into a
buffer of no bytes (`CatExact` excepts it); a key in the middle of the echo loses characters on the screen;
`irq_enable` and `pic_disable` shift by the line's number also for the second
controller (`isr.c:287`), whose mask so never changes: the disk's interrupts stay off although
`ata.c:387` announces "ata: setting up interrupts" and enables lines 14 and 15; a key
pressed before `pic_init` leaves the keyboard unread for good, since its edge is
forgotten (`KeyServed` excepts it); noon, midnight and, in BCD, the afternoon hours
of the 12-hour format are converted wrongly (`TimeExact` excepts them); PCI functions
past the 32nd are written behind the table (`PciExact` speaks of those inside);
`printf_int` overflows from 10^9 on, and `itoa` of a negative number in base 16 does
not do what its comment says.

Seen while reading, outside the models: `clock_init` passes the arguments of `outb`
in the wrong order, so the timer keeps the firmware's rate; `rtc_read` leaves bit 7 of
port 0x70 set, so the NMIs that `kernel_early` has turned on are off again; `top` pops
the processes it prints off the ready list and loses them.

Bounds. Three nodes and two lists reach every branch of `list_remove`, the one for
a node with two neighbours too. Four processes are the holder, the one woken, one that
barges in and one more that waits. `MaxWaits` bounds the `clock_wait` calls of
one critical section and `Delay` their length; two of each separate the first
round from a later one. Pages with room for five blocks and requests of none, two and
three blocks fragment in every way, and `IdMod` 6 makes ids wrap over the
reserved 0. `MaxLost` 0 ends the empty requests once one has spoilt a count: the room test is
then wrong for the rest of the behaviour, and a second one would only make it more so. `CPS` 2 and `ATA_TIMEOUT` 1 keep the shape of 10 and 2; `Word`
8 is larger than every true difference, as 2^32 is. `MaxSlack` bounds the clicks
that may pass before a runnable caller gets the CPU back; one is enough for a
click in each window. The volume has a directory two levels below its root, so
that `cd ..` is used on a node that `cd ..` has built, files of no, two and two and
a half blocks, and six heap addresses, which are interchangeable (symmetry). The
image has a header of five bits, of which boot takes four, and three more bits of
code; the memory sizes give 1, 2, 3 and 6 cells. A screen of three by three and
lines of four characters wrap a row twice and scroll while a line is edited; two
echoed characters (`MaxSerial`) make the second start on a screen the first has torn.
The view of `console` leaves out the terminal, cursor included, and the place of the echo once an
echo is torn: no property speaks of the screen then, and what a key does to the line buffer
does not depend on it.

In `boot` a controller has three pins, the fewest with a cascade on pin 2, so the
lines are the timer, the keyboard, the cascade and three of the second controller,
of which 3 and 4 are the disk's and 3 raises interrupts. `Window` is six reads, as
many as there are registers: 244 microseconds are far more than the reads take, and
with fewer a torn time would be the model's fault. Each calendar has one update, at
the end of a year, from one digit to two and after noon, in all four formats. The
machines have two and four functions and the table three entries. `INT_MAX` 2047 and
three hexadecimal digits put a power of ten (1000) and its overflow in range, and
formats have up to four items out of six. One drive (`Ids`) is probed or absent.

Fairness. `Kernel` and `ProcStep` are weakly fair: the CPU goes on executing,
and a process does not compute for ever between two calls (nothing preempts it).
`ClockInterrupt` is strongly fair: the PIT keeps ticking and the PIC latches a
tick until interrupts are on again. `Search` and `Step` are weakly fair as
sequential code. In `boot` the taking of interrupts is weakly fair, since the
processor takes one when it can, and the keyboard's strongly: the timer is more
urgent, but comes so seldom that there is time for others in between. Nothing is
assumed of boot itself or of the devices. Deadlock is not checked in the heap, boot
and file-system runs, where a panic, a full heap or a null directory is an end.

Every property has a mutant: an operator named `X_...` in front of the
definition it changes, under which TLC finds the property violated.

## Proofs

Every theorem holds for all values of the constants that satisfy the named
assumptions of its module. `[]` theorems have the usual form: an invariant that is
true initially, that every action preserves, and that implies the property.

`KListProofs` proves `LinksConsistent`, `WellShaped`, `TypeOK` and the refinement
of `ListAbs` for any lists and any finite set of nodes (`NodeAssumption`; nodes
are objects in memory). The links need that a scan stands on a node of its list and
its own node is on none, since the insertion of `list_push_priority` comes in a later
step than the test. But consistent links do not make a list: a cycle beside it whose
nodes all name it is consistent too. `Shape` excludes it: the walk along `next`
is a sequence without repetition, has exactly the nodes that name the list, and
the links go along it (`Chain`). Every function is shown to put a node between two
neighbours of that sequence or to take one out (`Linked`, `Cut`), so the sequence
after it is the old one with one place more or less (`Ins`, `Del`), which is what
the sequence operators of `ListAbs` compute. Where an induction over the walk
would be natural, the proof takes a least counterexample (`LeastNat`). For the
refinement `ScanOK` says that the scan stands `i` places behind the head and that no
node it has passed could have stopped it; so it inserts at the first place of `Stops`.
An iteration that goes on is a stutter.

`SchedProofs` proves `MutexExclusion`, `NoProcessLost` with `OneNodeOneList`,
`NoLostMutexWakeup`, `OneClockWaiter` and `BlockedWhere` for any finite set of
processes, killed anywhere. They
need each other: that nobody is listed twice rests on where a listed process
stands in its calls, that the clock's queue has one user rests on the mutex, and
that a step loses no wakeup on who is on `ready_list`. The invariant is the
conjunction of the state properties with the type and `OnlyIdleListed`. `NoLostMutexWakeup` is
a property of steps, since a kill makes it impossible as one of states: each step but the kill
of the process on its way keeps somebody on its way (`StepOnItsWay`). The assumptions are those on the
constants; there are none on scheduling or on where a process is killed.

`SchedImplProofs` proves that `SchedImpl` implements `Sched`, `ListsSound`, and so that
`MutexExclusion`, `NoProcessLost`, `OneNodeOneList` and `NoLostMutexWakeup` hold of the
pointers (`PointerSafetyTheorem`), for any finite set of processes. It takes what
`list.c` does from `KListProofs` and what the scheduler does to sequences from
`SchedProofs`, both through `INSTANCE`; `SchedImplAssumption` says what they assume
of the constants. The invariant of the lists cannot be used as it is: when the clock
wakes a process between the fourth and the fifth statement of its push, the fifth writes
`queue` into `node->list` of a process that is on `ready_list` by then: TLC finds that state.
Nothing in the scheduler reads `node->list`, so the invariant speaks of a
ghost: the memory agrees in everything but those pointers and the priorities with one
that has the shape `KListProofs` proves (`Twin`, `Sound`). Between the third
statement and the fourth the tail of `queue` is ahead of its head; then the memory
is sound with that tail taken back (`Before`). That the queue is empty when a push
begins comes from `OneClockWaiter` of `SchedProofs`; without it the push could lose a
process. The fourth statement is the push of `Sched`, the others are stutters.

`HeapProofs` proves `NoOverlap`, `MapExact`, `RunsDistinct`, `UsedExact` and
`TypeOK` for pages of any number and size, any block size and any number of ids. The
five need each other: `kfree` walks the map from the first block while the id stays
the same, so that it gives back one allocation and no more rests on `RunsDistinct`,
that the count stays exact on `MapExact`. Two more facts make them inductive: while `kalloc`
searches, nobody holds an empty allocation and the page is one that has been added (`Where`), and an
empty allocation, if there is one, points to a free block (`Held`), so that its `kfree` changes the
count and `lost` but no block of anybody (`FreeEmptyKeeps`). Sizes are any numbers, zero included.

`AtaProofs` proves `SuccessMeansAnswered`, `WaitBounded` and `TypeOK` for any
number of blocks, clock rate and timeout. `WaitBounded` relates the driver's
arithmetic in words to the time that has really passed: the invariant says how many
full seconds the clock has made since the start, now and at the first of the two loads
(`Since`), and how much time can have passed at each place of the loop (`Paced`). `WindowAssumption` says that
a word of seconds is longer than the wait; in the code it is 2^32 seconds against two.
The bound has `MaxSlack` in it, the clicks that pass unseen between two steps. For
`SuccessMeansAnswered` the invariant says that what is left of an operation is made of
waits, the discarded one among them, commands and transfers (`ProgOK`), and that a failed
wait whose result is looked at is on its way to a failing end (`FailOK`).

`BootProofs` proves `NoPageTwice`, `CountExact`, `CodeIntact`, `MapRight` and
`TypeOK` for every image, memory size and budget of pages. A page is marked by a
bit of a word that already means something else; the invariant says that the
bits of pages in use are clear (`Cleared`), that a bit of the image is clear only
for a page in use (`Covered`), and that within the budget only bits of the header have
been taken (`Low`). A pigeonhole argument (`HeaderHasFree`)
then shows that a free bit of the multiboot header is left while fewer pages are out
than it has, so that no word behind it is touched. `MappedAssumption` says that the
pages of the header's bits lie below the end of what `paging_init` maps: 256 + 96
against 3072.

It also proves `NoLineStuck` and `NoStrayInterrupt` for controllers of any size: what
is in service besides the handler's own line is only what a command that never
returns has left, and from `pic_init` on a line of the first controller is masked or has a
handler and the second controller is masked as a whole (`Attended`). It proves
`BootSpec => Spec`, that is, boot with all its interrupts implements the
specification of `Pages`, so the theorems about pages hold through boot
(`BootPagesTheorem`). `TimeExact` is proved for all calendars: the invariant says
that the registers read so far are those of one instant and that the update the flag
announces is at least as far away as reads are left, or comes after the last of them
(`Reads`). The conversion of every
value of every field is a lemma. `PciExact` is proved for every machine
and size of the table: the invariant says that the table lists the places the scan
has come to (`Seen`), which needs that the three nested loops come to every place once
and in order (`StepRank`, `RankOrder`), that the address decodes to the place and
register meant (`AddressIs`), and that no command runs from a handler during the scan. `RtcAssumption` is that the six reads fit into the
time the flag announces (see the bounds) and that the calendar shows valid times;
`BootAssumption` puts the disk's lines on the second controller, as in the code, and gives
the registers of a PCI function their widths and a vendor other than 0xffff.

`FsProofs` proves `CurrentIsPath`, `NoDangling`, `CatExact`, `LsExact` and `TypeOK`
for every volume whose directories form a tree and whose path table names the
parents (`TreeAssumption`, `TableAssumption`), and any set of heap addresses.
`CurrentIsPath` speaks of the current node only and is not inductive: after
`cd ..` the new node comes out of the path table. The invariant adds that the way
is one from directory to listed directory (`Way`), what the node at the end of a way
of each length is (`Stands`), and that the static nodes are as the mount left them.
`ParentMiniOK` is the key lemma: the two walks of the path table find the one
directory that lists d. Where the parent record is the wrong one (the finding),
`current_dir` becomes null and the invariant says nothing more. `CatExact` needs that
whole blocks have been printed as long as bytes are left (`CatInv`), `LsExact` that
the index has counted exactly the records shown (`LsInv`), with the lemma that the
walk of `iso9660_readdir` to an index stops at the record of that number.

`ConsoleProofs` proves the four invariants of the console for a line buffer of any
size, any screen and any keys. `ShiftHeld` needs nothing more than that `shift_down`
is Boolean. `CommandIsTyped`, that the buffer holds the line and a null byte after it,
is inductive with the bound on the line's length (`LineOK`): without it the null byte
might fall outside. The echo's steps leave the shell's variables alone (`EchoKeeps`).

`EchoWhole` follows from `EInv`: at each place of the interruptible `terminal_putchar`,
`whole` is what the rest of the call would make of `term` (`EchoOK`), and what has been
loaded of the row and the column is still what the terminal holds. `LineShown` follows
from `ShownInv`: the prompt and the line stand in front of the cursor (`Shows`), where a
column that `terminal_deletechar` has taken below zero counts from the row above (`Pos`);
`PosIs` shows that the index the code computes in a word is that place. `PutShows`,
`DeleteShows` and `NewRowTidy` say what one character does to it, scrolling included,
and that a line with its prompt fits on the screen less a row (`ConsoleAssumption`) is
what keeps it whole when the screen scrolls. What `terminal_write` does with a text is
an induction over it, done with the least character that would break it (`LeastNat`).
The theorem has the hypothesis `Lines`, that a command prints a carriage return only in
front of a newline: the shell's own commands print none, but `cat` prints what the file
holds, and a short text over a longer one leaves the end of the longer one behind the
cursor. The run also has a command that prints over its own output with as many
characters, which the hypothesis leaves out.

The `TypeOK` of these modules is proved and not part of their runs.

Only model-checked: liveness, which is outside the prover's reach (the
`~>` properties of `Sched`, `Ata`, `Heap` and `Boot`), and `PrintsRight`, whose
operators are recursive and need induction over data.

## Plan

Done: lists, scheduler, heap, ATA driver, file system, pages, console with the serial
echo, interrupt controllers, boot, RTC, PCI and formatting; proofs about all of them
but formatting, the refinements of `ListAbs` and `Sched` included. Next: reads that fail
in `Fs`, and `Heap` on top of `Pages`.

## Not modelled

Descriptor tables, port I/O, CPUID, sound and panic are straight-line hardware
access; the string functions of libc are one loop each. Contents of blocks and
messages are data no property here depends on. `sleep` of `timer.c` is reached only
through `beep`, whose call is a comment; `rtc_write` and `pci_check_vendor` have no
caller, and nothing reads `heap_used_blocks`. Preemption is disabled in the code. A failed read of the drive leaves a buffer
of the heap as it was, and what the file system then does depends on what was in it.
`top` is left out of `Sched`: after it no process is on a list. `PROJECT.json` has the
reasons part by part.
