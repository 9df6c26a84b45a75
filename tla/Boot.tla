-------------------------------- MODULE Boot --------------------------------
(***************************************************************************)
(* kernel_early and kernel_main, stage by stage: the page allocator, the   *)
(* scan of the PCI buses, the interrupt controllers, the real-time clock,  *)
(* the handlers, and the first wait.  Between enable_interrupts and the    *)
(* end the timer, the keyboard and other devices interrupt.                *)
(*                                                                         *)
(* current is 0 throughout, since process_init is a comment.  clock_wait   *)
(* then files the node at address 0, which leaves the queue empty, and     *)
(* process_switch waits for ever for a ready process, with interrupts on:  *)
(* stage "wait".                                                           *)
(***************************************************************************)
EXTENDS Pages, Pic, Pci, Rtc

CONSTANTS
    ATA_IRQ0, ATA_IRQ1,    \* 14 and 15
    Others,     \* further lines on which a device interrupts
    Machines,   \* configuration spaces: place -> vendor, device, class, subclass
    Calendars,  \* sequences of consecutive instants
    Window,     \* register reads that fit between the flag and the update
    TestPages,  \* page that kernel_early writes: 3072, which is not mapped
    Ids         \* drives ata_init probes: 4

ASSUME BootAssumption ==
    /\ {ATA_IRQ0, ATA_IRQ1} \subseteq Irq \ Pin          \* of the second controller
    /\ Others \subseteq Irq \ {0, 1, Cascade}
    /\ \A m \in Machines : DOMAIN m \subseteq Place /\ \A p \in DOMAIN m : m[p] \in Function
    /\ Window \in Nat /\ Ids \in Nat /\ TestPages \subseteq Nat

(* The flag comes up early enough for all registers to be read.            *)
ASSUME RtcAssumption == Window >= Len(Fields) /\ Calendars \subseteq Seq(Instants) \ {<<>>}

VARIABLES
    stage,                  \* where kernel_early is
    i,                      \* its loop counter
    machine, pci_devices,
    interrupts,             \* the processor's flag
    pic, irq_routines,
    obf,                    \* the keyboard has a byte that nobody has read
    early,                  \* it has had it since before its line was masked
    ata_interrupt_active,
    rtc                     \* the real-time clock, and rtc_get_time

pcivars == <<machine, pci_devices>>
irqvars == <<interrupts, pic, irq_routines>>
devvars == <<obf, early, ata_interrupt_active>>
bootvars == <<stage, i, pcivars, irqvars, devvars, rtc>>
allvars == <<vars, bootvars>>

(* The clock runs over the instants; uip counts the reads since its        *)
(* update-in-progress flag has come up, and is -1 while it is down.        *)
RtcOff == [at |-> 0, uip |-> -1, raw |-> <<>>, time |-> <<>>]

BootInit ==
    /\ Init
    /\ stage = "memory" /\ i = 0
    /\ machine \in Machines /\ pci_devices = <<>>
    /\ interrupts = FALSE /\ pic = PicInit /\ irq_routines = [q \in Irq |-> "none"]
    /\ obf = FALSE /\ early = FALSE /\ ata_interrupt_active = FALSE
    /\ rtc = RtcOff
------------------------------------------------------------------------------
(* A stage that changes nothing but what is named.                         *)
At(from, to) == stage = from /\ stage' = to

(* mem_init and main_heap_init.                                            *)
Memory ==
    /\ stage = "memory"
    /\ \/ \E usable \in Sizes : mem_init(usable)
       \/ main_heap_init
    /\ stage' = IF mode' = "paging" THEN "pci" ELSE stage
    /\ UNCHANGED <<i, pcivars, irqvars, devvars, rtc>>

(* Mutant: a place where nothing answers takes an entry too.               *)
ScanPlace_Holes(p) == TRUE

(* vendor == 0xffff: continue.                                             *)
ScanPlace(p) == pci_get_vendor(machine, p) # None

(* An iteration of the innermost loop of pci_check_all_buses.  Entries     *)
(* past the end of the table are written behind it.                        *)
PciScan ==
    /\ stage = "pci" /\ i < Steps
    /\ i' = i + 1
    /\ pci_devices' = IF ScanPlace(Step(i)) /\ Len(pci_devices) < TableSize
                      THEN Append(pci_devices, Entry(machine, Step(i)))
                      ELSE pci_devices
    /\ UNCHANGED <<vars, stage, machine, irqvars, devvars, rtc>>
PciDone ==
    /\ At("pci", "idt") /\ i = Steps /\ i' = 0
    /\ UNCHANGED <<vars, pcivars, irqvars, devvars, rtc>>

(* idt_install, isrs_install and irq_install; then enable_interrupts.      *)
IrqInstall ==
    /\ At("idt", "sti")
    /\ pic' = irq_remap
    /\ UNCHANGED <<vars, i, pcivars, interrupts, irq_routines, devvars, rtc>>
EnableInterrupts ==
    /\ At("sti", "timer")
    /\ interrupts' = TRUE
    /\ UNCHANGED <<vars, i, pcivars, pic, irq_routines, devvars, rtc>>

timer_install ==
    /\ At("timer", "rtc")
    /\ irq_routines' = [irq_routines EXCEPT ![0] = "timer"]
    /\ UNCHANGED <<vars, i, pcivars, interrupts, pic, devvars, rtc>>
------------------------------------------------------------------------------
(* Mutant: another bit of the status is tested.                            *)
rtc_update_in_progress_WrongBit == FALSE

rtc_update_in_progress == rtc.uip # -1

(* A read of a register takes its time.                                    *)
Later(uip) == IF uip \in 0..(Window - 1) THEN uip + 1 ELSE uip

(* rtc_get_time, with interrupts off.  Both loops wait for the end of an   *)
(* update ...                                                              *)
RtcBegin ==
    /\ At("rtc", "uip1")
    /\ interrupts' = FALSE
    /\ \E f \in RtcFormat, calendar \in Calendars, uip \in {-1, 0} :
           rtc' = [format |-> f, calendar |-> calendar, at |-> 1, uip |-> uip,
                   raw |-> <<>>, time |-> <<>>]
    /\ UNCHANGED <<vars, i, pcivars, pic, irq_routines, devvars>>
RtcWait ==
    /\ stage \in {"uip1", "uip2"}
    /\ stage' = IF rtc_update_in_progress THEN stage
                ELSE IF stage = "uip1" THEN "uip2" ELSE "read"
    /\ rtc' = [rtc EXCEPT !.uip = Later(@)]
    /\ UNCHANGED <<vars, i, pcivars, irqvars, devvars>>

(* ... then the registers are read one by one, and the format.             *)
RtcRead ==
    /\ stage = "read" /\ Len(rtc.raw) < Len(Fields)
    /\ LET field == Fields[Len(rtc.raw) + 1]
       IN  rtc' = [rtc EXCEPT !.raw = Append(@, Register(rtc.format, rtc.calendar[rtc.at], field)),
                              !.uip = Later(@)]
    /\ UNCHANGED <<vars, stage, i, pcivars, irqvars, devvars>>
Field(name) == CHOOSE k \in DOMAIN Fields : Fields[k] = name
RtcConvert ==
    /\ At("read", "shown") /\ Len(rtc.raw) = Len(Fields)
    /\ rtc' = [rtc EXCEPT !.time = Decoded(rtc.format, [x \in Range(Fields) |-> rtc.raw[Field(x)]])]
    /\ interrupts' = TRUE
    /\ UNCHANGED <<vars, i, pcivars, pic, irq_routines, devvars>>

(* rtc_init prints the time, which nothing else uses.                      *)
RtcShown ==
    /\ At("shown", "pic0")
    /\ rtc' = RtcOff
    /\ UNCHANGED <<vars, i, pcivars, irqvars, devvars>>

(* The clock itself.                                                       *)
RtcFlag ==
    /\ stage \in {"uip1", "uip2", "read"} /\ rtc.uip = -1 /\ rtc.at < Len(rtc.calendar)
    /\ rtc' = [rtc EXCEPT !.uip = 0]
    /\ UNCHANGED <<vars, stage, i, pcivars, irqvars, devvars>>
RtcUpdate ==
    /\ stage \in {"uip1", "uip2", "read"} /\ rtc.uip = Window
    /\ rtc' = [rtc EXCEPT !.uip = -1,
                          !.at = IF @ < Len(rtc.calendar) THEN @ + 1 ELSE @]
    /\ UNCHANGED <<vars, stage, i, pcivars, irqvars, devvars>>
------------------------------------------------------------------------------
Program(from, to, controllers) ==
    /\ At(from, to)
    /\ pic' = controllers
    /\ UNCHANGED <<vars, i, pcivars, interrupts, irq_routines, obf, ata_interrupt_active, rtc>>

(* pic_init(32,40), with interrupts on.  The wire of a keyboard that waits *)
(* to be read does not rise again, and until the mask is written its       *)
(* interrupt finds no handler.                                             *)
PicInit0 == Program("pic0", "mask0", pic_init(pic, 0)) /\ UNCHANGED early
PicMask0 == Program("mask0", "pic1", pic_mask(pic, 0)) /\ early' = obf
PicInit1 == Program("pic1", "mask1", pic_init(pic, 1)) /\ UNCHANGED early
PicMask1 == Program("mask1", "disable", pic_mask(pic, 1)) /\ UNCHANGED early

(* The loop of kernel_early over all lines.                                *)
PicDisable ==
    /\ stage = "disable" /\ i \in Irq
    /\ pic' = pic_acknowledge(pic_disable(pic, i), i)
    /\ i' = IF i + 1 \in Irq THEN i + 1 ELSE 0
    /\ stage' = IF i + 1 \in Irq THEN stage ELSE "clock"
    /\ UNCHANGED <<vars, pcivars, interrupts, irq_routines, devvars, rtc>>

(* irq_install_handler and irq_enable, one line after the other.           *)
Install(from, to, lines, handler, controllers) ==
    /\ At(from, to)
    /\ irq_routines' = [q \in Irq |-> IF q \in lines THEN handler ELSE irq_routines[q]]
    /\ pic' = controllers
    /\ UNCHANGED <<vars, i, pcivars, interrupts, devvars, rtc>>

clock_init == Install("clock", "paging", {0}, "clock", irq_enable(pic, 0))

paging_init ==
    /\ stage = "paging"
    /\ PageDirectory \/ PageTable
    /\ stage' = IF mode' = "on" THEN "test" ELSE stage
    /\ UNCHANGED <<i, pcivars, irqvars, devvars, rtc>>

(* The write that "should page fault"; fault_handler panics.               *)
TestWrite ==
    /\ stage = "test"
    /\ \E page \in TestPages :
           IF Translate(page) = -1 THEN stage' = "panic" /\ interrupts' = FALSE
                                   ELSE stage' = "ata" /\ UNCHANGED interrupts
    /\ UNCHANGED <<vars, i, pcivars, pic, irq_routines, devvars, rtc>>

ata_init ==
    Install("ata", "probe", {ATA_IRQ0, ATA_IRQ1}, "ata",
            irq_enable(irq_enable(pic, ATA_IRQ0), ATA_IRQ1))

(* ata_probe of a drive: nothing attached, or the reset and its wait.      *)
ata_probe ==
    /\ stage = "probe" /\ i < Ids
    /\ \/ i' = i + 1 /\ UNCHANGED stage
       \/ i' = i /\ stage' = "wait"
    /\ UNCHANGED <<vars, pcivars, irqvars, devvars, rtc>>
ProbesDone ==
    /\ At("probe", "keyboard") /\ i = Ids /\ i' = 0
    /\ UNCHANGED <<vars, pcivars, irqvars, devvars, rtc>>

(* Mutant: the line is not opened.                                         *)
keyboard_install_Masked ==
    /\ At("keyboard", "main")
    /\ irq_routines' = [irq_routines EXCEPT ![1] = "keyboard"]
    /\ UNCHANGED <<vars, i, pcivars, interrupts, pic, devvars, rtc>>

keyboard_install == Install("keyboard", "main", {1}, "keyboard", irq_enable(pic, 1))

(* kernel_main mounts the CD, whose first read waits for the clock: no     *)
(* drive answers at once, and an absent one has its error bit set.         *)
kernel_main ==
    /\ At("main", "wait")
    /\ UNCHANGED <<vars, i, pcivars, irqvars, devvars, rtc>>

(* Users of pages after boot.                                              *)
Users ==
    /\ stage = "wait"
    /\ AllocPage \/ \E page \in live : memory_free_page(page)
    /\ UNCHANGED bootvars
OutOfMemory ==
    /\ stage \in {"memory", "paging", "wait"}
    /\ Panic
    /\ stage' = "panic"
    /\ UNCHANGED <<i, pcivars, irqvars, devvars, rtc>>
------------------------------------------------------------------------------
(* Devices: the timer and others pulse their line, the keyboard holds its  *)
(* line up until its byte is read.                                         *)
Pulse(q) ==
    /\ pic' = Latch(pic, q)
    /\ UNCHANGED <<vars, stage, i, pcivars, interrupts, irq_routines, devvars, rtc>>
Key ==
    /\ ~obf /\ obf' = TRUE
    /\ pic' = Latch(pic, 1)
    /\ UNCHANGED <<vars, stage, i, pcivars, interrupts, irq_routines, early,
                   ata_interrupt_active, rtc>>

(* irq_handler, from the gate, which turns interrupts off, to iret.  The   *)
(* keyboard's handler reads its byte.                                      *)
Interrupt(q) ==
    /\ interrupts /\ Pending(pic) # {} /\ q = Vector(pic)
    /\ obf' = (obf /\ irq_routines[q] # "keyboard")
    /\ ata_interrupt_active' = (ata_interrupt_active \/ irq_routines[q] = "ata")
    /\ pic' = Acknowledged(Accept(pic), q)
    /\ UNCHANGED <<vars, stage, i, pcivars, interrupts, irq_routines, early, rtc>>

(* The commands "exit" and "memtest" end in the keyboard's handler: the    *)
(* one in process_switch, with interrupts on again, the other in the panic *)
(* of a fault.  The interrupt itself is never ended.                       *)
LastCommand ==
    /\ interrupts /\ Pending(pic) # {} /\ Vector(pic) = 1 /\ irq_routines[1] = "keyboard"
    /\ obf' = FALSE
    /\ pic' = Accept(pic)
    /\ \/ stage' = "exit" /\ UNCHANGED interrupts
       \/ stage' = "panic" /\ interrupts' = FALSE
    /\ UNCHANGED <<vars, i, pcivars, irq_routines, early, ata_interrupt_active, rtc>>

Main ==
    \/ Memory \/ PciScan \/ PciDone \/ IrqInstall \/ EnableInterrupts \/ timer_install
    \/ RtcBegin \/ RtcWait \/ RtcRead \/ RtcConvert \/ RtcShown
    \/ PicInit0 \/ PicMask0 \/ PicInit1 \/ PicMask1 \/ PicDisable
    \/ clock_init \/ paging_init \/ TestWrite \/ ata_init \/ ata_probe \/ ProbesDone
    \/ keyboard_install \/ kernel_main
    \/ OutOfMemory

BootNext ==
    \/ Main \/ Users \/ RtcFlag \/ RtcUpdate \/ Key \/ LastCommand
    \/ \E q \in {0} \cup Others : Pulse(q)
    \/ \E q \in Irq : Interrupt(q)

BootSpec == BootInit /\ [][BootNext]_allvars

(* The processor takes interrupts while they are on.  The keyboard's is    *)
(* strongly fair: the timer, which is more urgent, comes so seldom that    *)
(* there is time for others in between.                                    *)
FairBoot ==
    /\ BootSpec
    /\ WF_allvars(\E q \in Irq : Interrupt(q)) /\ SF_allvars(Interrupt(1))
------------------------------------------------------------------------------
(* Of two places the one that pci_check_all_buses comes to first.          *)
Before(p, q) ==
    \/ p[1] < q[1]
    \/ p[1] = q[1] /\ p[2] < q[2]
    \/ p[1] = q[1] /\ p[2] = q[2] /\ p[3] < q[3]

PlaceOf(entry) == <<entry.bus, entry.slot, entry.func>>
RightEntry(p) ==
    [bus |-> p[1], slot |-> p[2], func |-> p[3],
     vendor |-> machine[p].vendor, device |-> machine[p].device,
     class |-> machine[p].class, subclass |-> machine[p].subclass]

(* The table lists places, in the order of the scan, and leaves out only   *)
(* what comes after a full table.                                          *)
TableLists(places) ==
    /\ Len(pci_devices) <= TableSize
    /\ \A k \in DOMAIN pci_devices :
           LET p == PlaceOf(pci_devices[k]) IN p \in places /\ pci_devices[k] = RightEntry(p)
    /\ \A j, k \in DOMAIN pci_devices :
           j < k => Before(PlaceOf(pci_devices[j]), PlaceOf(pci_devices[k]))
    /\ \A p \in places :
           \/ \E k \in DOMAIN pci_devices : PlaceOf(pci_devices[k]) = p
           \/ /\ Len(pci_devices) = TableSize
              /\ \A k \in DOMAIN pci_devices : Before(PlaceOf(pci_devices[k]), p)

(* The table of PCI devices lists the functions of the machine, the first  *)
(* ones if there are more, in the order of the scan, with what they        *)
(* answer.                                                                 *)
PciExact ==
    stage \notin {"memory", "pci", "panic"} => TableLists(DOMAIN machine)

(* The time printed is one instant, not a mixture of two across an update  *)
(* of the clock, and rightly converted: in 24-hour mode, in the morning    *)
(* hours of 12-hour mode, and in its afternoon hours in binary.            *)
TimeExact ==
    stage = "shown" =>
        \E k \in {rtc.at - 1, rtc.at} \cap (1..Len(rtc.calendar)) :
            LET instant == rtc.calendar[k]
            IN  \/ rtc.time = [instant EXCEPT !.year = @ + 2000]
                \/ ~rtc.format.h24 /\ instant.hours \in {0, 12}
                \/ ~rtc.format.h24 /\ ~rtc.format.binary /\ instant.hours > 12

(* After irq_handler no line of either controller is left in service:      *)
(* nothing keeps later interrupts out, whatever interrupts in between the  *)
(* programming of the controllers.  Only the keyboard's is when the        *)
(* command it has run does not return.                                     *)
NoLineStuck ==
    /\ pic[1].isr = {}
    /\ pic[0].isr \subseteq (IF stage \in {"exit", "panic"} THEN {1} ELSE {})

(* From clock_init on an interrupt that reaches irq_handler finds its      *)
(* handler: edges latched while a line had none, keys among them, wait     *)
(* behind the masks until irq_install_handler has run.  Without a handler  *)
(* the interrupt would be ended with nothing done and the keyboard's byte  *)
(* never read.                                                             *)
NoStrayInterrupt ==
    irq_routines[0] = "clock" /\ Pending(pic) # {} => irq_routines[Vector(pic)] # "none"

(* Once keyboard_install has run, the keyboard is read whenever it has a   *)
(* byte, also one that came while its line was masked, until a command     *)
(* ends the system; not when the byte was there before that, since then    *)
(* nobody has read it.                                                     *)
KeyServed ==
    (obf /\ ~early /\ irq_routines[1] = "keyboard") ~> (~obf \/ stage = "exit" \/ ~interrupts)
==============================================================================
