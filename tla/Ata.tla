--------------------------------- MODULE Ata ---------------------------------
(***************************************************************************)
(* The polling driver of io/ata.c, seen from one caller.  Every operation  *)
(* is a fixed sequence of status waits, commands and transfers; ata_wait   *)
(* polls the drive once per click until it answers, reports an error or    *)
(* the timeout strikes.  The drive may answer anything at any time.  The   *)
(* clock runs beside the caller: clock_read loads its two counters one     *)
(* after the other with interrupts on.                                     *)
(*                                                                         *)
(* ata_interrupt_active is never set: irq_enable cannot unmask IRQ 14 and  *)
(* 15 (1 << irq does not fit the uint8_t mask), so the process_wait calls  *)
(* it guards are never made.  The mutex is modelled in Sched.              *)
(***************************************************************************)
EXTENDS Clock, Sequences

CONSTANTS
    ATA_TIMEOUT,   \* seconds: 2
    Ops,           \* the functions called
    NBlocks,       \* nblocks of a transfer
    MaxSlack       \* clicks that may pass before a runnable caller's next step

Functions == {"ata_read", "ata_write", "atapi_read", "ata_probe"}

ASSUME AtaAssumption ==
    /\ ATA_TIMEOUT \in Nat /\ NBlocks \in Nat /\ MaxSlack \in Nat
    /\ Ops \subseteq Functions

VARIABLES
    clicks, seconds,  \* the clock
    op,               \* the function running, or "none"
    prog,             \* what it still has to do
    alt,              \* ata_probe: what it tries when that fails
    pc,               \* where in ata_wait, ata_reset or clock_wait it is
    start, stop,      \* ata_wait's locals
    after,            \* what follows the ata_reset under way
    result,           \* of the last operation: "ok", "fail"
    spent,            \* clicks since ata_wait began, capped
    failed,           \* history: an ata_wait whose result is looked at has failed
    slack             \* clicks since the caller's last step

vars == <<clicks, seconds, op, prog, alt, pc, start, stop, after, result,
          spent, failed, slack>>

Zero == [seconds |-> 0, millis |-> 0]
SpentCap == (ATA_TIMEOUT + 4) * CPS + 4 * MaxSlack

(* The seconds do not come round again within a wait.                      *)
ASSUME WindowAssumption == Word * CPS >= SpentCap + CPS

(* One block: wait for DRQ, transfer.                                      *)
Blocks == [i \in 1..(2 * NBlocks) |-> IF i % 2 = 1 THEN "wait" ELSE "data"]

(* "wait" is an ata_wait whose failure ends the function, "trywait" the    *)
(* one in atapi_begin whose result is discarded.                           *)
ata_begin == <<"wait", "wait", "cmd">>
ata_identify == ata_begin \o <<"wait", "data">>
atapi_begin == <<"wait", "wait", "cmd", "trywait", "packet">>
Program(f) ==
    CASE f \in {"ata_read", "ata_write"} -> ata_begin \o Blocks \o <<"wait">>
      [] f = "atapi_read"                -> atapi_begin \o Blocks
      [] f = "ata_probe"                 -> <<"reset">> \o ata_identify

Init ==
    /\ clicks = 0 /\ seconds = 0
    /\ op = "none" /\ prog = <<>> /\ alt = <<>> /\ pc = "idle"
    /\ start = Zero /\ stop = Zero /\ after = "none" /\ result = "ok"
    /\ spent = 0 /\ failed = FALSE /\ slack = 0

(* Where the caller has given up the CPU until the next click.             *)
Sleeping == {"sleep", "reset1", "reset2"}

(* clock_interrupt: every sleeper runs on.  clock_wait(0) and clock_wait(1) *)
(* both last until one click has passed.                                   *)
Tick ==
    /\ pc \in Sleeping \cup {"idle"} \/ slack < MaxSlack
    /\ clicks' = NextClicks(clicks)
    /\ seconds' = NextSeconds(clicks, seconds)
    /\ spent' = IF spent < SpentCap /\ pc # "idle" THEN spent + 1 ELSE spent
    /\ slack' = IF pc \in Sleeping \cup {"idle"} THEN 0 ELSE slack + 1
    /\ pc' = CASE pc = "sleep"  -> "poll"
               [] pc = "reset1" -> "reset2"
               [] pc = "reset2" -> "reset3"
               [] OTHER         -> pc
    /\ UNCHANGED <<op, prog, alt, start, stop, after, result, failed>>

Begin(f) ==
    /\ pc = "idle"
    /\ op' = f /\ prog' = Program(f) /\ pc' = "next"
    /\ alt' = IF f = "ata_probe" THEN ata_identify ELSE <<>>
    /\ failed' = FALSE /\ slack' = 0
    /\ UNCHANGED <<clicks, seconds, start, stop, after, result, spent>>

(* ata_probe reads the status 0xff.                                        *)
NothingAttached ==
    /\ pc = "next" /\ op = "ata_probe" /\ prog = Program(op)
    /\ op' = "none" /\ prog' = <<>> /\ alt' = <<>> /\ pc' = "idle"
    /\ result' = "fail" /\ slack' = 0 /\ spent' = 0
    /\ UNCHANGED <<clicks, seconds, start, stop, after, failed>>

Finish ==
    /\ pc = "next" /\ prog = <<>>
    /\ op' = "none" /\ alt' = <<>> /\ pc' = "idle" /\ result' = "ok" /\ slack' = 0
    /\ start' = Zero /\ stop' = Zero /\ spent' = 0
    /\ UNCHANGED <<clicks, seconds, prog, after, failed>>

(* A command or a transfer.                                                *)
Transfer ==
    /\ pc = "next" /\ prog # <<>> /\ Head(prog) \in {"cmd", "packet", "data"}
    /\ prog' = Tail(prog) /\ slack' = 0
    /\ UNCHANGED <<clicks, seconds, op, alt, pc, start, stop, after, result,
                   spent, failed>>

(* The ata_reset of ata_probe, and that of ata_wait below: the reset line  *)
(* is raised and lowered again, with a clock_wait(1) after each.           *)
ProbeReset ==
    /\ pc = "next" /\ prog # <<>> /\ Head(prog) = "reset"
    /\ prog' = Tail(prog) /\ pc' = "reset1" /\ after' = "next" /\ slack' = 0
    /\ UNCHANGED <<clicks, seconds, op, alt, start, stop, result, spent, failed>>

(* ata_wait: start = clock_read(), load by load.                           *)
WaitStart ==
    /\ pc = "next" /\ prog # <<>> /\ Head(prog) \in {"wait", "trywait"}
    /\ start' = [start EXCEPT !.seconds = seconds]
    /\ spent' = 0 /\ pc' = "start" /\ slack' = 0
    /\ UNCHANGED <<clicks, seconds, op, prog, alt, stop, after, result, failed>>

WaitStart2 ==
    /\ pc = "start"
    /\ start' = [start EXCEPT !.millis = Millis(clicks)]
    /\ pc' = "poll" /\ slack' = 0
    /\ UNCHANGED <<clicks, seconds, op, prog, alt, stop, after, result, spent, failed>>

(* The status has the bits asked for ...                                   *)
PollMatch ==
    /\ pc = "poll"
    /\ prog' = Tail(prog) /\ pc' = "next" /\ slack' = 0
    /\ UNCHANGED <<clicks, seconds, op, alt, start, stop, after, result, spent, failed>>

ResetAndFail ==
    /\ pc' = "reset1" /\ after' = "fail"
    /\ failed' = (failed \/ Head(prog) = "wait")

(* ... or an error bit ...                                                 *)
PollError ==
    /\ pc = "poll"
    /\ ResetAndFail /\ slack' = 0
    /\ UNCHANGED <<clicks, seconds, op, prog, alt, start, stop, result, spent>>

(* ... or neither, and the time is read.                                   *)
PollAgain ==
    /\ pc = "poll"
    /\ stop' = [stop EXCEPT !.seconds = seconds]
    /\ pc' = "read" /\ slack' = 0
    /\ UNCHANGED <<clicks, seconds, op, prog, alt, start, after, result, spent, failed>>

Elapsed == clock_diff(start, [stop EXCEPT !.millis = Millis(clicks)])

(* Mutant: the comparison is with the milliseconds.                        *)
TimedOut_Millis == Elapsed.millis > 1000 * ATA_TIMEOUT

TimedOut == Elapsed.seconds > ATA_TIMEOUT

(* The second load, and the decision: time out, or clock_wait(0).          *)
PollTime ==
    /\ pc = "read"
    /\ stop' = Zero
    /\ \/ TimedOut /\ ResetAndFail
       \/ ~TimedOut /\ pc' = "sleep" /\ UNCHANGED <<after, failed>>
    /\ slack' = 0
    /\ UNCHANGED <<clicks, seconds, op, prog, alt, start, result, spent>>

(* Mutant: every failed wait is passed over like the one in atapi_begin.   *)
ResetDone_Ignore ==
    /\ pc = "reset3"
    /\ after' = "none" /\ slack' = 0
    /\ prog' = IF after = "next" THEN prog ELSE Tail(prog)
    /\ pc' = "next"
    /\ UNCHANGED <<clicks, seconds, op, alt, start, stop, result, spent, failed>>

(* After the reset: go on, pass over the failed wait, try the other        *)
(* identification, or return 0.                                            *)
ResetDone ==
    /\ pc = "reset3"
    /\ after' = "none" /\ slack' = 0
    /\ \/ /\ after = "next"
          /\ pc' = "next" /\ UNCHANGED <<op, prog, alt, result, start, spent, failed>>
       \/ /\ after = "fail" /\ Head(prog) = "trywait"
          /\ prog' = Tail(prog) /\ pc' = "next"
          /\ UNCHANGED <<op, alt, result, start, spent, failed>>
       \/ /\ after = "fail" /\ Head(prog) = "wait" /\ alt # <<>>
          /\ prog' = alt /\ alt' = <<>> /\ pc' = "next" /\ failed' = FALSE
          /\ UNCHANGED <<op, result, start, spent>>
       \/ /\ after = "fail" /\ Head(prog) = "wait" /\ alt = <<>>
          /\ op' = "none" /\ prog' = <<>> /\ pc' = "idle" /\ result' = "fail"
          /\ start' = Zero /\ spent' = 0
          /\ UNCHANGED <<alt, failed>>
    /\ UNCHANGED <<clicks, seconds, stop>>

Step ==
    \/ NothingAttached \/ Finish \/ Transfer \/ ProbeReset
    \/ WaitStart \/ WaitStart2 \/ PollMatch \/ PollError \/ PollAgain \/ PollTime
    \/ ResetDone

Next == Tick \/ Step \/ \E f \in Ops : Begin(f)

Spec == Init /\ [][Next]_vars

(* The clock ticks, and the caller runs when it can.                       *)
FairSpec == Spec /\ WF_vars(Tick) /\ WF_vars(Step)
------------------------------------------------------------------------------
Ends(r) == op # "none" /\ op' = "none" /\ result' = r

Steps == {"wait", "trywait", "cmd", "packet", "data", "reset"}

(* Counters are words, and a place in the driver is one of those above.    *)
TypeOK ==
    /\ clicks \in 0..CPS - 1 /\ seconds \in 0..Word - 1
    /\ op \in Functions \cup {"none"} /\ prog \in Seq(Steps) /\ alt \in Seq(Steps)
    /\ pc \in {"idle", "next", "start", "poll", "read", "reset3"} \cup Sleeping
    /\ start \in [seconds: 0..Word - 1, millis: 0..999]
    /\ stop \in [seconds: 0..Word - 1, millis: 0..999]
    /\ after \in {"none", "next", "fail"} /\ result \in {"ok", "fail"}
    /\ spent \in 0..SpentCap /\ failed \in BOOLEAN /\ slack \in 0..MaxSlack

(* ata_wait does not poll on for long after the window: elapsed.seconds is *)
(* a whole number, compared with >, a reading of the clock may be a second *)
(* behind, and the clicks between its two loads are not seen.              *)
WaitBounded == pc = "sleep" => spent < (ATA_TIMEOUT + 2) * CPS + MaxSlack

(* An operation that reports success, the packet read of the file system   *)
(* among them, has seen the drive answer every wait on its way but one:    *)
(* atapi_begin discards the result of the wait before the packet.          *)
SuccessMeansAnswered == [][Ends("ok") => ~failed]_vars

(* The timeout strikes only after the window.                              *)
NoEarlyTimeout == pc = "read" /\ TimedOut => spent >= ATA_TIMEOUT * CPS

(* Every operation ends, with a drive that never answers too.              *)
OperationEnds == (op # "none") ~> (op = "none")
==============================================================================
