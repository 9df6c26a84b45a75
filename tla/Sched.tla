------------------------------- MODULE Sched -------------------------------
(***************************************************************************)
(* The scheduler of kernel/process.c with the two things processes block   *)
(* on: a mutex (kernel/mutex.c; the kernel has one, ata_mutex) and the     *)
(* clock (kernel/clock.c, whose clock_wait every process calls holding     *)
(* that mutex, from io/ata.c; ata_probe calls it without, at boot, before  *)
(* there is a process).                                                    *)
(*                                                                         *)
(* There is one CPU and no preemption (allow_preempt is never set), so a   *)
(* stretch of code that runs with interrupts off is one step.  Between two *)
(* steps interrupts are on, except in the idle loop at "pick", and the     *)
(* clock interrupt may strike.  Lists are sequences here; SchedImpl has    *)
(* the pointers.                                                           *)
(***************************************************************************)
EXTENDS Integers, Sequences, FiniteSets

CONSTANTS Proc,      \* the processes on ready_list when scheduling starts
          NULL,      \* the null process pointer
          Delay,     \* clicks a clock_wait has to last
          MaxWaits   \* clock_wait calls in one critical section: ATA_TIMEOUT
                     \* bounds the polling of ata_wait

ASSUME SchedAssumption ==
    /\ NULL \notin Proc /\ IsFiniteSet(Proc)
    /\ Delay \in Nat /\ MaxWaits \in Nat

VARIABLES
    current,     \* the running process
    cpu,         \* where the CPU is: "boot" before the first switch, "run" in
                 \* current, "pick" in the loop of process_switch, "open"
                 \* between its enable_interrupts and hlt, "hlt" halted
    ready_list,  \* static list of process.c
    queue,       \* static list of clock.c
    waitqueue,   \* the mutex' list
    locked,      \* the mutex' flag
    state,       \* p->state
    pc,          \* the call a process is in
    elapsed,     \* clicks since the clock_read that started the clock_wait
    waits,       \* clock_wait calls left in the critical section
    killed       \* history: the processes that went through process_exit

vars == <<current, cpu, ready_list, queue, waitqueue, locked, state, pc,
          elapsed, waits, killed>>

(* pc: "user" outside the kernel or in code that holds nothing, "retry" in *)
(* mutex_lock after its process_wait, "cs" holding the mutex, "push" in    *)
(* clock_wait before the process_wait, "pushed" in process_wait between    *)
(* list_push_tail and the disable_interrupts of process_switch, "sleep"    *)
(* after that process_wait.                                                *)
InCS == {"cs", "push", "pushed", "sleep"}
PC == InCS \cup {"user", "retry"}

(* p is linked into the list s, and s links nobody twice.                  *)
On(s, p) == \E i \in 1..Len(s) : s[i] = p
NoDup(s) == \A i, j \in 1..Len(s) : s[i] = s[j] => i = j

(* READY processes wait on ready_list in the order process_test put them   *)
(* there; the boot code runs.                                              *)
Init ==
    /\ current = NULL /\ cpu = "boot"
    /\ ready_list \in {s \in [1..Cardinality(Proc) -> Proc] :
                           NoDup(s) /\ \A p \in Proc : On(s, p)}
    /\ queue = <<>> /\ waitqueue = <<>> /\ locked = FALSE
    /\ state = [p \in Proc |-> "READY"]
    /\ pc = [p \in Proc |-> "user"]
    /\ elapsed = 0 /\ waits = 0 /\ killed = {}

Running(p, at) == cpu = "run" /\ current = p /\ pc[p] \in at

(* The first half of process_switch: current is put aside as newstate.     *)
SwitchFrom(p, newstate) ==
    /\ state' = [state EXCEPT ![p] = newstate]
    /\ current' = NULL
    /\ cpu' = "pick"

(* The boot code has no process: its first process_switch saves nothing    *)
(* and never returns.                                                      *)
BootSwitch ==
    /\ cpu = "boot"
    /\ cpu' = "pick"
    /\ UNCHANGED <<current, ready_list, queue, waitqueue, locked, state, pc,
                   elapsed, waits, killed>>

(* The loop of process_switch finds a process and returns to it.           *)
Dispatch ==
    /\ cpu = "pick" /\ ready_list # <<>>
    /\ current' = Head(ready_list)
    /\ ready_list' = Tail(ready_list)
    /\ state' = [state EXCEPT ![Head(ready_list)] = "RUNNING"]
    /\ cpu' = "run"
    /\ UNCHANGED <<queue, waitqueue, locked, pc, elapsed, waits, killed>>

(* It finds none: interrupts go on, and only then the CPU halts.           *)
IdleOpen ==
    /\ cpu = "pick" /\ ready_list = <<>>
    /\ cpu' = "open"
    /\ UNCHANGED <<current, ready_list, queue, waitqueue, locked, state, pc,
                   elapsed, waits, killed>>

IdleHalt ==
    /\ cpu = "open"
    /\ cpu' = "hlt"
    /\ UNCHANGED <<current, ready_list, queue, waitqueue, locked, state, pc,
                   elapsed, waits, killed>>

(* IRQ 0: clock_interrupt and its process_wakeup_all, which pops from the  *)
(* head of queue and pushes at the tail of ready_list until queue is       *)
(* empty.  A halted CPU goes round the loop of process_switch again.       *)
WakeAll(s) == [p \in Proc |-> IF On(queue, p) THEN "READY" ELSE s[p]]

(* Mutants: the wakeup is missing, or the halted CPU does not look at      *)
(* ready_list again.                                                       *)
ClockInterrupt_NoWakeup ==
    /\ cpu # "pick"
    /\ elapsed' = IF elapsed < Delay THEN elapsed + 1 ELSE elapsed
    /\ cpu' = IF cpu = "hlt" THEN "pick" ELSE cpu
    /\ UNCHANGED <<current, ready_list, queue, waitqueue, locked, state, pc,
                   waits, killed>>

ClockInterrupt_StayHalted ==
    /\ cpu # "pick"
    /\ ready_list' = ready_list \o queue
    /\ queue' = <<>>
    /\ state' = WakeAll(state)
    /\ elapsed' = IF elapsed < Delay THEN elapsed + 1 ELSE elapsed
    /\ UNCHANGED <<current, cpu, waitqueue, locked, pc, waits, killed>>

ClockInterrupt ==
    /\ cpu # "pick"
    /\ ready_list' = ready_list \o queue
    /\ queue' = <<>>
    /\ state' = WakeAll(state)
    /\ elapsed' = IF elapsed < Delay THEN elapsed + 1 ELSE elapsed
    /\ cpu' = IF cpu = "hlt" THEN "pick" ELSE cpu
    /\ UNCHANGED <<current, waitqueue, locked, pc, waits, killed>>

Yield(p) ==
    /\ Running(p, {"user"})
    /\ SwitchFrom(p, "READY")
    /\ ready_list' = Append(ready_list, p)
    /\ UNCHANGED <<queue, waitqueue, locked, pc, elapsed, waits, killed>>

(* Mutant: a woken waiter does not test the flag again.                    *)
MutexLock_IfNotWhile(p) ==
    /\ Running(p, {"user", "retry"})
    /\ ~locked \/ pc[p] = "retry"
    /\ locked' = TRUE
    /\ pc' = [pc EXCEPT ![p] = "cs"]
    /\ waits' = MaxWaits
    /\ UNCHANGED <<current, cpu, ready_list, queue, waitqueue, state, elapsed,
                   killed>>

(* mutex_lock, from its disable_interrupts on: the flag is free ...        *)
MutexLock(p) ==
    /\ Running(p, {"user", "retry"})
    /\ ~locked
    /\ locked' = TRUE
    /\ pc' = [pc EXCEPT ![p] = "cs"]
    /\ waits' = MaxWaits
    /\ UNCHANGED <<current, cpu, ready_list, queue, waitqueue, state, elapsed,
                   killed>>

(* ... or it is not, and process_wait gives up the CPU.                    *)
MutexBlock(p) ==
    /\ Running(p, {"user", "retry"})
    /\ locked
    /\ waitqueue' = Append(waitqueue, p)
    /\ SwitchFrom(p, "BLOCKED")
    /\ pc' = [pc EXCEPT ![p] = "retry"]
    /\ UNCHANGED <<ready_list, queue, locked, elapsed, waits, killed>>

(* Mutants: no wakeup, a wakeup that forgets the push to ready_list, and   *)
(* an unlock that leaves the flag up.                                      *)
MutexUnlock_NoWakeup(p) ==
    /\ Running(p, {"cs"})
    /\ locked' = FALSE
    /\ pc' = [pc EXCEPT ![p] = "user"]
    /\ UNCHANGED <<current, cpu, ready_list, queue, waitqueue, state, elapsed,
                   waits, killed>>

MutexUnlock_NoPush(p) ==
    /\ Running(p, {"cs"})
    /\ locked' = FALSE
    /\ pc' = [pc EXCEPT ![p] = "user"]
    /\ waitqueue' = IF waitqueue = <<>> THEN <<>> ELSE Tail(waitqueue)
    /\ UNCHANGED <<current, cpu, ready_list, queue, state, elapsed, waits,
                   killed>>

MutexUnlock_KeepFlag(p) ==
    /\ Running(p, {"cs"})
    /\ pc' = [pc EXCEPT ![p] = "user"]
    /\ UNCHANGED <<current, cpu, ready_list, queue, waitqueue, locked, state,
                   elapsed, waits, killed>>

(* mutex_unlock with its process_wakeup, which hands over the CPU to       *)
(* nobody: the process woken up has to win the mutex again.                *)
MutexUnlock(p) ==
    /\ Running(p, {"cs"})
    /\ locked' = FALSE
    /\ pc' = [pc EXCEPT ![p] = "user"]
    /\ IF waitqueue = <<>>
       THEN UNCHANGED <<ready_list, waitqueue, state>>
       ELSE /\ waitqueue' = Tail(waitqueue)
            /\ ready_list' = Append(ready_list, Head(waitqueue))
            /\ state' = [state EXCEPT ![Head(waitqueue)] = "READY"]
    /\ UNCHANGED <<current, cpu, queue, elapsed, waits, killed>>

(* clock_wait reads the clock ...                                          *)
ClockWait(p) ==
    /\ Running(p, {"cs"})
    /\ waits > 0
    /\ waits' = waits - 1
    /\ elapsed' = 0
    /\ pc' = [pc EXCEPT ![p] = "push"]
    /\ UNCHANGED <<current, cpu, ready_list, queue, waitqueue, locked, state,
                   killed>>

(* Mutant: the push is missing.                                            *)
ClockPush_NoPush(p) ==
    /\ Running(p, {"push"})
    /\ pc' = [pc EXCEPT ![p] = "pushed"]
    /\ UNCHANGED <<current, cpu, ready_list, queue, waitqueue, locked, state,
                   elapsed, waits, killed>>

(* ... its process_wait links the process into queue, interrupts on ...    *)
ClockPush(p) ==
    /\ Running(p, {"push"})
    /\ queue' = Append(queue, p)
    /\ pc' = [pc EXCEPT ![p] = "pushed"]
    /\ UNCHANGED <<current, cpu, ready_list, waitqueue, locked, state, elapsed,
                   waits, killed>>

(* Mutant: a click between the push and the switch makes it return at      *)
(* once, although the process is on ready_list.                            *)
ClockSwitch_SkipIfWoken(p) ==
    /\ Running(p, {"pushed"})
    /\ IF state[p] = "READY"
       THEN UNCHANGED <<state, current, cpu>>
       ELSE SwitchFrom(p, "BLOCKED")
    /\ pc' = [pc EXCEPT ![p] = "sleep"]
    /\ UNCHANGED <<ready_list, queue, waitqueue, locked, elapsed, waits,
                   killed>>

(* ... and gives up the CPU, whether or not a click has woken the process  *)
(* up in between.                                                          *)
ClockSwitch(p) ==
    /\ Running(p, {"pushed"})
    /\ SwitchFrom(p, "BLOCKED")
    /\ pc' = [pc EXCEPT ![p] = "sleep"]
    /\ UNCHANGED <<ready_list, queue, waitqueue, locked, elapsed, waits,
                   killed>>

(* The condition of its do-while.                                          *)
ClockCheck(p) ==
    /\ Running(p, {"sleep"})
    /\ pc' = [pc EXCEPT ![p] = IF elapsed < Delay THEN "push" ELSE "cs"]
    /\ UNCHANGED <<current, cpu, ready_list, queue, waitqueue, locked, state,
                   elapsed, waits, killed>>

(* process_exit, called for current by fault_handler or, when the user     *)
(* types exit, by the shell in the keyboard interrupt: the process may be  *)
(* anywhere.  It releases nothing and unlinks nothing: the pc of a process *)
(* in its grave says what it still holds, and one that dies at "pushed"    *)
(* stays on its list, is dispatched again after the next click and goes on *)
(* where it was killed.                                                    *)
Exit(p) ==
    /\ Running(p, PC)
    /\ SwitchFrom(p, "GRAVE")
    /\ killed' = killed \cup {p}
    /\ UNCHANGED <<ready_list, queue, waitqueue, locked, pc, elapsed, waits>>

(* The same exit typed while no process runs: process_switch starts its    *)
(* loop anew, with nothing to put aside.                                   *)
ExitIdle ==
    /\ cpu \in {"open", "hlt"}
    /\ cpu' = "pick"
    /\ UNCHANGED <<current, ready_list, queue, waitqueue, locked, state, pc,
                   elapsed, waits, killed>>

ProcStep(p) ==
    \/ Yield(p) \/ MutexLock(p) \/ MutexBlock(p) \/ MutexUnlock(p)
    \/ ClockWait(p) \/ ClockPush(p) \/ ClockSwitch(p) \/ ClockCheck(p)
    \/ Exit(p)

Kernel == BootSwitch \/ Dispatch \/ IdleOpen \/ IdleHalt

Next == Kernel \/ ClockInterrupt \/ ExitIdle \/ \E p \in Proc : ProcStep(p)

Spec == Init /\ [][Next]_vars

(* The CPU executes the kernel.  The PIT keeps ticking, and the PIC        *)
(* latches a click that comes while interrupts are off until they are on   *)
(* again: strong fairness.  A process does not compute for ever between    *)
(* two calls: with no preemption the kernel could not make up for that.    *)
FairSpec ==
    /\ Spec
    /\ WF_vars(Kernel)
    /\ SF_vars(ClockInterrupt)
    /\ \A p \in Proc : WF_vars(ProcStep(p))
----------------------------------------------------------------------------
Listed(p) == On(ready_list, p) \/ On(queue, p) \/ On(waitqueue, p)

(* Lists hold processes, and fields have the values the C types allow.     *)
TypeOK ==
    /\ current \in Proc \cup {NULL}
    /\ cpu \in {"boot", "run", "pick", "open", "hlt"}
    /\ ready_list \in Seq(Proc) /\ queue \in Seq(Proc) /\ waitqueue \in Seq(Proc)
    /\ locked \in BOOLEAN
    /\ state \in [Proc -> {"READY", "RUNNING", "BLOCKED", "GRAVE"}]
    /\ pc \in [Proc -> PC]
    /\ elapsed \in 0..Delay /\ waits \in 0..MaxWaits
    /\ killed \subseteq Proc
    /\ (cpu = "run") <=> (current # NULL)

(* A process has one list_node, so it is on one list at most and there     *)
(* once; process_wait and the wakeups never break that, although the push  *)
(* of clock_wait runs with interrupts on.                                  *)
OneNodeOneList ==
    /\ NoDup(ready_list) /\ NoDup(queue) /\ NoDup(waitqueue)
    /\ \A p \in Proc : /\ ~(On(ready_list, p) /\ On(queue, p))
                       /\ ~(On(ready_list, p) /\ On(waitqueue, p))
                       /\ ~(On(queue, p) /\ On(waitqueue, p))

(* The running process is on a list only between the push and the switch   *)
(* of its own clock_wait.                                                  *)
OnlyIdleListed ==
    \A p \in Proc : Listed(p) /\ current = p => pc[p] = "pushed"

(* A process that has not exited is running or on a list, where a later    *)
(* wakeup or dispatch finds it: none is ever forgotten.                    *)
NoProcessLost ==
    \A p \in Proc : p \notin killed => current = p \/ Listed(p)

(* One process at a time is between mutex_lock and mutex_unlock, and the   *)
(* flag is up exactly then; a process killed in between holds it for good. *)
MutexExclusion ==
    /\ \A p, q \in Proc : pc[p] \in InCS /\ pc[q] \in InCS => p = q
    /\ locked <=> \E p \in Proc : pc[p] \in InCS

(* While the mutex is free and somebody waits for it, somebody is on its   *)
(* way to take it, and will wake the next one.                             *)
OnItsWay ==
    ~locked /\ waitqueue # <<>> =>
        \E p \in Proc : pc[p] = "retry" /\ (current = p \/ On(ready_list, p))

(* mutex_unlock wakes one waiter only, which may lose the mutex to another *)
(* process; no step of the processes leaves waiters behind with nobody on  *)
(* its way, except the one that kills the process on its way, between its  *)
(* wakeup and the test of the flag in mutex_lock.                          *)
NoLostMutexWakeup ==
    [][OnItsWay => OnItsWay' \/ \E p \in killed' \ killed : pc[p] = "retry"]_vars

(* Who is where.  One on the waitqueue is in mutex_lock and alive.  One    *)
(* between the push and the switch of clock_wait is still the running one  *)
(* and on a list, so that the switch cannot lose it, unless it was killed. *)
(* A killed process is linked, or running again, only if it was killed in  *)
(* that window; and a process in its grave does not run.                   *)
BlockedWhere ==
    \A p \in Proc :
        /\ On(waitqueue, p) => pc[p] = "retry" /\ p \notin killed
        /\ pc[p] = "pushed" /\ p \notin killed =>
               current = p /\ (On(queue, p) \/ On(ready_list, p))
        /\ p \in killed /\ Listed(p) => pc[p] = "pushed" /\ current # p
        /\ p \in killed /\ current = p => pc[p] = "pushed"
        /\ current = p => state[p] # "GRAVE"

(* clock.c's queue is unprotected; it is safe because its users hold the   *)
(* mutex: whoever pushes finds the list empty.                             *)
OneClockWaiter ==
    /\ Len(queue) <= 1
    /\ \A p \in Proc : On(queue, p) => pc[p] \in {"pushed", "sleep"}
----------------------------------------------------------------------------
(* process_exit releases nothing: whoever is killed with the mutex keeps   *)
(* it, and a waiter killed on its way does not pass its wakeup on.         *)
HolderKilled == \E p \in killed : pc[p] \in InCS
WaiterKilled == \E p \in killed : pc[p] = "retry"

(* Unless its holder is killed, the mutex is released again.               *)
LockReleased == locked ~> ~locked \/ HolderKilled

(* Every process that waits for the mutex is woken up unless the holder or *)
(* a waiter on its way is killed, and every one that waits for the clock   *)
(* unless it is killed itself.                                             *)
WaiterWoken ==
    \A p \in Proc :
        On(waitqueue, p) ~> ~On(waitqueue, p) \/ HolderKilled \/ WaiterKilled
SleeperWoken ==
    \A p \in Proc : (pc[p] = "sleep") ~> (pc[p] = "cs" \/ p \in killed)

(* The window between enable_interrupts and hlt: a wakeup in it finds the  *)
(* CPU on its way to sleep, and the next click rescues the process.        *)
IdleEnds == (cpu \in {"open", "hlt"} /\ ready_list # <<>>) ~> (cpu = "run")
============================================================================
